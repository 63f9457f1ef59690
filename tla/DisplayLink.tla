----------------------------- MODULE DisplayLink -----------------------------
(***************************************************************************)
(* The DisplayPort link hooks: Gen11::wrapICLReadAUX, which clamps what    *)
(* the framebuffer driver reads from a sink over AUX and remembers the     *)
(* sink's capabilities in the plugin, and Gen11::computeLaneCount, which   *)
(* answers from what was remembered.                                       *)
(*                                                                         *)
(* Link rates are DPCD bandwidth codes.  A lane field keeps only its five  *)
(* count bits: the three flag bits above them pass through both hooks.     *)
(* Reads that fail, that are too short to hold the capabilities, or that   *)
(* go to other addresses leave buffer and cache as they were and are not   *)
(* steps; the backlight byte of 0x0700 is cached for log lines only.       *)
(***************************************************************************)
EXTENDS Naturals

CONSTANTS
  Ports,       \* the driver's AppleIntelPort objects
  NoPort,      \* none of them
  Sinks,       \* the sinks that may be plugged in
  Overrides,   \* the values of the boot argument ngreenLanes, 0 for none
  Rates,       \* the rates link training may fall back to
  Platforms    \* the values NGreen::isRealTGL may have

CapsAddresses == {0, 8704}     \* 0x0000 and 0x2200
HBR2 == 20                     \* 0x14
LaneCounts == {1, 2, 4}

(***************************************************************************)
(* What a sink advertises: its lane count field, its revision and, for     *)
(* each of the two capability blocks, its maximum rate.                    *)
(***************************************************************************)
Sink == [lanes : 0 .. 31, revision : 0 .. 255, rate : [CapsAddresses -> 0 .. 255]]

ASSUME PortsAssumption == NoPort \notin Ports
ASSUME SinksAssumption == Sinks \subseteq Sink
ASSUME ArgumentAssumption == Overrides \subseteq Nat /\ Platforms \subseteq BOOLEAN
ASSUME RatesAssumption == Rates \subseteq 0 .. 255

NoLink == [rate |-> 0, lanes |-> 0]
Link == [rate : 0 .. 255, lanes : 0 .. 31]
NoCount == [count |-> 0, shown |-> 0]

VARIABLES
  isRealTGL,   \* NGreen::isRealTGL
  lanesArg,    \* ngreenLanes
  sink,        \* sink[p]: the sink attached to p
  dpcd,        \* the plugin's cache: dpcdCapsValid and dpcdMaxLaneCountRaw
  caps,        \* caps[p]: the rate and lanes the driver last read from p's sink
  lanes,       \* lanes[p]: the count last computed for p, and the one caps[p] had then
  link,        \* link[p]: LINK_BW_SET and LANE_COUNT_SET of p's sink
  config,      \* config[p]: what the driver last read back of link[p]
  owner,       \* the port whose present sink filled the cache
  foreign      \* ports that were answered from a cache they did not own

args == <<isRealTGL, lanesArg>>
history == <<owner, foreign>>
linkVars == <<args, sink, dpcd, caps, lanes, link, config, history>>

\* The state of the link hooks and of the sinks is well formed.
LinkTypeOK ==
  /\ isRealTGL \in BOOLEAN
  /\ lanesArg \in Nat
  /\ sink \in [Ports -> Sink]
  /\ dpcd \in [valid : BOOLEAN, lanes : 0 .. 31]
  /\ caps \in [Ports -> Link]
  /\ lanes \in [Ports -> [count : {0} \cup LaneCounts, shown : 0 .. 31]]
  /\ link \in [Ports -> Link]
  /\ config \in [Ports -> Link]
  /\ owner \in Ports \cup {NoPort}
  /\ foreign \subseteq Ports

LinkInit ==
  /\ isRealTGL \in Platforms
  /\ lanesArg \in Overrides
  /\ sink \in [Ports -> Sinks]
  /\ dpcd = [valid |-> FALSE, lanes |-> 0]
  /\ caps = [p \in Ports |-> NoLink]
  /\ lanes = [p \in Ports |-> NoCount]
  /\ link = [p \in Ports |-> NoLink]
  /\ config = [p \in Ports |-> NoLink]
  /\ owner = NoPort
  /\ foreign = {}

Capped(rate) == IF rate > HBR2 THEN HBR2 ELSE rate

(***************************************************************************)
(* wrapICLReadAUX at a capability block: the sink's raw lane count goes to *)
(* the cache, the clamped values to the driver.                            *)
(***************************************************************************)
ShownLanes(raw) ==
  IF isRealTGL THEN raw ELSE IF raw \in LaneCounts THEN raw ELSE 2

ShownRate(s, address) ==
  IF s.revision < 3
    THEN 0
    ELSE IF isRealTGL THEN s.rate[address] ELSE Capped(s.rate[address])

\* Mutant: the cache is filled once and kept.
MutReadCaps(p, address) ==
  /\ caps' = [caps EXCEPT ![p] = [rate  |-> ShownRate(sink[p], address),
                                  lanes |-> ShownLanes(sink[p].lanes)]]
  /\ dpcd' = IF dpcd.valid THEN dpcd ELSE [valid |-> TRUE, lanes |-> sink[p].lanes]
  /\ owner' = p
  /\ UNCHANGED <<args, sink, lanes, link, config, foreign>>

ReadCaps(p, address) ==
  /\ caps' = [caps EXCEPT ![p] = [rate  |-> ShownRate(sink[p], address),
                                  lanes |-> ShownLanes(sink[p].lanes)]]
  /\ dpcd' = [valid |-> TRUE, lanes |-> sink[p].lanes]
  /\ owner' = p
  /\ UNCHANGED <<args, sink, lanes, link, config, foreign>>

\* The history of an answer from the cache.
Answers(p) ==
  /\ foreign' = IF owner = p THEN foreign ELSE foreign \cup {p}
  /\ UNCHANGED owner

(***************************************************************************)
(* wrapICLReadAUX at 0x0100: the link configuration, its rate capped and   *)
(* its lane count replaced by the cached one when that is a valid count.   *)
(***************************************************************************)
\* Mutant: the cached count is used without testing that it is a lane count.
MutReadLink(p) ==
  /\ link[p] # NoLink
  /\ config' = [config EXCEPT ![p] =
       IF isRealTGL
         THEN link[p]
         ELSE [rate  |-> Capped(link[p].rate),
               lanes |-> IF dpcd.valid THEN dpcd.lanes ELSE link[p].lanes]]
  /\ Answers(p)
  /\ UNCHANGED <<args, sink, dpcd, caps, lanes, link>>

ReadLink(p) ==
  /\ link[p] # NoLink
  /\ config' = [config EXCEPT ![p] =
       IF isRealTGL
         THEN link[p]
         ELSE [rate  |-> Capped(link[p].rate),
               lanes |-> IF dpcd.valid /\ dpcd.lanes \in LaneCounts
                           THEN dpcd.lanes
                           ELSE link[p].lanes]]
  /\ Answers(p)
  /\ UNCHANGED <<args, sink, dpcd, caps, lanes, link>>

(***************************************************************************)
(* computeLaneCount.  On real Tiger Lake the original decides: any count   *)
(* the sink can take.                                                      *)
(***************************************************************************)
getConfiguredLaneCountOverride == IF lanesArg \in LaneCounts THEN lanesArg ELSE 0

sanitizeDpcdLaneCount(raw) == IF raw \in LaneCounts THEN raw ELSE 0

SpoofedLanes ==
  LET dpcdLaneCount == IF dpcd.valid THEN sanitizeDpcdLaneCount(dpcd.lanes) ELSE 0
  IN  IF getConfiguredLaneCountOverride # 0
        THEN getConfiguredLaneCountOverride
        ELSE IF dpcdLaneCount # 0 THEN dpcdLaneCount ELSE 2

OriginalLanes(p) == {n \in LaneCounts : n <= caps[p].lanes}

computeLaneCount(p) ==
  /\ \E n \in IF isRealTGL THEN OriginalLanes(p) ELSE {SpoofedLanes} :
       lanes' = [lanes EXCEPT ![p] = [count |-> n, shown |-> caps[p].lanes]]
  /\ Answers(p)
  /\ UNCHANGED <<args, sink, dpcd, caps, link, config>>

(***************************************************************************)
(* The driver trains the link (external) with the count computed for the   *)
(* port and the rate it was shown, or falls back to less of either.        *)
(***************************************************************************)
TrainLink(p) ==
  /\ caps[p] # NoLink /\ lanes[p] # NoCount
  /\ \E rate \in {caps[p].rate} \cup Rates, n \in LaneCounts :
       /\ rate <= caps[p].rate /\ n <= lanes[p].count
       /\ link' = [link EXCEPT ![p] = [rate |-> rate, lanes |-> n]]
  /\ config' = [config EXCEPT ![p] = NoLink]
  /\ UNCHANGED <<args, sink, dpcd, caps, lanes, history>>

(***************************************************************************)
(* Another sink is plugged in: the driver forgets what it knew of the port *)
(* and the plugin is not told.                                             *)
(***************************************************************************)
HotPlug(p) ==
  /\ \E s \in Sinks : sink' = [sink EXCEPT ![p] = s]
  /\ caps' = [caps EXCEPT ![p] = NoLink]
  /\ lanes' = [lanes EXCEPT ![p] = NoCount]
  /\ link' = [link EXCEPT ![p] = NoLink]
  /\ config' = [config EXCEPT ![p] = NoLink]
  /\ owner' = IF owner = p THEN NoPort ELSE owner
  /\ foreign' = foreign \ {p}
  /\ UNCHANGED <<args, dpcd>>

wrapICLReadAUX(p) ==
  \/ \E address \in CapsAddresses : ReadCaps(p, address)
  \/ ReadLink(p)

LinkNext == \E p \in Ports : \/ wrapICLReadAUX(p)
                         \/ computeLaneCount(p)
                         \/ TrainLink(p)
                         \/ HotPlug(p)

LinkSpec == LinkInit /\ [][LinkNext]_linkVars

-----------------------------------------------------------------------------
Spoofed == ~isRealTGL /\ getConfiguredLaneCountOverride = 0

(***************************************************************************)
(* On a spoofed platform without an override the lane count computed for a *)
(* port is the one its sink was shown to offer: the two hooks sanitise the *)
(* raw DPCD field separately, and the second one works from a cache that   *)
(* outlives the sink it was filled from.  One cache serves every port, so  *)
(* this is claimed where the port was always answered from a cache that    *)
(* its own sink had filled; SinkFollowed is the claim without that.  The   *)
(* count follows the sink, where src/README.md:84 says "(default 2         *)
(* lanes)"; 2 is the answer only to a cache without a valid count.         *)
(***************************************************************************)
LanesAsAdvertised ==
  \A p \in Ports :
    Spoofed /\ p \notin foreign /\ lanes[p] # NoCount => lanes[p].count = caps[p].lanes

(***************************************************************************)
(* The rate the driver reads back is the one it trained with, always.  The *)
(* lane count is too, although wrapICLReadAUX rewrites it after the fact   *)
(* from the cache, except where that rewriting shows: an override or link  *)
(* training chose fewer lanes than the cache has (with ngreenLanes=2 on a  *)
(* sink with 4 the driver reads 4), or the cache was another sink's.       *)
(***************************************************************************)
ReadsBackItsLink ==
  \A p \in Ports : config[p] # NoLink =>
    /\ config[p].rate = link[p].rate
    /\ \/ config[p].lanes = link[p].lanes
       \/ /\ ~isRealTGL
          /\ \/ getConfiguredLaneCountOverride # 0
             \/ link[p].lanes < lanes[p].count
             \/ p \in foreign

(***************************************************************************)
(* computeLaneCount's comment (TGL.cpp:5262-5263): without an override the *)
(* count follows "the sink-advertised DPCD lane count observed via AUX     *)
(* reads".  It is that of the sink whose capabilities were read last, on   *)
(* whichever port.                                                         *)
(***************************************************************************)
SinkFollowed ==
  \A p \in Ports : Spoofed /\ lanes[p].shown # 0 => lanes[p].count = lanes[p].shown
=============================================================================
