------------------------------ MODULE MCDisplay ------------------------------
(***************************************************************************)
(* The display components for TLC.                                         *)
(***************************************************************************)
EXTENDS DisplayParts

\* The six CD clock fields the source lists: 307.2, 312, 552, 556.8, 648 and
\* 652.8 MHz.
EveryCdclk == {612, 622, 1102, 1112, 1294, 1304}

\* Sinks with a valid lane count and one that is none, with rates below, at and
\* above HBR2, and with a revision on each side of the one the code tests.
SinkWith(n, base, extended, rev) ==
  [lanes |-> n, revision |-> rev,
   rate |-> [a \in CapsAddresses |-> IF a = 0 THEN base ELSE extended]]

SomeSinks == {SinkWith(4, 20, 30, 20), SinkWith(3, 10, 30, 2)}

\* The personality Info.plist ships, which has no dictionary in it, and nested
\* ones up to two levels deep, with empty ones among them.
One(k, x) == [j \in {k} |-> x]
Two(k, x, l, y) == [j \in {k, l} |-> IF j = k THEN x ELSE y]

Entries(v) ==
  {Leaf(v), Dict(<< >>), Dict(One("a", Dict(<< >>))),
   Dict(Two("a", Dict(One("x", Leaf(v))), "b", Leaf(v)))}

ManyPersonalities ==
  {One("IOClass", Leaf("ours"))} \cup {One("n", x) : x \in Entries("ours")}
    \cup {Two("n", x, "m", Leaf("ours")) : x \in Entries("ours")}

ManyTables ==
  {One("z", Leaf("display"))}
    \cup {Two("n", x, "z", Leaf("display")) : x \in Entries("display")}

Values ==
  {Leaf("driver"), Dict(Two("a", Dict(One("y", Leaf("driver"))), "c", Leaf("driver")))}

\* The hypotheses of the theorems in DisplayProofs, for the recursive merge and
\* these dictionaries: a copy that is put back keeps its target's keys, includes
\* its source when it is whole or its target did, and an entry more takes
\* nothing away.
ASSUME MergeHypotheses ==
  \A f \in ManyPersonalities : \A k \in DOMAIN f :
    /\ HasEntries(f[k], f[k])
    /\ \A x \in {y \in Values \cup Entries("ours") : IsDict(y)} :
         LET more == Dict(With(x.d, DriverKey, Leaf("driver")))
         IN  /\ HasEntries(x, f[k]) => HasEntries(more, f[k])
             /\ IsDict(f[k]) =>
                  \A y \in {x, more} :
                    \A c \in {d \in MergeDictionaryIntoDictionary(f[k].d, y.d) : d.ok} :
                      /\ DOMAIN y.d \subseteq DOMAIN c.dict
                      /\ c.whole \/ HasEntries(y, f[k]) => HasEntries(Dict(c.dict), f[k])
=============================================================================
