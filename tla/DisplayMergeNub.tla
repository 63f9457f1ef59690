--------------------------- MODULE DisplayMergeNub ---------------------------
(***************************************************************************)
(* DisplayMergeNub: a driver whose probe always fails and whose side       *)
(* effect is to merge the dictionary of its personality into the display   *)
(* it is probed on.  The display's own driver changes its properties       *)
(* meanwhile; reading a property and putting it back are separate steps.   *)
(*                                                                         *)
(* A dictionary is a function from keys to values; a value is a leaf or    *)
(* another dictionary.  The merge of two of them is in DictionaryMerge.    *)
(***************************************************************************)
EXTENDS Naturals

CONSTANTS
  Personalities,   \* the IOProviderMergeProperties considered
  Tables,          \* the property tables a display may have
  DriverValues,    \* what the display's driver sets a property to
  Probes,          \* how often IOKit probes the display
  Writes,          \* bound on what the display's driver writes
  Merge(_, _),     \* MergeDictionaryIntoDictionary: its possible results and copies
  Includes(_, _)   \* the first value has all the entries of the second

Leaf(v) == [leaf |-> TRUE, v |-> v]
Dict(f) == [leaf |-> FALSE, d |-> f]
IsDict(x) == ~x.leaf
With(f, k, x) == [j \in DOMAIN f \cup {k} |-> IF j = k THEN x ELSE f[j]]

ASSUME DictAssumption ==
  \A f \in Personalities \cup Tables : \A k \in DOMAIN f : f[k].leaf \in BOOLEAN
\* The entry the display's driver adds to a dictionary is one of its own.
DriverKey == "driver's"
ASSUME DriverKeyAssumption ==
  \A f \in Personalities : \A k \in DOMAIN f :
    IsDict(f[k]) => DriverKey \notin DOMAIN f[k].d
ASSUME BoundAssumption == Probes \in Nat /\ Writes \in Nat

VARIABLES
  ours,      \* IOProviderMergeProperties
  matched,   \* vendor and product are those of the personality
  table,     \* the display's properties
  name,      \* the display's name
  pc,        \* where probe is
  todo,      \* keys the iterator still has
  key,       \* the key being merged
  copy,      \* localCopyOfProvidersDictionary, merged
  probes,    \* probes so far
  writes,    \* writes of the display's driver so far
  theirs,    \* what the driver last set under keys that are not ours
  over,      \* our keys that we have not written whole since the driver last did
  late       \* the driver has written key since probe looked at it

nub == <<pc, todo, key, copy, probes>>
driver == <<writes, theirs, over, late>>
mergeVars == <<ours, matched, table, name, nub, driver>>

NoCopy == [ok |-> FALSE, whole |-> FALSE, dict |-> << >>]
NoKey == "no key"

-----------------------------------------------------------------------------
MergeInit ==
  /\ ours \in Personalities
  /\ matched \in BOOLEAN
  /\ table \in Tables
  /\ name = "display"
  /\ pc = "idle" /\ todo = {} /\ key = NoKey /\ copy = NoCopy
  /\ probes = 0 /\ writes = 0
  /\ theirs = [k \in DOMAIN table \ DOMAIN ours |-> table[k]]
  /\ over = DOMAIN ours /\ late = FALSE

\* probe: nothing unless the ids agree.
probe ==
  /\ pc = "idle" /\ probes < Probes
  /\ probes' = probes + 1
  /\ IF matched
       THEN todo' = DOMAIN ours /\ pc' = "shallow"
       ELSE UNCHANGED <<todo, pc>>
  /\ UNCHANGED <<ours, matched, table, name, key, copy, driver>>

\* Mutant: what the display has already is kept.
MutOverwrite(k) ==
  /\ table' = IF k \in DOMAIN table THEN table ELSE With(table, k, ours[k])
  /\ over' = over \ {k}

\* Our entry is written over whatever the display has there.
Overwrite(k) ==
  /\ table' = With(table, k, ours[k])
  /\ over' = over \ {k}

(***************************************************************************)
(* OSDictionary::merge (external) on the display's property table: a       *)
(* shallow merge, one entry at a time and under no lock of the display's;  *)
(* it ends at an entry it cannot set, and probe ignores its result.  Then  *)
(* the name is set and the loop begins.                                    *)
(***************************************************************************)
\* Mutant: an entry for a key the display does not have drops the others.
MutShallowMerge ==
  /\ pc = "shallow"
  /\ \E k \in todo :
       /\ todo' = todo \ {k}
       /\ table' = IF k \in DOMAIN table THEN With(table, k, ours[k]) ELSE [j \in {k} |-> ours[k]]
       /\ over' = over \ {k}
  /\ UNCHANGED <<ours, matched, name, pc, key, copy, probes, writes, theirs, late>>

ShallowMerge ==
  /\ pc = "shallow"
  /\ \E k \in todo : todo' = todo \ {k} /\ Overwrite(k)
  /\ UNCHANGED <<ours, matched, name, pc, key, copy, probes, writes, theirs, late>>

ShallowEnds ==
  /\ pc = "shallow"
  /\ name' = IF "IOClass" \in DOMAIN ours THEN "IOClass" ELSE name
  /\ todo' = DOMAIN ours
  /\ pc' = "loop"
  /\ UNCHANGED <<ours, matched, table, key, copy, probes, driver>>

(***************************************************************************)
(* MergeDictionaryIntoProvider: one key at a time.  Where both sides have  *)
(* a dictionary a copy of the display's is merged and put back; otherwise  *)
(* our entry is set.  The loop ends at the first failure.                  *)
(***************************************************************************)
BothDicts(k) == k \in DOMAIN table /\ IsDict(table[k]) /\ IsDict(ours[k])

Look ==
  /\ pc = "loop"
  /\ \E k \in todo :
       /\ key' = k /\ todo' = todo \ {k}
       /\ \/ /\ BothDicts(k)
             /\ copy' \in Merge(ours[k].d, table[k].d)
             /\ pc' = "put"
          \/ /\ ~BothDicts(k)
             /\ pc' = "set"
             /\ UNCHANGED copy
  /\ late' = FALSE
  /\ UNCHANGED <<ours, matched, table, name, probes, writes, theirs, over>>

NextKey == pc' = "loop" /\ key' = NoKey /\ copy' = NoCopy

\* Mutant: our dictionary is put, not the merged copy.
MutPutBack ==
  /\ pc = "put" /\ copy.ok
  /\ table' = With(table, key, ours[key])
  /\ over' = over \ {key}
  /\ NextKey
  /\ UNCHANGED <<ours, matched, name, todo, probes, writes, theirs, late>>

PutBack ==
  /\ pc = "put" /\ copy.ok
  /\ table' = With(table, key, Dict(copy.dict))
  /\ over' = IF copy.whole THEN over \ {key} ELSE over
  /\ NextKey
  /\ UNCHANGED <<ours, matched, name, todo, probes, writes, theirs, late>>

SetEntry ==
  /\ pc = "set"
  /\ Overwrite(key)
  /\ NextKey
  /\ UNCHANGED <<ours, matched, name, todo, probes, writes, theirs, late>>

Leave ==
  /\ pc' = "idle" /\ todo' = {} /\ key' = NoKey /\ copy' = NoCopy
  /\ UNCHANGED <<ours, matched, table, name, probes, driver>>

\* No memory for the iterator or the copy, a merge without result, or a
\* property refused.
Break == (pc \in {"put", "set"} \/ (pc = "loop" /\ todo # {})) /\ Leave

LoopEnds == pc = "loop" /\ todo = {} /\ Leave

(***************************************************************************)
(* The display's driver (external) sets a property, or copies one of its   *)
(* dictionaries, adds an entry of its own and sets it.                     *)
(***************************************************************************)
DriverWrites(k, x) ==
  /\ writes < Writes
  /\ writes' = writes + 1
  /\ table' = With(table, k, x)
  /\ late' = (late \/ key = k)
  /\ UNCHANGED <<ours, matched, name, nub>>

DriverSets(k, x) ==
  /\ DriverWrites(k, x)
  /\ IF k \in DOMAIN ours
       THEN over' = over \cup {k} /\ UNCHANGED theirs
       ELSE theirs' = With(theirs, k, x) /\ UNCHANGED over

DriverNests(k) ==
  /\ k \in DOMAIN ours \cap DOMAIN table /\ IsDict(table[k])
  /\ DriverWrites(k, Dict(With(table[k].d, DriverKey, Leaf("driver"))))
  /\ UNCHANGED <<theirs, over>>

MergeNext ==
  \/ probe \/ ShallowMerge \/ ShallowEnds \/ Look \/ PutBack \/ SetEntry \/ Break \/ LoopEnds
  \/ \E k \in DOMAIN table, x \in DriverValues : DriverSets(k, x)
  \/ \E k \in DOMAIN table : DriverNests(k)

MergeSpec == MergeInit /\ [][MergeNext]_mergeVars

-----------------------------------------------------------------------------
\* Once we have written a property whole, the display has every entry of ours
\* under it, nested ones included, until its driver sets that property itself:
\* also when a later failure ends the loop or cuts the recursive merge short.
\* A merge cut short by a failed copy is put back as a success
\* (DisplayMergeNub.cpp:270-273 breaks with the result of the entry before), so
\* putting it back does not count as writing the property whole.
EveryEntryArrives ==
  \A k \in DOMAIN ours \ over : k \in DOMAIN table /\ Includes(table[k], ours[k])

\* Whatever the display or its driver has under other keys stays, also when it
\* is set in the middle of a merge.
TheirsKept == \A k \in DOMAIN theirs : k \in DOMAIN table /\ table[k] = theirs[k]

HasDriverEntry(k) ==
  k \in DOMAIN table /\ IsDict(table[k]) /\ DriverKey \in DOMAIN table[k].d

\* The loop merges "our entry into it, recursively" (DisplayMergeNub.cpp:95):
\* putting a merged dictionary back loses an entry of the driver's only if the
\* driver wrote the property after the copy was made, as the comment in the loop
\* admits.  Outside the loop the words do not hold: the shallow merge of the same
\* probe (line 74) replaces the driver's dictionary, its entry included.  Other
\* than there an entry is lost only to the driver itself, or where the loop found
\* no two dictionaries to merge.
LossConfined ==
  [][\A k \in DOMAIN ours :
       HasDriverEntry(k) /\ ~HasDriverEntry(k)' =>
         \/ pc = "shallow"
         \/ pc = "set" /\ key = k
         \/ pc = "put" /\ key = k /\ late
         \/ writes' # writes]_mergeVars
=============================================================================
