--------------------------- MODULE DictionaryMerge ---------------------------
(***************************************************************************)
(* The recursive merge of two dictionaries that DisplayMergeNub puts back  *)
(* into the display, and what its result is compared with.                 *)
(***************************************************************************)
EXTENDS DisplayMergeNub, SequencesExt

(***************************************************************************)
(* MergeDictionaryIntoDictionary, on a copy nobody else sees: the set of   *)
(* its possible outcomes.  ok is its result; the caller drops the copy     *)
(* unless it is true.  whole tells a merge that reached every entry from   *)
(* one that a failed copy of a nested dictionary cut short, which returns  *)
(* what the entry before it returned.                                      *)
(***************************************************************************)
Failed == [ok |-> FALSE, whole |-> FALSE, dict |-> << >>]

\* Mutant: a nested dictionary is replaced, not merged.
MutMerge(source, target) ==
  {[ok |-> TRUE, whole |-> TRUE,
    dict |-> [k \in DOMAIN source \cup DOMAIN target |->
                IF k \in DOMAIN source THEN source[k] ELSE target[k]]]}

RECURSIVE MergeFrom(_, _, _)
MergeFrom(source, todo0, so) ==
  IF todo0 = {} THEN {so}
  ELSE UNION {LET x == source[k]
                  Set(y, all) ==   \* setObject, which may fail
                    {Failed} \cup MergeFrom(source, todo0 \ {k},
                       [ok |-> TRUE, whole |-> all, dict |-> With(so.dict, k, y)])
              IN  IF k \in DOMAIN so.dict /\ IsDict(so.dict[k]) /\ IsDict(x)
                    THEN {[so EXCEPT !.whole = FALSE]}   \* no memory for the copy
                           \cup UNION {IF c.ok THEN Set(Dict(c.dict), so.whole /\ c.whole)
                                               ELSE {Failed} :
                                         c \in MergeFrom(x.d, DOMAIN x.d,
                                                 [ok |-> FALSE, whole |-> TRUE,
                                                  dict |-> so.dict[k].d])}
                    ELSE Set(x, so.whole) : k \in todo0}

MergeDictionaryIntoDictionary(source, target) ==
  MergeFrom(source, DOMAIN source, [ok |-> FALSE, whole |-> TRUE, dict |-> target])

-----------------------------------------------------------------------------
RECURSIVE HasEntries(_, _)
HasEntries(x, y) ==
  IF y.leaf THEN x = y
  ELSE /\ IsDict(x)
       /\ \A k \in DOMAIN y.d : k \in DOMAIN x.d /\ HasEntries(x.d[k], y.d[k])

RECURSIVE Nodes(_)
Nodes(f) ==
  UNION {{[path |-> <<k>>, v |-> IF IsDict(f[k]) THEN "dict" ELSE f[k].v]}
           \cup {[path |-> <<k>> \o n.path, v |-> n.v] :
                   n \in IF IsDict(f[k]) THEN Nodes(f[k].d) ELSE {}} : k \in DOMAIN f}

\* A copy that MergeDictionaryIntoDictionary lets its caller put back, against
\* the definition of a merge by paths: if no copy failed, all of the source, and
\* of the target what lies neither at nor below a leaf of the source and is not
\* replaced by one of its dictionaries; in any case nothing of neither of them.
MergeIsUnion ==
  [][pc = "loop" /\ pc' = "put" /\ copy'.ok =>
       LET source == Nodes(ours[key'].d)
           target == Nodes(table[key'].d)
           merged == Nodes(copy'.dict)
       IN  /\ merged \subseteq source \cup target
           /\ copy'.whole =>
                merged = source \cup {n \in target : \A q \in source :
                           IsPrefix(q.path, n.path) => q.v = "dict" /\ q.path # n.path}]_mergeVars
=============================================================================
