----------------------------- MODULE DisplayParts -----------------------------
(***************************************************************************)
(* The three display components, one at a time: they share no state, so    *)
(* what one of them can do does not depend on where the others are.        *)
(***************************************************************************)
EXTENDS DisplayBringup, DisplayLink, DictionaryMerge

CONSTANT Parts

ASSUME PartsAssumption == Parts \subseteq {"bringup", "link", "merge"}

VARIABLE part

\* Any one of the initial states of a part that does not move.
BringupStill ==
  /\ gate = FALSE /\ dmcArg = CHOOSE d \in DmcArgs : TRUE
  /\ ref = CHOOSE r \in Refs : TRUE
  /\ pll = FALSE /\ cdclk = CHOOSE c \in Cdclks : TRUE
  /\ csr = FALSE
  /\ Init

LinkStill ==
  /\ isRealTGL = CHOOSE b \in Platforms : TRUE
  /\ lanesArg = CHOOSE n \in Overrides : TRUE
  /\ sink = [p \in Ports |-> CHOOSE s \in Sinks : TRUE]
  /\ LinkInit

MergeStill ==
  /\ ours = CHOOSE f \in Personalities : TRUE
  /\ matched = FALSE
  /\ table = CHOOSE f \in Tables : TRUE
  /\ MergeInit

PInit ==
  /\ part \in Parts
  /\ IF part = "bringup" THEN Init ELSE BringupStill
  /\ IF part = "link" THEN LinkInit ELSE LinkStill
  /\ IF part = "merge" THEN MergeInit ELSE MergeStill

PNext ==
  \/ part = "bringup" /\ Next /\ UNCHANGED <<part, linkVars, mergeVars>>
  \/ part = "link" /\ LinkNext /\ UNCHANGED <<part, vars, mergeVars>>
  \/ part = "merge" /\ MergeNext /\ UNCHANGED <<part, vars, linkVars>>

PSpec == PInit /\ [][PNext]_<<part, vars, linkVars, mergeVars>>
=============================================================================
