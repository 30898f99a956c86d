------------------------------- MODULE MCAssets -------------------------------
(* AssetReplay for TLC: two sets that are allocated together and freed       *)
(* together, or the second one alone; and one set with two bindings.         *)
EXTENDS AssetReplay

MCBuffers == {1, 2}
MCSets == {3, 4}
MCGroups == {{3, 4}}
MCFreed == {{3, 4}, {4}}
MCLastBinding == [s \in MCSets |-> IF s = 3 THEN 2 ELSE 1]

MCOneSet == {3}
MCOneGroup == {{3}}
MCTwoBindings == [s \in MCOneSet |-> 2]
=============================================================================
