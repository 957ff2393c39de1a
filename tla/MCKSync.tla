------------------------------- MODULE MCKSync -------------------------------
(* An instance of KSync for TLC: two bool symbols, one of them y by default. *)
EXTENDS KSync

AllOff  == [s \in Symbols |-> No]
OneOn   == [s \in Symbols |-> IF s = "a" THEN "y" ELSE No]
TwoDefs == {OneOn, [s \in Symbols |-> "y"]}
=============================================================================
