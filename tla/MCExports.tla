------------------------------- MODULE MCExports -------------------------------
(* Small instances of Exports.                                              *)
EXTENDS Exports, TLC

CONSTANTS e1, e2, j1, j2, j3, w1, w2, f

Same      == [e \in ExportIds |-> f]
SameKey   == [j \in Jobs |-> f]
Targets   == [j \in Jobs |-> IF j = j2 THEN e2 ELSE e1]
Attempts  == [j \in Jobs |-> IF j = j2 THEN 1 ELSE 2]
Symmetric == Permutations(Workers)
================================================================================
