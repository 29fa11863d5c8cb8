----------------------------- MODULE MCSalesImport -----------------------------
(* Small instances of SalesImport. *)
EXTENDS SalesImport, TLC

CONSTANTS r1, r2, s1, w1, w2

All        == [r \in Runs |-> Sales]
AllOverlap == [r \in Runs |-> Runs]
\* Two runs of one period, where processes die, or statements fail while a day is recorded or its sales
\* are imported; or one run, a preview executed twice, and two executions of one job.
Two        == [provider : {"PAGBANK", "IFOOD"}, faults : {{"process"}, {"database"}}, runs : {Runs}, previews : {1}]
Days       == [provider : {"IFOOD"}, faults : {{"preview"}}, runs : {Runs}, previews : {1}]
One        == [provider : {"PAGBANK", "IFOOD"}, faults : {{"process", "lease"}, {"lease", "database"}, {"preview"}},
               runs : {{r} : r \in Runs}, previews : {2}]
TwoOrOne   == Two \cup Days \cup One
Symmetric  == Permutations(Runs) \cup Permutations(Workers)
================================================================================
