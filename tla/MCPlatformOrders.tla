---------------------------- MODULE MCPlatformOrders ----------------------------
(* Small instances of PlatformOrders.                                       *)
EXTENDS PlatformOrders, TLC

CONSTANTS e1, e2, e3, e4, o1, p1, p2, u1, u2

KindOf    == e1 :> "order" @@ e2 :> "dispute" @@ e3 :> "result" @@ e4 :> "dispute"
OfOne     == [e \in Events |-> o1]
SaysOf    == [e \in Events |-> IF e = e4 THEN "ACCEPTED" ELSE "PENDING"]
\* Two polls at once, and no operator; or one poll, and two operators;
\* or a result and two statuses of the dispute, and one command.
Polls     == [pollers : {{p1, p2}}, events : {{e1, e4}}, commands : {0}, faults : {2}, begun : {None}]
Commands  == [pollers : {{p1}}, events : {{e1, e4}}, commands : {2}, faults : {1}, begun : {"PENDING", "READY"}]
Disputes  == [pollers : {{p1}}, events : {{e1, e2, e3, e4}}, commands : {1}, faults : {0}, begun : {"READY"}]
All       == Polls \cup Commands \cup Disputes
==================================================================================
