------------------------------- MODULE MCPolling -------------------------------
(* Small instances of BackgroundJobs and Kitchen, which both poll: workers of *)
(* a queue, and a screen.  They share nothing, so a behavior is one of them;  *)
(* the screen is used with the mouse, while its connection is cut and         *)
(* requests fail, or with the keyboard.  A screen that is not mounted does    *)
(* nothing, so that nothing of it can be fair or unfair.                      *)
EXTENDS BackgroundJobs, Kitchen, TLC

CONSTANTS j1, w1, w2, s1, key

VARIABLE scene
all == <<scene, vars, kitchenVars>>

OneKey    == j1 :> key
OneRank   == j1 :> 2
OneTwo    == j1 :> 2
OneLease  == j1 :> 1

\* One order on the board or about to be created, or two on the board.
SomeStarts ==
  {[o \in Orders |-> IF o = 1 THEN "READY" ELSE "DELIVERED"],
   [o \in Orders |-> IF o = 1 THEN "NONE" ELSE "DELIVERED"],
   [o \in Orders |-> IF o = 1 THEN "READY" ELSE "SHIPPED"]}

AllInit ==
  /\ scene \in {"jobs", "mouse", "keys"}
  /\ Init /\ KitchenInit
  /\ scene = "jobs"  => kept[1].status = "READY" /\ kept[2].status = "DELIVERED"
  /\ scene = "mouse" => kept[2].status = "DELIVERED"
  /\ scene = "keys"  => kept[2].status = "SHIPPED"

Mouse == selected' = Nobody
Keys  == others' <= 1 /\ faults' = 0 /\ link' = "off" /\ (command'.at # "idle" => command'.keys)

AllNext ==
  /\ UNCHANGED scene
  /\ \/ scene = "jobs" /\ Next /\ UNCHANGED kitchenVars
     \/ scene = "mouse" /\ KitchenNext /\ Mouse /\ UNCHANGED vars
     \/ scene = "keys" /\ KitchenNext /\ Keys /\ UNCHANGED vars

AllSpec == AllInit /\ [][AllNext]_all /\ KitchenFairness
================================================================================
