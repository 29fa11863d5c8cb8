--------------------------------- MODULE MCStaff ---------------------------------
(* Small instances of OrderStock, StoreAccess, StoreSetup and McpTools: what the *)
(* people of a store, of the platform, and the assistants of the store do with   *)
(* one order, with accounts, settings and bills.  They share nothing, so a       *)
(* behavior is one of them; the settings of the assistants change while they     *)
(* enter the bill once each, not as a series.                                    *)
EXTENDS OrderStock, StoreAccess, StoreSetup, McpTools, TLC

CONSTANTS u1, u2, o1, m1, m2, k1, k2, t1, d1, d2, l1, l2, l3, i1, i2, x1, x2, s1, s2, a1, a2, q1, q2

VARIABLE scene
vars == <<scene, stockVars, accessVars, setupVars, toolVars>>

Symmetric == Permutations(Users)

StaffInit ==
  /\ scene \in {"order", "access", "setup", "tools"}
  /\ Init /\ AccessInit /\ SetupInit /\ ToolsInit
  /\ scene # "order" => by = [o \in Orders |-> "board"]
  /\ scene # "setup" => subject = "look"
  /\ scene # "tools" => others = 0
  /\ scene # "tools" \/ editor.left > 0 => \A r \in ToolCalls : ~callOf[r].sure /\ ~callOf[r].series
  /\ scene # "tools" => editor.left = 0

StaffNext ==
  /\ UNCHANGED scene
  /\ \/ scene = "order" /\ Next /\ UNCHANGED <<accessVars, setupVars, toolVars>>
     \/ scene = "access" /\ AccessNext /\ UNCHANGED <<stockVars, setupVars, toolVars>>
     \/ scene = "setup" /\ SetupNext /\ UNCHANGED <<stockVars, accessVars, toolVars>>
     \/ scene = "tools" /\ ToolsNext /\ UNCHANGED <<stockVars, accessVars, setupVars>>

StaffSpec == StaffInit /\ [][StaffNext]_vars

(* The variables of the four modules hold values of their types.                *)
StaffTypeOK == TypeOK /\ AccessTypeOK /\ SetupTypeOK /\ ToolsTypeOK
================================================================================
