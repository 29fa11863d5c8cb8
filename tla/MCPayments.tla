------------------------------- MODULE MCPayments -------------------------------
(* Small instances of PointCharges, PaymentStates and CsvSales: what is paid  *)
(* at a terminal, what the provider tells of a payment, and what files tell   *)
(* of past sales.  They share nothing, so a behavior is one of them.          *)
EXTENDS PointCharges, PaymentStates, CsvSales, TLC

CONSTANTS c1, p1, p2, e1, t, h1, h2, g1, g2, g3, n1, u1, u2, i1, i2, t1, t2

VARIABLE scene
vars == <<scene, chargeVars, stateVars, csvVars>>

OneTarget == [r \in Rows |-> t]
Price     == [x \in {t} |-> 1]
Whole     == [c \in Charges |-> 1]

\* Two executions beside a run of the last week; one beside a run of the week and one of the day;
\* and a run of the week beside two of the day.
HoursOf   == [c \in Crons |-> IF c = g3 THEN 168 ELSE 24]
ThreeTeams  == {{}, {h1, h2, g3}, {h1, g1, g3}, {g1, g2, g3}}

Symmetric == Permutations(Callers) \cup Permutations(Uploads)

Line(what, id, text) == [what |-> what, id |-> id, text |-> text]
ThreeFiles ==
  {<<Line("sale", i1, t1), Line("sale", i2, t1)>>,
   <<Line("other", i1, t1), Line("sale", i1, t1)>>,
   <<Line("sale", i1, t1), Line("bad", i2, t2)>>}

AllInit ==
  /\ scene \in {"charge", "payment", "file"}
  /\ Init /\ StatesInit /\ CsvInit
  /\ scene = "payment" <=> \E p \in Handlers \cup Crons : reader[p].at # "ended"

AllNext ==
  /\ UNCHANGED scene
  /\ \/ scene = "charge" /\ Next /\ UNCHANGED <<stateVars, csvVars>>
     \/ scene = "payment" /\ StatesNext /\ UNCHANGED <<chargeVars, csvVars>>
     \/ scene = "file" /\ CsvNext /\ UNCHANGED <<chargeVars, stateVars>>

AllSpec == AllInit /\ [][AllNext]_vars

(* The variables of the three modules hold values of their types.             *)
AllTypeOK == TypeOK /\ StatesTypeOK /\ CsvTypeOK
================================================================================
