------------------------------- MODULE MCCounter -------------------------------
(* Small instances of PointCharges and Idempotency: the charges of one        *)
(* balance, charges of several balances that the reconciliation lists, and    *)
(* the key under which the counter sends a command.  A behavior is one of     *)
(* them; of the others nothing begins, so nothing of them can be fair or      *)
(* unfair.                                                                    *)
EXTENDS PointCharges, Idempotency, TLC

CONSTANTS c1, c2, c3, c4, m1, p1, t, t3, t4, a1, a2, a3, a4, x, y

VARIABLE scene
vars == <<scene, chargeVars, keyVars>>

TargetOf  == [r \in Rows |-> IF r = c3 THEN t3 ELSE IF r = c4 THEN t4 ELSE t]
Price     == [b \in {t, t3, t4} |-> 1]
Whole     == [c \in Charges |-> 1]
Bodies    == [c \in Commands |-> IF c = a4 THEN y ELSE x]

\* The charges that the reconciliation lists differ in nothing: they are created one after the other,
\* in one order, and none is paid.
AtWork == {c \in Charges : pc[c] \notin {"new", "refused", "done"}}
Fresh  == {c \in Charges : pc[c] = "new"}

AllInit == scene \in {"charge", "page", "key"} /\ Init /\ KeyInit

AllNext ==
  /\ UNCHANGED scene
  /\ \/ scene = "charge" /\ Next /\ pc'[c3] = pc[c3] /\ pc'[c4] = pc[c4] /\ UNCHANGED keyVars
     \/ scene = "page" /\ Next /\ pc'[c2] = pc[c2] /\ status'[m1] = status[m1] /\ UNCHANGED keyVars
        /\ \A c \in Charges : order'[c] # "accredited"
        /\ Cardinality(AtWork') <= 1 /\ (c1 \in Fresh' => c3 \in Fresh') /\ (c3 \in Fresh' => c4 \in Fresh')
     \/ scene = "key" /\ KeyNext /\ UNCHANGED chargeVars

AllSpec == AllInit /\ [][AllNext]_vars /\ Fairness
================================================================================
