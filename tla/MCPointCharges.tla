---------------------------- MODULE MCPointCharges ----------------------------
(* Small instances of PointCharges, and what a document of the repository   *)
(* claims that the code does not do.                                        *)
EXTENDS PointCharges, TLC

CONSTANTS c1, c2, m1, m2, p1, p2, e1, t

OneTarget == [r \in Rows |-> t]
Price     == [x \in {t} |-> 1]
Whole     == [c \in Charges |-> 1]

(* specs/016-pos-kds-commands/spec.md:183 (US9): with two approved charges  *)
(* for one balance the system blocks the second settlement.                 *)
NoDoubleSettlement == \A x \in Targets : Paid(x, {"valid"}) <= Total[x]
=============================================================================
