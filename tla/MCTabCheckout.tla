----------------------------- MODULE MCTabCheckout -----------------------------
(* Small instances of TabCheckout.                                          *)
EXTENDS TabCheckout, TLC

CONSTANTS t1, t2, u1, u2, o1, o2, m1, m2, c1

SameNumber == [t \in Tabs |-> 7]
OnFirst    == [x \in Orders \cup Payments |-> t1]
Symmetric  == Permutations(Users) \cup Permutations(Manuals)
Versions   == [t \in Tabs |-> IF t = t1 THEN 4 ELSE 0]
================================================================================
