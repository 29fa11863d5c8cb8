------------------------------- MODULE MCCashFlow -------------------------------
(* Small instances of CashFlow.                                             *)
EXTENDS CashFlow, TLC

CONSTANTS u1, u2, a1, a2

\* Months of 4, 3 and 4 days stand for those of 31, 28 and 31.
Calendar == [m \in 0..14 |-> IF m % 3 = 1 THEN 3 ELSE 4]
Series ==
  {[frequency |-> f, interval |-> i, startsOn |-> [month |-> m, day |-> d], endsOn |-> e, count |-> c] :
     f \in {"WEEKLY", "MONTHLY", "YEARLY"}, i \in {1, 2}, m \in {0, 1}, d \in {1, 4}, e \in {None, 3, 14}, c \in {None, 2}}
OneDue(expected) == <<NewPayable(expected, 2, None)>>

\* Commands that overlap on one payable; series; or sequential commands and reports.
Quiet   == [payables |-> 1, payments |-> 3, commands |-> 4, clients |-> {u1, u2}, series |-> {None}, begun |-> OneDue(2),
            paidOn |-> {1}, movements |-> 0, reports |-> 0, asked |-> {}, orders |-> {}, lastDay |-> 3]
Overlap == {Quiet}
Created == {[Quiet EXCEPT !.payables = 4, !.commands = 1, !.clients = {}, !.series = Series, !.begun = <<>>]}
Single  == [Quiet EXCEPT !.payments = 2, !.commands = 2, !.clients = {u1}, !.movements = 1, !.orders = {1, 2}]
\* Reports of now, of a day that ends that day, and of a day that ends the day before it.
Asked   == {[asOf |-> None, end |-> None], [asOf |-> 1, end |-> 1]}
Before  == {[asOf |-> 2, end |-> 1]}
Reports == {[Single EXCEPT !.reports = 1, !.asked = Asked, !.movements = 0, !.orders = {2}, !.paidOn = {1, 2}],
            [Single EXCEPT !.reports = 1, !.asked = Before, !.clients = {}]}
Moves   == {[Single EXCEPT !.movements = 2, !.commands = 1, !.orders = {1}, !.paidOn = {2}, !.lastDay = 2]}
All     == Overlap \cup Created \cup Reports \cup Moves

Balances == [a \in Accounts |-> IF a = a1 THEN 2 ELSE 1]
ReleaseOf == [o \in Orders |-> IF o = 1 THEN Midnight(2) + 1 ELSE EndOf(2)]
NetOf     == [o \in Orders |-> 2]
Credited  == [o \in Orders |-> IF o = 1 THEN a1 ELSE None]
Symmetric == Permutations(Clients)
================================================================================
