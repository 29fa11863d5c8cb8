-------------------------------- MODULE Payables --------------------------------
(***************************************************************************)
(* Accounts payable (management/financial/accounts-payable): single and    *)
(* recurring obligations, their payments, reversals, changes and           *)
(* cancellation.  Each command reads the payable with its payments, checks *)
(* it, and writes, in a transaction of the default isolation (read         *)
(* committed) that takes no lock on what it read.                          *)
(***************************************************************************)
EXTENDS Integers, Sequences, FiniteSets, Functions

CONSTANTS
  Clients, Amounts, Accounts, None,
  LengthOf,          \* [months -> days]: the calendar, as far as it is looked at
  Year,              \* months in a year
  MostOccurrences,   \* of a recurrence that does not say how many
  Worlds             \* set of records of what a behaviour may meet: [payables, payments, commands, ...]
                     \* are bounds, clients those that act, series the recurrences asked for, begun the
                     \* payables that are there, paidOn the days of payments

Months == DOMAIN LengthOf

(* A recurrence comes with an interval of one or more, and the calendar    *)
(* holds every month that its occurrences, or this many of them, fall in.  *)
Most(r) == IF r.count = None THEN MostOccurrences ELSE r.count
SeriesOK(r) ==
  /\ r.frequency \in {"WEEKLY", "MONTHLY", "YEARLY"} /\ r.interval \in Nat \ {0}
  /\ r.startsOn \in [month : Nat, day : Nat] /\ r.endsOn \in Nat \cup {None} /\ r.count \in Nat \cup {None}
  /\ r.startsOn.month + (IF r.frequency = "YEARLY" THEN Year ELSE 1) * (r.interval * (Most(r) - 1)) <= Cardinality(Months)

ASSUME PayablesAssumption ==
  /\ Cardinality(Months) \in Nat /\ Months = 0..(Cardinality(Months) - 1) /\ \A m \in Months : LengthOf[m] \in Nat \ {0}
  /\ Year \in Nat \ {0} /\ MostOccurrences \in Nat
  /\ Amounts \subseteq Nat \ {0} /\ IsFiniteSet(Accounts) /\ None \notin Accounts

ASSUME WorldsAssumption ==
  \A w \in Worlds :
    /\ \A r \in w.series \ {None} : SeriesOK(r)
    /\ w.begun \in Seq([expected : Amounts, due : Nat, cancelled : BOOLEAN, series : w.series \cup {None}])
    /\ w.paidOn \subseteq Nat /\ w.clients \subseteq Clients /\ w.lastDay \in Nat \ {0}

VARIABLES
  world,      \* what a behaviour may meet
  payables,   \* sequence of [expected, due, cancelled, of, series]
  payments,   \* sequence of [of, account, amount, at, reversed]
  request,    \* [Clients -> the command between its check and its write]
  commands,   \* how many there were
  outdated    \* history: payables paid, changed or cancelled on a view that no longer held

payableVars == <<world, payables, payments, request, commands, outdated>>

Idle == [op |-> None, of |-> 0, amount |-> 0, due |-> 0, account |-> None, at |-> 0, payment |-> 0, stale |-> FALSE]

----------------------------------------------------------------------------
(* payable-rules and payable-recurrence.                                   *)

Active(p, paid) == {k \in DOMAIN paid : paid[k].of = p /\ ~paid[k].reversed}
Paid(p, paid)   == SumFunction([k \in Active(p, paid) |-> paid[k].amount])
Larger(x, y)    == IF x > y THEN x ELSE y
Remaining(expected, paid) == Larger(expected - paid, 0)

(* The first day of a month, months of the calendar being counted on, and  *)
(* a day that a month does not have falls into the next one (setMonth).    *)
FirstOf(month) == SumFunction([m \in 0..(month - 1) |-> LengthOf[m]])
DayOf(date)    == FirstOf(date.month) + date.day
AddInterval(date, frequency, n) ==
  CASE frequency = "WEEKLY"  -> DayOf(date) + 7 * n
    [] frequency = "MONTHLY" -> DayOf([date EXCEPT !.month = @ + n])
    [] frequency = "YEARLY"  -> DayOf([date EXCEPT !.month = @ + Year * n])

(* A recurrence is [frequency, interval, startsOn, endsOn, count].         *)
Due(r, k)    == AddInterval(r.startsOn, r.frequency, r.interval * (k - 1))
Within(r, k) == r.endsOn = None \/ Due(r, k) <= r.endsOn
Occurrences(r) ==
  LET taken == {k \in 1..Most(r) : \A j \in 1..k : Within(r, j)}
  IN  [k \in 1..Cardinality(taken) |-> Due(r, k)]

(* calculatePayableStatus, and the CASE of the statements in SQL.          *)
Status(expected, paid, cancelled, due, today) ==
  CASE cancelled        -> "CANCELLED"
    [] ~cancelled /\ paid >= expected -> "PAID"
    [] ~cancelled /\ paid < expected /\ paid > 0 -> "PARTIALLY_PAID"
    [] ~cancelled /\ paid < expected /\ paid = 0 -> IF due < today THEN "OVERDUE" ELSE "OPEN"
SqlStatus(expected, paid, cancelled, due, today) ==
  CASE cancelled -> "CANCELLED"
    [] ~cancelled /\ paid >= expected -> "PAID"
    [] ~cancelled /\ paid < expected -> IF due < today THEN "OVERDUE"
                                        ELSE IF paid > 0 THEN "PARTIALLY_PAID" ELSE "OPEN"

----------------------------------------------------------------------------
NewPayable(expected, due, series) ==
  [expected |-> expected, due |-> due, cancelled |-> FALSE, series |-> series]

PayablesInit ==
  /\ world \in Worlds
  /\ payables = world.begun /\ payments = <<>> /\ outdated = {}
  /\ request = [u \in Clients |-> Idle] /\ commands = 0

Command == commands < world.commands /\ commands' = commands + 1

(* create: one transaction for a payable or a whole series; a series whose *)
(* end is before its start is a single payable at the due date asked for.  *)
Create(amount, due, r) ==
  LET days == IF r = None \/ Occurrences(r) = <<>> THEN <<due>> ELSE Occurrences(r) IN
  /\ Len(payables) + Len(days) <= world.payables /\ Command
  /\ payables' = payables \o [k \in DOMAIN days |-> NewPayable(amount, days[k], IF Len(days) > 1 THEN r ELSE None)]
  /\ UNCHANGED <<world, payments, request, outdated>>

Begin(u, command) ==
  /\ u \in world.clients /\ request[u] = Idle /\ Command
  /\ request' = [request EXCEPT ![u] = command]
  /\ UNCHANGED <<world, payables, payments, outdated>>

(* The reads and checks of addPayment, update, cancel and reversePayment.  *)
CanPayMut(p, amount) == ~payables[p].cancelled /\ amount <= payables[p].expected
CanPay(p, amount) ==
  ~payables[p].cancelled /\ amount <= Remaining(payables[p].expected, Paid(p, payments))
CanCancelMut(p) == ~payables[p].cancelled
CanCancel(p)    == ~payables[p].cancelled /\ Paid(p, payments) = 0

BeginPay(u, p, amount, account, at) ==
  /\ CanPay(p, amount)
  /\ Begin(u, [Idle EXCEPT !.op = "pay", !.of = p, !.amount = amount, !.account = account, !.at = at])
BeginUpdate(u, p, amount, due) ==
  /\ ~payables[p].cancelled /\ amount >= Paid(p, payments)
  /\ Begin(u, [Idle EXCEPT !.op = "update", !.of = p, !.amount = amount, !.due = due])
BeginCancel(u, p) ==
  CanCancel(p) /\ Begin(u, [Idle EXCEPT !.op = "cancel", !.of = p])
BeginReverse(u, k) ==
  ~payments[k].reversed /\ Begin(u, [Idle EXCEPT !.op = "reverse", !.of = payments[k].of, !.payment = k])

(* The write, which commits with the record of the audit.                  *)
Becomes(command) ==
  LET p == command.of IN
  CASE command.op = "pay" ->
         /\ payments' = Append(payments, [of |-> p, account |-> command.account, amount |-> command.amount,
                                          at |-> command.at, reversed |-> FALSE])
         /\ UNCHANGED payables
    [] command.op = "update" ->
         /\ payables' = [payables EXCEPT ![p].expected = command.amount, ![p].due = command.due]
         /\ UNCHANGED payments
    [] command.op = "cancel" ->
         payables' = [payables EXCEPT ![p].cancelled = TRUE] /\ UNCHANGED payments
    [] command.op = "reverse" ->
         payments' = [payments EXCEPT ![command.payment].reversed = TRUE] /\ UNCHANGED payables

Write(u) ==
  LET command == request[u]
      Same(c) == request[c] # Idle /\ request[c].of = command.of /\ command.op # "reverse" IN
  /\ command # Idle
  /\ command.op = "pay" => Len(payments) < world.payments
  /\ Becomes(command)
  /\ request' = [c \in Clients |-> IF c = u THEN Idle
                                   ELSE IF Same(c) THEN [request[c] EXCEPT !.stale = TRUE] ELSE request[c]]
  /\ outdated' = IF command.stale /\ command.op # "reverse" THEN outdated \cup {command.of} ELSE outdated
  /\ UNCHANGED <<world, commands>>

(* The transaction fails, or its process dies: nothing is written.         *)
Rollback(u) ==
  /\ request[u] # Idle /\ request' = [request EXCEPT ![u] = Idle]
  /\ UNCHANGED <<world, payables, payments, commands, outdated>>

Days == UNION {{p.due : p \in {world.begun[k] : k \in DOMAIN world.begun}}, world.paidOn}

PayablesNext ==
  \/ \E amount \in Amounts, due \in Days, r \in world.series : Create(amount, due, r)
  \/ \E u \in Clients :
       \/ \E p \in DOMAIN payables :
            \/ \E amount \in Amounts, account \in Accounts, at \in world.paidOn : BeginPay(u, p, amount, account, at)
            \/ \E amount \in Amounts, due \in Days : BeginUpdate(u, p, amount, due)
            \/ BeginCancel(u, p)
       \/ \E k \in DOMAIN payments : BeginReverse(u, k)
       \/ Write(u) \/ Rollback(u)

----------------------------------------------------------------------------
(* Unless a payment, a change or a cancellation was written on a view that *)
(* no longer held, nothing is paid beyond what is expected, and nothing    *)
(* stays paid of what was cancelled.                                       *)
Settled ==
  \A p \in DOMAIN payables \ outdated :
    /\ Paid(p, payments) <= payables[p].expected
    /\ payables[p].cancelled => Paid(p, payments) = 0

(* The occurrences of a series begin on its first day, follow one another  *)
(* and keep to its end, also where a month is too short for their day.     *)
SeriesInOrder ==
  \A r \in world.series \ {None} :
    LET days == Occurrences(r) IN
    /\ \A k \in 1..(Len(days) - 1) : days[k] < days[k + 1]
    /\ \A k \in DOMAIN days : days[k] >= DayOf(r.startsOn) /\ (r.endsOn # None => days[k] <= r.endsOn)
    /\ days # <<>> => days[1] = DayOf(r.startsOn)

(* What a payable is paid with, and the days a series falls on.            *)
PayablesCorrect == Settled /\ SeriesInOrder
================================================================================
