-------------------------------- MODULE CashFlow --------------------------------
(***************************************************************************)
(* Cash flow (management/financial/cash-flow) over the accounts payable:   *)
(* cash movements, receipts of delivered orders, and the reports that are  *)
(* computed from them, each from queries of their own: the position with   *)
(* its projection, and the statement of an interval of days.               *)
(***************************************************************************)
EXTENDS Payables

CONSTANTS
  Opening,       \* [Accounts -> opening balance], on day 0
  Orders,        \* orders that are delivered
  Release, Net, AccountOf, \* of an order: instant of its receipt, amount, account or None
  Expected,      \* orders whose receipt is expected then; that of the others is the order's creation
  Horizon        \* days of a projection that does not say its end (30)

ASSUME CashFlowAssumption ==
  /\ Opening \in [Accounts -> Nat] /\ AccountOf \in [Orders -> Accounts \cup {None}]
  /\ Release \in [Orders -> Nat] /\ Net \in [Orders -> Nat]
  /\ Expected \subseteq Orders /\ Horizon \in Nat
  /\ \A w \in Worlds : w.orders \subseteq Orders /\ w.asked \subseteq [asOf : Nat \cup {None}, end : Nat \cup {None}]

VARIABLES
  movements,  \* sequence of [type, from, to, amount, at, reversed]
  delivered,  \* orders that are DELIVERED and not deleted
  today,      \* the day
  report,     \* the report under way: [asOf, end, read, view, torn], view holding what was read
  reports

cashVars == <<movements, delivered, today, report, reports>>
vars == <<payableVars, cashVars>>

----------------------------------------------------------------------------
(* Instants, three in a day: its midnight (UTC), the hours until it begins *)
(* in Sao Paulo, and the rest.  A date is stored as its midnight; a        *)
(* receipt may have a time of day.  A date shown is the day of an instant  *)
(* that is a midnight (UTC), and the local day of any other: in the hours  *)
(* after midnight it is the day before.                                    *)
Midnight(day) == 3 * day
EndOf(day)    == 3 * day + 2
ToDateOnly(at) == IF at % 3 = 1 THEN at \div 3 - 1 ELSE at \div 3

----------------------------------------------------------------------------
(* The entries of getPosition, from what its queries returned.  No account *)
(* selected means all of them.                                             *)
Chosen(account, selected) == selected = {} \/ account \in selected
Entry(source, id, account, at, inflow, outflow) ==
  [source |-> source, id |-> id, account |-> account, at |-> at, inflow |-> inflow, outflow |-> outflow]

OpeningEntries(selected) ==
  {Entry("OPENING_BALANCE", 0, a, Midnight(0), Opening[a], 0) : a \in {b \in Accounts : Chosen(b, selected)}}
Receipts(view, selected) ==
  {Entry("ORDER_RECEIPT", o, AccountOf[o], Release[o], Net[o], 0) : o \in {r \in view.orders : Chosen(AccountOf[r], selected)}}
PaymentEntries(view, selected) ==
  LET paid == view.payments IN
  {Entry("PAYABLE_PAYMENT", k, paid[k].account, Midnight(paid[k].at), 0, paid[k].amount) :
     k \in {j \in DOMAIN paid : ~paid[j].reversed /\ Chosen(paid[j].account, selected)}}

(* A transfer is read if either account is selected, and only the sides    *)
(* that are selected are kept.                                             *)
Concerns(move, selected)    == Chosen(move.from, selected) \/ (move.type = "TRANSFER" /\ Chosen(move.to, selected))
Sides(k, move) ==
  CASE move.type = "TRANSFER" -> {Entry("CASH_MOVEMENT:out", k, move.from, Midnight(move.at), 0, move.amount),
                                  Entry("CASH_MOVEMENT:in", k, move.to, Midnight(move.at), move.amount, 0)}
    [] move.type = "MANUAL_OUTFLOW" -> {Entry("CASH_MOVEMENT", k, move.from, Midnight(move.at), 0, move.amount)}
    [] OTHER -> {Entry("CASH_MOVEMENT", k, move.from, Midnight(move.at), move.amount, 0)}
MovementEntries(view, selected) ==
  LET moves == view.movements IN
  {e \in UNION {Sides(k, moves[k]) : k \in {j \in DOMAIN moves : ~moves[j].reversed /\ Concerns(moves[j], selected)}} :
     Chosen(e.account, selected)}

Ledger(view, asOf, selected) ==
  {e \in OpeningEntries(selected) \cup Receipts(view, selected) \cup PaymentEntries(view, selected)
         \cup MovementEntries(view, selected) : e.at <= asOf}

(* What is still expected: of the orders read, the receipts after the      *)
(* moment of the report, and what remains of every payable that is due by  *)
(* its end.  An order without an expected date is read whatever the end.   *)
Fetched(end) == {o \in delivered : o \in Expected => Release[o] <= end}
ProjectedReceipts(view, asOf) == {e \in Receipts(view, {}) : e.at > asOf}
OpenAt(view, end) == {p \in DOMAIN view.payables : ~view.payables[p].cancelled /\ Midnight(view.payables[p].due) <= end}
OutstandingMut(view, p) == view.payables[p].expected
Outstanding(view, p) == Remaining(view.payables[p].expected, Paid(p, view.paidThen))

Inflows(entries)  == SumFunction([e \in entries |-> e.inflow])
Balance(entries)  == SumFunction([e \in entries |-> e.inflow - e.outflow])
Receivable(view, asOf) == Inflows(ProjectedReceipts(view, asOf))
ToPay(view, end)       == SumFunction([p \in OpenAt(view, end) |-> Outstanding(view, p)])
ProjectedBalance(view, asOf, end) ==
  Balance(Ledger(view, asOf, {})) + Receivable(view, asOf) - ToPay(view, end)

(* getStatement: the running balance of the last entry shown before the    *)
(* first day, in the order of the instants, and the entries of the days.   *)
Last(entries) == CHOOSE n \in {e.at : e \in entries} : \A e \in entries : e.at <= n
OpeningBalance(view, first, last, selected) ==
  LET ledger == Ledger(view, EndOf(last), selected)
      prior  == {e \in ledger : ToDateOnly(e.at) < first}
  IN  IF prior = {} THEN 0 ELSE Balance({e \in ledger : e.at <= Last(prior)})
OfPeriod(view, first, last, selected) ==
  {e \in Ledger(view, EndOf(last), selected) : ToDateOnly(e.at) \in first..last}
ClosingBalance(view, first, last, selected) ==
  OpeningBalance(view, first, last, selected) + Balance(OfPeriod(view, first, last, selected))

----------------------------------------------------------------------------
Queries == {"orders", "payables", "payments", "movements"}
NoView  == [orders |-> {}, payables |-> <<>>, paidThen |-> <<>>, payments |-> <<>>, movements |-> <<>>]
(* What the queries of a statement return: it ends where its ledger does,   *)
(* so that no order of the ledger is left unread.                          *)
Stored  == [orders |-> delivered, payables |-> payables, paidThen |-> payments, payments |-> payments, movements |-> movements]
NoReport == [asOf |-> 0, end |-> 0, read |-> {}, view |-> NoView, torn |-> FALSE, open |-> FALSE]
Whole(r) == r.read = Queries

Init ==
  /\ PayablesInit
  /\ movements = <<>> /\ delivered = {} /\ today = 1 /\ report = NoReport /\ reports = 0

(* What is written while the queries of a report are under way tears it.   *)
Written ==
  report' = IF report.read \notin {{}, Queries} THEN [report EXCEPT !.torn = TRUE] ELSE report

PayableStep == PayablesNext /\ Written /\ UNCHANGED <<movements, delivered, today, reports>>

(* CashMovementService.create and reverse.                                 *)
Move(type, from, to, amount, at) ==
  /\ Len(movements) < world.movements
  /\ type = "TRANSFER" => to # from
  /\ movements' = Append(movements, [type |-> type, from |-> from, to |-> IF type = "TRANSFER" THEN to ELSE None,
                                     amount |-> amount, at |-> at, reversed |-> FALSE])
  /\ Written /\ UNCHANGED <<payableVars, delivered, today, reports>>

ReverseMove(k) ==
  /\ ~movements[k].reversed /\ movements' = [movements EXCEPT ![k].reversed = TRUE]
  /\ Written /\ UNCHANGED <<payableVars, delivered, today, reports>>

(* External: an order is delivered, or deleted.                            *)
Deliver(o) ==
  /\ o \in world.orders \ delivered /\ delivered' = delivered \cup {o}
  /\ Written /\ UNCHANGED <<payableVars, movements, today, reports>>
DeleteOrder(o) ==
  /\ o \in delivered /\ delivered' = delivered \ {o}
  /\ Written /\ UNCHANGED <<payableVars, movements, today, reports>>

Tomorrow ==
  /\ today < world.lastDay /\ today' = today + 1
  /\ UNCHANGED <<payableVars, movements, delivered, report, reports>>

(* The moment of a report is the end of the day asked for, or now; its end *)
(* is that of the day asked for, which may be an earlier one.              *)
StartReport(asOf, end) ==
  /\ reports < world.reports /\ reports' = reports + 1
  /\ \E now \in Midnight(today)..EndOf(today) :
       LET moment == IF asOf = None THEN now ELSE EndOf(asOf) IN
       report' = [NoReport EXCEPT !.asOf = moment, !.open = TRUE,
                                  !.end = EndOf(IF end = None THEN moment \div 3 + Horizon ELSE end)]
  /\ UNCHANGED <<payableVars, movements, delivered, today>>

(* The queries of a report (Promise.all), each at a moment of its own; the *)
(* payables come with their payments of that moment.                       *)
Take(view, query) ==
  CASE query = "orders"    -> [view EXCEPT !.orders = Fetched(report.end)]
    [] query = "payables"  -> [view EXCEPT !.payables = payables, !.paidThen = payments]
    [] query = "payments"  -> [view EXCEPT !.payments = payments]
    [] query = "movements" -> [view EXCEPT !.movements = movements]
Read(query) ==
  /\ report.open /\ query \notin report.read
  /\ report' = [report EXCEPT !.read = @ \cup {query}, !.view = Take(@, query)]
  /\ UNCHANGED <<payableVars, movements, delivered, today, reports>>

Next ==
  \/ PayableStep
  \/ \E type \in {"MANUAL_INFLOW", "MANUAL_OUTFLOW", "TRANSFER", "ADJUSTMENT"}, from, to \in Accounts,
        amount \in Amounts, at \in world.paidOn : Move(type, from, to, amount, at)
  \/ \E k \in DOMAIN movements : ReverseMove(k)
  \/ \E o \in Orders : Deliver(o) \/ DeleteOrder(o)
  \/ Tomorrow
  \/ \E asked \in world.asked : StartReport(asked.asOf, asked.end)
  \/ \E query \in Queries : Read(query)

Spec == Init /\ [][Next]_vars

----------------------------------------------------------------------------
TypeOK ==
  /\ \A p \in DOMAIN payables :
       payables[p].expected \in Amounts /\ payables[p].due \in Nat /\ payables[p].cancelled \in BOOLEAN
  /\ \A k \in DOMAIN payments : payments[k].of \in DOMAIN payables /\ payments[k].amount \in Amounts
  /\ \A u \in Clients : request[u] # Idle => request[u].of \in DOMAIN payables
  /\ \A k \in DOMAIN movements : movements[k].from \in Accounts /\ movements[k].to \in (Accounts \ {movements[k].from}) \cup {None}
  /\ delivered \subseteq world.orders /\ today \in 1..world.lastDay /\ outdated \subseteq DOMAIN payables
  /\ report.read \subseteq Queries

(* The two computations of a status, by the program and by the database,   *)
(* agree on what is open, paid and cancelled: the counts of the summary    *)
(* are those of the list.                                                  *)
StatusOf(p, F(_, _, _, _, _)) == F(payables[p].expected, Paid(p, payments), payables[p].cancelled, payables[p].due, today)
Ended == {"PAID", "CANCELLED"}
CountsAgree ==
  \A p \in DOMAIN payables :
    LET shown == StatusOf(p, Status)
        found == StatusOf(p, SqlStatus)
    IN  shown \in Ended \/ found \in Ended => shown = found

(* A report counts every source once, whichever query it came with: what   *)
(* it projects is what there is, less what each payable costs, paid and    *)
(* unpaid, whatever moment and end were asked for; unless something was    *)
(* written between its queries, or a payment is dated after the report,    *)
(* which then shows in no figure.                                          *)
Cost(view, p, end) ==
  LET paid == Paid(p, view.payments) IN
  IF p \in OpenAt(view, end) THEN Larger(view.payables[p].expected, paid) ELSE paid
Signed(move) == IF move.type = "TRANSFER" THEN 0 ELSE IF move.type = "MANUAL_OUTFLOW" THEN 0 - move.amount ELSE move.amount
Kept(moves, asOf) == {k \in DOMAIN moves : ~moves[k].reversed /\ Midnight(moves[k].at) <= asOf}
WorthThen(view, asOf, end) ==
  SumFunction(Opening)
  + SumFunction([o \in view.orders |-> Net[o]])
  + SumFunction([k \in Kept(view.movements, asOf) |-> Signed(view.movements[k])])
  - SumFunction([p \in DOMAIN view.payables |-> Cost(view, p, end)])
Postdated(view, asOf) == \E k \in DOMAIN view.payments : ~view.payments[k].reversed /\ Midnight(view.payments[k].at) > asOf
CountedOnce ==
  LET r == report IN
  Whole(r) /\ ~r.torn /\ ~Postdated(r.view, r.asOf)
    => ProjectedBalance(r.view, r.asOf, r.end) = WorthThen(r.view, r.asOf, r.end)

(* The balances of the accounts, each asked for alone, and what belongs to *)
(* none add up to the balance of all.                                      *)
AccountsAddUp ==
  LET ledger == Ledger(Stored, EndOf(today), {}) IN
  Balance(ledger) = SumFunction([a \in Accounts |-> Balance(Ledger(Stored, EndOf(today), {a}))])
                    + Balance({e \in ledger : e.account = None})

(* A statement opens with the balance of the evening before, and closes    *)
(* with that of its last evening, of all accounts or of one: so that       *)
(* statements of consecutive days join.  The exception is a receipt in the *)
(* hours after midnight of the first day, which is shown on the day        *)
(* before: the statement then opens with all up to these hours, and counts *)
(* what is dated its first day twice.                                      *)
StatementsAgree ==
  \A first, last \in 1..world.lastDay, selected \in {{}} \cup {{a} : a \in Accounts} :
    LET early == {e \in Ledger(Stored, EndOf(first), selected) : e.at = Midnight(first) + 1}
        dated == {e \in Ledger(Stored, EndOf(first), selected) : e.at = Midnight(first)}
        twice == IF early = {} THEN 0 ELSE Balance(dated)
    IN  first <= last =>
          /\ OpeningBalance(Stored, first, last, selected)
               = Balance(Ledger(Stored, EndOf(first - 1), selected)) + Balance(early) + twice
          /\ ClosingBalance(Stored, first, last, selected) = Balance(Ledger(Stored, EndOf(last), selected)) + twice

(* Whichever way a figure of the reports is asked for, it is the same.  The *)
(* figures of what is stored say nothing of a report under way, so they    *)
(* are compared while there is none.                                       *)
ReportsAgree ==
  /\ TypeOK /\ CountedOnce
  /\ ~report.open => CountsAgree /\ AccountsAddUp /\ StatementsAgree
================================================================================
