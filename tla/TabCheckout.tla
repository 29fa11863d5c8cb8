------------------------------ MODULE TabCheckout ------------------------------
(***************************************************************************)
(* Service tabs of apps/api/src/ordering: opening, editing, checkout,      *)
(* responsibility and cancellation (ServiceTabService,                     *)
(* OperationalAssignmentService), the counter orders that fill a tab       *)
(* (CounterOrderService), and the payments that close it                   *)
(* (ManualPaymentService, ManualPaymentReversalService).                   *)
(*                                                                         *)
(* A user is a process with a screen: what a request does depends on what  *)
(* the user saw (expectedVersion) and on what the request reads before it  *)
(* writes.  Automatic charges are here only by what PointCharges shows of  *)
(* them: they are active, then approved and settled, or ended.             *)
(***************************************************************************)
EXTENDS Integers, FiniteSets, FiniteSetsExt

CONSTANTS
  Users, Tabs, Orders, Manuals, Charges,
  Number,      \* [Tabs -> normalizedNumber]
  TabOf,       \* [Orders \cup Manuals \cup Charges -> tab they belong to]
  MaxTotal,    \* bound: the greatest total of an order
  MaxVersion,  \* bound: [Tabs -> greatest version of a tab that a run visits]
  Served,      \* bound: the tabs that a run follows beyond their opening
  None

Payments == Manuals \cup Charges
Open     == {"OPEN", "CHECKOUT_PENDING"}

(* canTransitionTabStatus                                                  *)
TabTransitions == [s \in Open \cup {"PAID", "CANCELLED"} |->
  CASE s = "OPEN"             -> {"CHECKOUT_PENDING", "CANCELLED"}
    [] s = "CHECKOUT_PENDING" -> {"OPEN", "PAID", "CANCELLED"}
    [] OTHER                  -> {}]

ASSUME ParametersAssumption ==
  /\ Number \in [Tabs -> Nat] /\ TabOf \in [Orders \cup Payments -> Tabs]
  /\ MaxTotal \in Nat \ {0} /\ MaxVersion \in [Tabs -> Nat] /\ Served \subseteq Tabs
  /\ Manuals \cap Charges = {} /\ Orders \cap Payments = {}
  /\ None \notin Users \cup Tabs \cup Orders \cup Payments
  /\ None \notin Open \cup {"PAID", "CANCELLED", "new", "out"} \cup {"active", "approved", "ended", "valid", "cancelled"}

VARIABLES
  tab,     \* [Tabs -> [status, version, assigned]], status None before it is opened
  order,   \* [Orders -> [status, total]]
  paid,    \* [Payments -> [status, amount]]: charge, payment and allocation
  screen,  \* [Users -> [on, row]]: the tab a user looks at, as it was then
  req      \* [Users -> [at, what, saw]]: the request a user waits for

vars == <<tab, order, paid, screen, req>>

NoTab   == [status |-> None, version |-> 0, assigned |-> None]
Idle    == [at |-> "idle", what |-> None, saw |-> None]

Init ==
  /\ tab = [t \in Tabs |-> NoTab]
  /\ order = [o \in Orders |-> [status |-> None, total |-> 0]]
  /\ paid = [m \in Payments |-> [status |-> None, amount |-> 0]]
  /\ screen = [u \in Users |-> [on |-> None, row |-> NoTab]]
  /\ req = [u \in Users |-> Idle]

(* deriveTabTotals and loadTarget: cancelled orders and cancelled payments *)
(* do not count.  assertTarget counts both.                                *)
Gross(t, except) ==
  MapThenSumSet(LAMBDA o : order[o].total,
                {o \in Orders : TabOf[o] = t /\ order[o].status \notin {None} \cup except})
Allocated(t, S) == MapThenSumSet(LAMBDA m : paid[m].amount,
                                 {m \in Payments : TabOf[m] = t /\ paid[m].status \in S})
Valid   == {"valid"}
Balance(t) == Gross(t, {"CANCELLED"}) - Allocated(t, Valid)
Uncharged(t) == Gross(t, {}) - Allocated(t, {"valid", "cancelled"})

(* Of these, what was paid by hand.                                        *)
ByHand(t) == MapThenSumSet(LAMBDA m : paid[m].amount, {m \in Manuals : TabOf[m] = t /\ paid[m].status \in Valid})

Made(t)   == {c \in Charges : TabOf[c] = t /\ paid[c].status # None}
Rivals(t) == {c \in Charges : TabOf[c] = t /\ paid[c].status = "active"}

(* service_tabs_one_active_number_per_tenant                               *)
NumberFree(t) == \A s \in Tabs \ {t} : Number[s] = Number[t] => tab[s].status \notin Open

Ask(u, at, what, saw) == req' = [req EXCEPT ![u] = [at |-> at, what |-> what, saw |-> saw]]
Answer(u)             == req' = [req EXCEPT ![u] = Idle]

WriteMut(t, status, assigned) ==
  tab' = [tab EXCEPT ![t] = [status |-> status, version |-> tab[t].version, assigned |-> assigned]]
Write(t, status, assigned) ==
  /\ tab[t].version < MaxVersion[t]
  /\ tab' = [tab EXCEPT ![t] = [status |-> status, version |-> tab[t].version + 1, assigned |-> assigned]]

(* An updateMany with expectedVersion finds its row.                       *)
CurrentMut(u, t) == screen[u].on = t
Current(u, t)    == screen[u].on = t /\ tab[t].version = screen[u].row.version

----------------------------------------------------------------------------
(* Tabs.                                                                   *)

(* detail, list: the user reloads the tab.                                 *)
ShowTab(u, t) ==
  /\ req[u] = Idle /\ tab[t].status # None /\ t \in Served
  /\ screen' = [screen EXCEPT ![u] = [on |-> t, row |-> tab[t]]]
  /\ UNCHANGED <<tab, order, paid, req>>

OpenTab(u, t) ==
  /\ req[u] = Idle /\ tab[t].status = None /\ NumberFree(t)
  /\ tab' = [tab EXCEPT ![t] = [status |-> "OPEN", version |-> 0, assigned |-> u]]
  /\ UNCHANGED <<order, paid, screen, req>>

Update(u, t) ==
  /\ req[u] = Idle /\ Current(u, t) /\ tab[t].status \in Open
  /\ Write(t, tab[t].status, tab[t].assigned)
  /\ UNCHANGED <<order, paid, screen, req>>

(* startCheckout reads who is responsible, then compares and sets.         *)
StartCheckout(u, t) ==
  /\ req[u] = Idle /\ screen[u].on = t /\ tab[t].assigned = u
  /\ Ask(u, "checkout", t, None)
  /\ UNCHANGED <<tab, order, paid, screen>>

FinishCheckout(u) ==
  LET t == req[u].what IN
  /\ req[u].at = "checkout" /\ Answer(u)
  /\ IF Current(u, t) /\ tab[t].status = "OPEN"
     THEN Write(t, "CHECKOUT_PENDING", tab[t].assigned)
     ELSE tab' = tab
  /\ UNCHANGED <<order, paid, screen>>

Reopen(u, t) ==
  /\ req[u] = Idle /\ Current(u, t) /\ tab[t].status = "CHECKOUT_PENDING"
  /\ Write(t, "OPEN", tab[t].assigned)
  /\ UNCHANGED <<order, paid, screen, req>>

(* cancel reads the orders and payments, then compares and sets.           *)
StartCancel(u, t) ==
  /\ req[u] = Idle /\ screen[u].on = t
  /\ Gross(t, {"CANCELLED"}) = 0 /\ Allocated(t, Valid) = 0
  /\ "CANCELLED" \in TabTransitions[tab[t].status]
  /\ Ask(u, "cancel", t, tab[t].status)
  /\ UNCHANGED <<tab, order, paid, screen>>

FinishCancel(u) ==
  LET t == req[u].what IN
  /\ req[u].at = "cancel" /\ Answer(u)
  /\ IF Current(u, t) /\ tab[t].status = req[u].saw
     THEN Write(t, "CANCELLED", tab[t].assigned)
     ELSE tab' = tab
  /\ UNCHANGED <<order, paid, screen>>

(* claimTab and transferTab, in whatever status the tab is.                *)
Assign(u, t, v) ==
  /\ req[u] = Idle /\ Current(u, t)
  /\ Write(t, tab[t].status, v)
  /\ UNCHANGED <<order, paid, screen, req>>

----------------------------------------------------------------------------
(* Counter orders.  Their version is left out: an update is a single       *)
(* compare-and-set that some user with a current screen can always win.    *)

(* create looks at the status of the tab, and inserts the order later.     *)
StartOrder(u, o) ==
  /\ req[u] = Idle /\ order[o].status = None /\ tab[TabOf[o]].status = "OPEN"
  /\ \A v \in Users : req[v].what # o
  /\ Ask(u, "order", o, None)
  /\ UNCHANGED <<tab, order, paid, screen>>

FinishOrder(u) ==
  /\ req[u].at = "order" /\ Answer(u)
  /\ \E total \in 1..MaxTotal : order' = [order EXCEPT ![req[u].what] = [status |-> "new", total |-> total]]
  /\ UNCHANGED <<tab, paid, screen>>

(* PENDING and PREPARING orders, "new", can be changed, whatever became of *)
(* their tab.                                                              *)
UpdateOrder(o) ==
  /\ order[o].status = "new"
  /\ \E total \in (1..MaxTotal) \ {order[o].total} :
       order' = [order EXCEPT ![o] = [status |-> "new", total |-> total]]
  /\ UNCHANGED <<tab, paid, screen, req>>

(* The kitchen: "out" stands for READY, SHIPPED and DELIVERED.             *)
UpdateOrderStatus(o) ==
  /\ order[o].status \in {"new", "out"}
  /\ \E s \in {"out", "CANCELLED"} \ {order[o].status} :
       order' = [order EXCEPT ![o] = [status |-> s, total |-> order[o].total]]
  /\ UNCHANGED <<tab, paid, screen, req>>

----------------------------------------------------------------------------
(* Payments.                                                               *)

(* ManualPaymentService.confirm: a serializable transaction.  All it reads  *)
(* it reads at its snapshot; it aborts when the tab was written since (all *)
(* writers of a tab give it a new version), and may abort for any other    *)
(* reason.  Counter orders, charges and settlements lock nothing that it   *)
(* reads: they commit in between, unseen.                                  *)
StartConfirm(u, m) ==
  LET t == TabOf[m] IN
  /\ req[u] = Idle /\ m \in Manuals /\ paid[m].status = None
  /\ \A v \in Users : req[v].what # m
  /\ tab[t].status \in Open /\ tab[t].assigned = u
  /\ Rivals(t) = {} /\ Balance(t) > 0
  /\ Ask(u, "confirm", m, [version |-> tab[t].version, amount |-> Balance(t),
                           due |-> Balance(t) + ByHand(t), charges |-> Made(t)])
  /\ UNCHANGED <<tab, order, paid, screen>>

FinishConfirmMut(u) ==
  LET m == req[u].what  t == TabOf[m] IN
  /\ req[u].at = "confirm" /\ Answer(u)
  /\ \/ /\ paid' = [paid EXCEPT ![m] = [status |-> "valid", amount |-> req[u].saw.amount]]
        /\ Write(t, "PAID", tab[t].assigned)
     \/ UNCHANGED <<paid, tab>>
  /\ UNCHANGED <<order, screen>>
FinishConfirm(u) ==
  LET m == req[u].what  t == TabOf[m] IN
  /\ req[u].at = "confirm" /\ Answer(u)
  /\ \/ /\ tab[t].version = req[u].saw.version
        /\ paid' = [paid EXCEPT ![m] = [status |-> "valid", amount |-> req[u].saw.amount]]
        /\ Write(t, "PAID", tab[t].assigned)
     \/ UNCHANGED <<paid, tab>>
  /\ UNCHANGED <<order, screen>>

(* Reversal: read committed, so that the payment read may be cancelled and *)
(* the tab paid anew before the writes, which compare nothing.             *)
StartReverse(u, m) ==
  /\ req[u] = Idle /\ m \in Manuals /\ paid[m].status = "valid"
  /\ Ask(u, "reverse", m, None)
  /\ UNCHANGED <<tab, order, paid, screen>>

FinishReverseMut(u) ==
  LET m == req[u].what IN
  /\ req[u].at = "reverse" /\ Answer(u)
  /\ paid' = [paid EXCEPT ![m].status = "cancelled"]
  /\ UNCHANGED <<tab, order, screen>>
FinishReverseAnyMut(u) ==
  LET m == req[u].what  t == TabOf[m] IN
  /\ req[u].at = "reverse" /\ Answer(u)
  /\ paid' = [paid EXCEPT ![m].status = "cancelled"]
  /\ Write(t, "CHECKOUT_PENDING", tab[t].assigned)
  /\ UNCHANGED <<order, screen>>
FinishReverse(u) ==
  LET m == req[u].what  t == TabOf[m] IN
  /\ req[u].at = "reverse" /\ Answer(u)
  /\ IF NumberFree(t)
     THEN /\ paid' = [paid EXCEPT ![m] = [status |-> "cancelled", amount |-> paid[m].amount]]
          /\ Write(t, "CHECKOUT_PENDING", tab[t].assigned)
     ELSE UNCHANGED <<paid, tab>>
  /\ UNCHANGED <<order, screen>>

(* createAutomatic: assertTarget takes a tab of any status and counts all  *)
(* orders and allocations; the transaction then looks for active charges.  *)
StartCharge(u, c) ==
  /\ req[u] = Idle /\ c \in Charges /\ paid[c].status = None
  /\ \A v \in Users : req[v].what # c
  /\ \E amount \in 1..Uncharged(TabOf[c]) : Ask(u, "charge", c, amount)
  /\ UNCHANGED <<tab, order, paid, screen>>

FinishCharge(u) ==
  LET c == req[u].what IN
  /\ req[u].at = "charge" /\ Answer(u)
  /\ paid' = IF Rivals(TabOf[c]) = {} THEN [paid EXCEPT ![c] = [status |-> "active", amount |-> req[u].saw]] ELSE paid
  /\ UNCHANGED <<tab, order, screen>>

(* The provider ends the charge, or approves it; settleApproved follows    *)
(* and leaves the tab alone.                                               *)
Resolve(c) ==
  /\ paid[c].status = "active"
  /\ \E s \in {"ended", "approved"} : paid' = [paid EXCEPT ![c] = [status |-> s, amount |-> paid[c].amount]]
  /\ UNCHANGED <<tab, order, screen, req>>

Settle(c) ==
  /\ paid[c].status = "approved"
  /\ paid' = [paid EXCEPT ![c] = [status |-> "valid", amount |-> paid[c].amount]]
  /\ UNCHANGED <<tab, order, screen, req>>

Next ==
  \/ \E u \in Users, t \in Tabs :
       \/ ShowTab(u, t) \/ OpenTab(u, t) \/ Update(u, t) \/ StartCheckout(u, t) \/ Reopen(u, t)
       \/ StartCancel(u, t) \/ \E v \in Users : Assign(u, t, v)
  \/ \E u \in Users, o \in Orders : StartOrder(u, o)
  \/ \E u \in Users, m \in Manuals : StartConfirm(u, m) \/ StartReverse(u, m)
  \/ \E u \in Users, c \in Charges : StartCharge(u, c)
  \/ \E u \in Users : FinishCheckout(u) \/ FinishCancel(u) \/ FinishOrder(u)
                       \/ FinishConfirm(u) \/ FinishReverse(u) \/ FinishCharge(u)
  \/ \E o \in Orders : UpdateOrder(o) \/ UpdateOrderStatus(o)
  \/ \E c \in Charges : Resolve(c) \/ Settle(c)

Spec == Init /\ [][Next]_vars

----------------------------------------------------------------------------
(* Types; a request that names a tab names one that was opened.            *)
TabStatus == Open \cup {"PAID", "CANCELLED", None}
TabRow    == [status : TabStatus, version : Nat, assigned : Users \cup {None}]

TypeOK ==
  /\ tab \in [Tabs -> TabRow] /\ screen \in [Users -> [on : Tabs \cup {None}, row : TabRow]]
  /\ order \in [Orders -> [status : {None, "new", "out", "CANCELLED"}, total : 0..MaxTotal]]
  /\ paid \in [Payments -> [status : {None, "active", "approved", "ended", "valid", "cancelled"}, amount : Nat]]
  /\ \A u \in Users :
       \/ req[u] = Idle
       \/ req[u].at \in {"checkout", "cancel"} /\ req[u].what \in Tabs /\ tab[req[u].what].status # None
       \/ req[u].at = "order" /\ req[u].what \in Orders
       \/ req[u].at = "confirm" /\ req[u].what \in Manuals /\ req[u].saw.amount \in Nat \ {0}
       \/ req[u].at = "reverse" /\ req[u].what \in Manuals /\ paid[req[u].what].status \in {"valid", "cancelled"}
       \/ req[u].at = "charge" /\ req[u].what \in Charges /\ req[u].saw \in Nat \ {0}

(* The version names the content: a user whose version is current sees the *)
(* tab as it is, whoever wrote it last, so that a compare-and-set on the   *)
(* version never overwrites what its user did not see.                     *)
VersionNamesContent ==
  \A u \in Users, t \in Tabs : Current(u, t) => screen[u].row = tab[t]

(* A tab is only taken to checkout by the user responsible for it at that  *)
(* very moment, although the responsibility is read before the update.     *)
CheckoutByResponsible ==
  [][\A u \in Users :
       req[u].at = "checkout" /\ req'[u] = Idle /\ tab' # tab => tab[req[u].what].assigned = u]_vars

(* A tab is PAID only as long as a manual payment of it is valid, whatever *)
(* reversals and repayments overlap.                                       *)
PaidHasPayment ==
  \A t \in Tabs : tab[t].status = "PAID" => \E m \in Manuals : TabOf[m] = t /\ paid[m].status = "valid"

(* A manual payment closes its tab for the user who is responsible for it  *)
(* at that moment, and makes what was paid by hand come to what the        *)
(* transaction found to be due: another payment or reversal that overlaps  *)
(* is never added to it or forgotten, and no automatic charge that had     *)
(* been made by then can still take the money.  Only orders written, and   *)
(* charges made or settled, during the transaction leave a balance.        *)
PaidInFull ==
  [][\A m \in Manuals : paid[m].status = None /\ paid'[m].status = "valid" =>
       \E u \in Users : LET t == TabOf[m]  saw == req[u].saw IN
         /\ req[u].at = "confirm" /\ req[u].what = m
         /\ tab'[t].status = "PAID" /\ tab'[t].assigned = u
         /\ ByHand(t)' = saw.due /\ Rivals(t)' \cap saw.charges = {}]_vars

(* No two active tabs of a number, reversals of old payments included.     *)
OneActivePerNumber ==
  \A s, t \in Tabs : s # t /\ Number[s] = Number[t] => ~(tab[s].status \in Open /\ tab[t].status \in Open)
================================================================================
