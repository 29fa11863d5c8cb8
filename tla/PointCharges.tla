------------------------------ MODULE PointCharges ------------------------------
(***************************************************************************)
(* Payment charges of apps/api/src/payments: automatic charges on a        *)
(* Mercado Pago Point terminal (PaymentChargeService), their webhooks and  *)
(* reconciliation, settlement into payments, and the manual payments that  *)
(* compete with them for the same balance.                                 *)
(*                                                                         *)
(* A request is a process: it can be overtaken between any two of its      *)
(* statements, and die there.  The two SERIALIZABLE transactions are one   *)
(* step each: both read the active charges of a target and insert one, so  *)
(* PostgreSQL lets only one of two that overlap commit.                    *)
(***************************************************************************)
EXTENDS Integers, FiniteSets, FiniteSetsExt

CONSTANTS
  Charges,   \* automatic charges, and the requests that create them
  Manuals,   \* manual payments
  Callers,   \* users who refresh or cancel, webhook workers, the reconciliation
  Events,    \* provider notifications (providerEventId)
  Target,    \* [Charges \cup Manuals -> order or service tab they charge]
  Total,     \* [targets -> gross amount]
  Amount,    \* [Charges -> amount asked for]
  Reach,     \* bound: the provider states that a run visits
  PageSize,  \* charges that one round of the reconciliation reads: 25
  Failures,  \* bound: which of "crash" and "timeout" a run admits
  None

Rows    == Charges \cup Manuals
Procs   == Charges \cup Callers
Targets == {Target[r] : r \in Rows}

Active == {"CREATED", "WAITING_CUSTOMER", "PROCESSING", "UNKNOWN"}
Status == Active \cup {"APPROVED", "DECLINED", "CANCELLED", "EXPIRED", "FAILED",
                       "PARTIALLY_REFUNDED", "REFUNDED"}

Transitions == [s \in Status |->
  CASE s = "CREATED" -> {"WAITING_CUSTOMER", "PROCESSING", "APPROVED", "CANCELLED", "FAILED"}
    [] s = "WAITING_CUSTOMER" -> {"PROCESSING", "APPROVED", "DECLINED", "CANCELLED",
                                  "EXPIRED", "FAILED", "UNKNOWN"}
    [] s = "PROCESSING" -> {"APPROVED", "DECLINED", "CANCELLED", "EXPIRED", "FAILED", "UNKNOWN"}
    [] s = "UNKNOWN" -> {"PROCESSING", "APPROVED", "DECLINED", "CANCELLED", "EXPIRED", "FAILED"}
    [] s = "APPROVED" -> {"PARTIALLY_REFUNDED", "REFUNDED"}
    [] s = "PARTIALLY_REFUNDED" -> {"PARTIALLY_REFUNDED", "REFUNDED"}
    [] OTHER -> {}]

(* The states of a provider order, status/detail, as far as mapPointOrder  *)
(* tells them apart.                                                       *)
OrderStates == {"created", "waiting_payment", "check_on_terminal", "at_terminal", "accredited",
                "rejected", "failed", "canceled", "expired", "partially_refunded", "refunded"}
Money == {"accredited", "partially_refunded", "refunded"}
Ended == {"rejected", "failed", "canceled", "expired"}

MapPointOrderMut == [o \in OrderStates |->
  CASE o \in {"partially_refunded"} -> "PARTIALLY_REFUNDED" [] o = "refunded" -> "REFUNDED"
    [] o = "accredited" -> "APPROVED" [] o = "expired" -> "EXPIRED" [] o = "canceled" -> "CANCELLED"
    [] o = "at_terminal" -> "PROCESSING" [] o = "waiting_payment" -> "WAITING_CUSTOMER"
    [] o = "rejected" -> "DECLINED" [] o = "created" -> "CREATED" [] OTHER -> "FAILED"]
MapPointOrder == [o \in OrderStates |->
  CASE o = "partially_refunded" -> "PARTIALLY_REFUNDED"
    [] o = "refunded"           -> "REFUNDED"
    [] o = "accredited"         -> "APPROVED"
    [] o = "expired"            -> "EXPIRED"
    [] o = "canceled"           -> "CANCELLED"
    [] o = "at_terminal"        -> "PROCESSING"
    [] o = "waiting_payment"    -> "WAITING_CUSTOMER"
    [] o = "check_on_terminal"  -> "UNKNOWN"
    [] o = "rejected"           -> "DECLINED"
    [] o = "failed"             -> "FAILED"
    [] o = "created"            -> "CREATED"]

(* What the provider may do with an order next.                            *)
Moves(o) ==
  CASE o = "created" -> {"waiting_payment", "at_terminal", "canceled", "expired"}
    [] o = "waiting_payment" -> Ended \cup {"at_terminal", "check_on_terminal", "accredited"}
    [] o = "at_terminal" -> Ended \cup {"check_on_terminal", "accredited"}
    [] o = "check_on_terminal" -> Ended \cup {"at_terminal", "accredited"}
    [] o = "accredited" -> {"partially_refunded", "refunded"}
    [] o = "partially_refunded" -> {"refunded"}
    [] OTHER -> {}

ASSUME RowsAssumption ==
  /\ Charges \cap (Manuals \cup Callers) = {}
  /\ None \notin Rows \cup Events \cup Status \cup OrderStates \cup {"OPEN", "CLOSED"}
  /\ DOMAIN Target = Rows /\ Amount \in [Charges -> Nat \ {0}]
  /\ Total \in [Targets -> Nat]
ASSUME PageAssumption == PageSize \in Nat \ {0}
ASSUME BoundsAssumption == Reach \subseteq OrderStates /\ Failures \subseteq {"crash", "timeout"}

VARIABLES
  status,      \* [Rows -> payment_charges.status, None before the insert]
  linked,      \* the charges whose providerOrderId is known
  older,       \* <<c, d>>: the lastCheckedAt of c is before that of d; both are linked
  payment,     \* [Rows -> "none", "valid" or "cancelled"]: Payment and its allocation
  amount,      \* [Rows -> payment_charges.amount]
  exceptions,  \* [Charges -> "OPEN" or "CLOSED" once a POSSIBLE_DUPLICATE was reported]
  order,       \* [Charges -> state of the order at the provider, None if it has none]
  event,       \* [Events -> [status, about]]: payment_provider_events
  pc,          \* [Procs -> where the request is]
  on,          \* [Procs -> charge whose provider order it fetched]
  saw,         \* [Procs -> status that order maps to]
  cur,         \* [Procs -> status applyProviderOrder read]
  ev           \* [Procs -> event being processed]

rows == <<status, linked, older, payment, amount, exceptions>>
chargeVars == <<status, linked, older, payment, amount, exceptions, order, event, pc, on, saw, cur, ev>>

NoEvent == [status |-> None, about |-> None]

Init ==
  /\ status = [r \in Rows |-> None] /\ linked = {} /\ older = {}
  /\ payment = [r \in Rows |-> "none"] /\ amount = [r \in Rows |-> 0]
  /\ exceptions = [c \in Charges |-> None]
  /\ order = [c \in Charges |-> None]
  /\ event = [e \in Events |-> NoEvent]
  /\ pc = [p \in Procs |-> IF p \in Charges THEN "new" ELSE "idle"]
  /\ on = [p \in Procs |-> None] /\ saw = [p \in Procs |-> None]
  /\ cur = [p \in Procs |-> None] /\ ev = [p \in Procs |-> None]

Rivals(t)     == {r \in Rows : Target[r] = t /\ status[r] \in Active}
Paid(t, Kind) == MapThenSumSet(LAMBDA r : amount[r],
                               {r \in Rows : Target[r] = t /\ payment[r] \in Kind})

(* The request leaves: a creator for good, a caller until its next call.   *)
Leave(p) ==
  /\ pc' = [pc EXCEPT ![p] = IF p \in Charges THEN "done" ELSE "idle"]
  /\ on' = [on EXCEPT ![p] = None] /\ saw' = [saw EXCEPT ![p] = None]
  /\ cur' = [cur EXCEPT ![p] = None] /\ ev' = [ev EXCEPT ![p] = None]

Goto(p, where) == pc' = [pc EXCEPT ![p] = where] /\ UNCHANGED <<on, saw, cur, ev>>

----------------------------------------------------------------------------
(* createAutomatic.  assertTarget runs before the transaction; its paid    *)
(* amount includes the allocations of cancelled payments.                  *)

AssertTarget(c) ==
  LET balance == Total[Target[c]] - Paid(Target[c], {"valid", "cancelled"}) IN
  /\ pc[c] = "new"
  /\ Goto(c, IF balance <= 0 \/ Amount[c] > balance THEN "refused" ELSE "asserted")
  /\ UNCHANGED <<rows, order, event>>

CreateChargeMut(c) ==
  /\ pc[c] = "asserted"
  /\ status' = [status EXCEPT ![c] = "CREATED"]
  /\ amount' = [amount EXCEPT ![c] = Amount[c]]
  /\ Goto(c, "calling")
  /\ UNCHANGED <<linked, older, payment, exceptions, order, event>>
CreateCharge(c) ==
  /\ pc[c] = "asserted" /\ Rivals(Target[c]) = {}
  /\ status' = [status EXCEPT ![c] = "CREATED"]
  /\ amount' = [amount EXCEPT ![c] = Amount[c]]
  /\ Goto(c, "calling")
  /\ UNCHANGED <<linked, older, payment, exceptions, order, event>>

CreateRefused(c) ==
  /\ pc[c] = "asserted" /\ Rivals(Target[c]) # {}
  /\ Goto(c, "refused")
  /\ UNCHANGED <<rows, order, event>>

(* The provider creates the order, and its answer comes back or does not.  *)
ProviderCreates(c) ==
  /\ pc[c] = "calling"
  /\ order' = [order EXCEPT ![c] = "created"]
  /\ pc' = [pc EXCEPT ![c] = "fetched"]
  /\ on' = [on EXCEPT ![c] = c]
  /\ saw' = [saw EXCEPT ![c] = MapPointOrder["created"]]
  /\ UNCHANGED <<rows, event, cur, ev>>

ProviderThrows(c) ==
  /\ pc[c] = "calling"
  /\ \/ order' = order
     \/ "timeout" \in Failures /\ order' = [order EXCEPT ![c] = "created"]
  /\ Goto(c, "failing")
  /\ UNCHANGED <<rows, event>>

(* detect finds nothing to report: the charge is FAILED, not APPROVED.     *)
FailCharge(c) ==
  /\ pc[c] = "failing"
  /\ status' = [status EXCEPT ![c] = "FAILED"]
  /\ Leave(c)
  /\ UNCHANGED <<linked, older, payment, amount, exceptions, order, event>>

----------------------------------------------------------------------------
(* The four ways to an order that exists at the provider.                  *)

Fetch(p, c, e, state) ==
  /\ pc' = [pc EXCEPT ![p] = "fetched"]
  /\ on' = [on EXCEPT ![p] = c]
  /\ saw' = [saw EXCEPT ![p] = MapPointOrder[state]]
  /\ ev' = [ev EXCEPT ![p] = e]
  /\ UNCHANGED <<rows, cur>>

Refresh(p, c) ==
  /\ p \in Callers /\ pc[p] = "idle" /\ c \in linked
  /\ Fetch(p, c, None, order[c])
  /\ UNCHANGED <<order, event>>

(* findStaleCharges lists the charges that are not finished, those first    *)
(* that were not checked for longest, and reads one page of them.  That a   *)
(* check is 60 s old only cuts off the end of this order.                   *)
Listed == {c \in linked : status[c] \in Active}
Page   == {c \in Listed : Cardinality({d \in Listed : <<d, c>> \in older}) < PageSize}

(* lastCheckedAt is set: c is behind all others.                            *)
TouchedMut(c) == IF c \in linked THEN older ELSE older \cup {<<d, c>> : d \in linked}
Touched(c) ==
  {pair \in older : pair[1] # c /\ pair[2] # c} \cup {<<d, c>> : d \in linked \ {c}}

(* reconcileCharge asks the provider, ...                                   *)
Reconcile(p, c) ==
  /\ p \in Callers /\ pc[p] = "idle" /\ c \in Page
  /\ Fetch(p, c, None, order[c])
  /\ UNCHANGED <<order, event>>

(* ... who may not answer.                                                  *)
CheckFails(p, c) ==
  /\ "timeout" \in Failures
  /\ p \in Callers /\ pc[p] = "idle" /\ c \in Page
  /\ older' = Touched(c)
  /\ UNCHANGED <<status, linked, payment, amount, exceptions, order, event, pc, on, saw, cur, ev>>

Cancel(p, c) ==
  /\ p \in Callers /\ pc[p] = "idle" /\ c \in linked
  /\ "canceled" \in Moves(order[c]) \cap Reach
  /\ order' = [order EXCEPT ![c] = "canceled"]
  /\ Fetch(p, c, None, "canceled")
  /\ UNCHANGED event

(* accept stores the notification once; PENDING stands for PENDING and for *)
(* FAILED, which no statement tells apart.                                 *)
Accept(e) ==
  /\ event[e] = NoEvent
  /\ \E c \in Charges : /\ order[c] # None
                        /\ event' = [event EXCEPT ![e] = [status |-> "PENDING", about |-> c]]
  /\ UNCHANGED <<rows, order, pc, on, saw, cur, ev>>

Process(p, e) ==
  /\ p \in Callers /\ pc[p] = "idle" /\ event[e].status = "PENDING"
  /\ event[e].about \in linked
  /\ Fetch(p, event[e].about, e, order[event[e].about])
  /\ UNCHANGED <<order, event>>

(* No charge has this providerOrderId (yet): IGNORED, for good, even if     *)
(* the charge is linked or the event PROCESSED before that is written.     *)
FindNothing(p, e) ==
  /\ p \in Callers /\ pc[p] = "idle" /\ event[e].status = "PENDING"
  /\ event[e].about \notin linked
  /\ pc' = [pc EXCEPT ![p] = "ignoring"]
  /\ ev' = [ev EXCEPT ![p] = e]
  /\ UNCHANGED <<rows, order, event, on, saw, cur>>

EventBecomes(p, s) ==
  event' = [e \in Events |->
    IF ev[p] = e THEN [status |-> s, about |-> event[e].about] ELSE event[e]]

Ignore(p) ==
  /\ pc[p] = "ignoring"
  /\ Leave(p) /\ EventBecomes(p, "IGNORED")
  /\ UNCHANGED <<rows, order>>

----------------------------------------------------------------------------
(* applyProviderOrder: read, compare, compare-and-set, settle, detect.  An *)
(* answer that is no transition leaves the charge as it is, lastCheckedAt  *)
(* with it.                                                                *)

EventDone(p) == EventBecomes(p, "PROCESSED")

ReadStatus(p) ==
  /\ pc[p] = "fetched"
  /\ LET s == status[on[p]] IN
     IF s # saw[p] /\ saw[p] \notin Transitions[s]
     THEN Leave(p) /\ EventDone(p)
     ELSE /\ pc' = [pc EXCEPT ![p] = "checked"]
          /\ cur' = [cur EXCEPT ![p] = s]
          /\ UNCHANGED <<on, saw, ev, event>>
  /\ UNCHANGED <<rows, order>>

UpdateStatusMut(p) ==
  /\ pc[p] = "checked"
  /\ status' = [status EXCEPT ![on[p]] = saw[p]]
  /\ linked' = linked \cup {on[p]} /\ older' = Touched(on[p])
  /\ Goto(p, "settling")
  /\ UNCHANGED <<payment, amount, exceptions, order, event>>
UpdateStatus(p) ==
  /\ pc[p] = "checked" /\ status[on[p]] = cur[p]
  /\ status' = [status EXCEPT ![on[p]] = saw[p]]
  /\ linked' = linked \cup {on[p]} /\ older' = Touched(on[p])
  /\ Goto(p, "settling")
  /\ UNCHANGED <<payment, amount, exceptions, order, event>>

UpdateLost(p) ==
  /\ pc[p] = "checked" /\ status[on[p]] # cur[p]
  /\ Leave(p) /\ EventDone(p)
  /\ UNCHANGED <<rows, order>>

SettlesMut(p) == saw[p] \in {"APPROVED", "PROCESSING"} /\ payment[on[p]] = "none"
Settles(p)    == saw[p] = "APPROVED" /\ payment[on[p]] = "none"

SettleApproved(p) ==
  /\ pc[p] = "settling"
  /\ payment' = IF Settles(p) THEN [payment EXCEPT ![on[p]] = "valid"] ELSE payment
  /\ Goto(p, "detecting")
  /\ UNCHANGED <<status, linked, older, amount, exceptions, order, event>>

DuplicateMut(p) == cur[p] = "APPROVED"
                   /\ \E r \in Rows \ {on[p]} : Target[r] = Target[on[p]] /\ status[r] = "APPROVED"
Duplicate(p) == status[on[p]] = "APPROVED"
                /\ \E r \in Rows \ {on[p]} : Target[r] = Target[on[p]] /\ status[r] = "APPROVED"

Detect(p) ==
  /\ pc[p] = "detecting"
  /\ exceptions' = IF Duplicate(p) THEN [exceptions EXCEPT ![on[p]] = "OPEN"] ELSE exceptions
  /\ Leave(p) /\ EventDone(p)
  /\ UNCHANGED <<status, linked, older, payment, amount, order>>

(* The process dies, or a statement throws and the event becomes FAILED,   *)
(* or reconcileCharge notes the check; what is written stays.              *)
Abort(p) ==
  /\ "crash" \in Failures
  /\ pc[p] \in {"asserted", "calling", "failing", "ignoring", "fetched", "checked", "settling", "detecting"}
  /\ Leave(p)
  /\ event' = event \/ EventBecomes(p, "PENDING")
  /\ older' \in {older} \cup {Touched(c) : c \in {on[p]} \cap linked}
  /\ UNCHANGED <<status, linked, payment, amount, exceptions, order>>

(* The gestor closes the exception after looking into it.                  *)
FinishException(c) ==
  /\ exceptions[c] = "OPEN"
  /\ exceptions' = [exceptions EXCEPT ![c] = "CLOSED"]
  /\ UNCHANGED <<status, linked, older, payment, amount, order, event, pc, on, saw, cur, ev>>

----------------------------------------------------------------------------
(* Manual payments of the whole balance, and their reversal.               *)

Confirm(m) ==
  /\ m \in Manuals /\ status[m] = None
  /\ Rivals(Target[m]) = {}
  /\ \E dto \in 1..Total[Target[m]] :
       /\ dto = Total[Target[m]] - Paid(Target[m], {"valid"})
       /\ amount' = [amount EXCEPT ![m] = dto]
  /\ status' = [status EXCEPT ![m] = "APPROVED"]
  /\ payment' = [payment EXCEPT ![m] = "valid"]
  /\ UNCHANGED <<linked, older, exceptions, order, event, pc, on, saw, cur, ev>>

Reverse(m) ==
  /\ m \in Manuals /\ status[m] = "APPROVED" /\ payment[m] = "valid"
  /\ status' = [status EXCEPT ![m] = "CANCELLED"]
  /\ payment' = [payment EXCEPT ![m] = "cancelled"]
  /\ UNCHANGED <<linked, older, amount, exceptions, order, event, pc, on, saw, cur, ev>>

ProviderMoves(c) ==
  /\ order[c] # None
  /\ \E o \in Moves(order[c]) \cap Reach : order' = [order EXCEPT ![c] = o]
  /\ UNCHANGED <<rows, event, pc, on, saw, cur, ev>>

Create(c) ==
  \/ AssertTarget(c) \/ CreateCharge(c) \/ CreateRefused(c)
  \/ ProviderCreates(c) \/ ProviderThrows(c) \/ FailCharge(c)

Apply(p) ==
  ReadStatus(p) \/ UpdateStatus(p) \/ UpdateLost(p) \/ SettleApproved(p) \/ Detect(p)

Next ==
  \/ \E c \in Charges : Create(c) \/ ProviderMoves(c) \/ FinishException(c)
  \/ \E p \in Procs : Apply(p) \/ Abort(p)
  \/ \E p \in Callers, c \in Charges : Refresh(p, c) \/ Reconcile(p, c) \/ CheckFails(p, c) \/ Cancel(p, c)
  \/ \E e \in Events : Accept(e)
  \/ \E p \in Callers, e \in Events : Process(p, e) \/ FindNothing(p, e)
  \/ \E p \in Callers : Ignore(p)
  \/ \E m \in Manuals : Confirm(m) \/ Reverse(m)

Spec == Init /\ [][Next]_chargeVars

(* Requests that started go on, where none dies, and what the cron of the  *)
(* reconciliation has on its page again and again it gets an answer about: *)
(* a charge on the page stays there until it is checked or finished, for   *)
(* the others only go behind it.  Who is on the page is left to the order  *)
(* of the checks; users, notifications and terminals promise nothing.      *)
Fairness ==
  /\ \A c \in Charges : WF_chargeVars(CreateCharge(c) \/ CreateRefused(c) \/ ProviderCreates(c) \/ FailCharge(c))
  /\ \A p \in Procs : WF_chargeVars(Apply(p))
  /\ \A c \in Charges : SF_chargeVars(\E p \in Callers : Reconcile(p, c))

FairSpec == Spec /\ Fairness

----------------------------------------------------------------------------
(* Types; a request holds an answer of the provider exactly while it        *)
(* applies it, and a charge is unknown to everyone else until it is linked. *)
Types ==
  /\ status \in [Rows -> Status \cup {None}] /\ linked \subseteq Charges /\ older \subseteq Charges \X Charges
  /\ payment \in [Rows -> {"none", "valid", "cancelled"}]
  /\ amount \in [Rows -> Nat] /\ exceptions \in [Charges -> {None, "OPEN", "CLOSED"}]
  /\ order \in [Charges -> OrderStates \cup {None}]
  /\ event \in [Events -> [status : {None, "PENDING", "PROCESSED", "IGNORED"}, about : Charges \cup {None}]]
  /\ pc \in [Procs -> {"new", "idle", "asserted", "refused", "calling", "failing", "ignoring", "fetched",
                       "checked", "settling", "detecting", "done"}]
  /\ on \in [Procs -> Charges \cup {None}]
  /\ saw \in [Procs -> Status \cup {None}] /\ cur \in [Procs -> Status \cup {None}]
  /\ ev \in [Procs -> Events \cup {None}]

Applying == {"fetched", "checked", "settling", "detecting"}

Answers ==
  \A p \in Procs :
    /\ pc[p] \in Applying <=> on[p] # None
    /\ on[p] # None => saw[p] # None /\ order[on[p]] # None /\ (on[p] = p \/ on[p] \in linked)
    /\ pc[p] \in {"checked", "settling", "detecting"} <=> cur[p] # None

Creation ==
  \A c \in Charges :
    /\ pc[c] \in {"new", "asserted", "refused"} => status[c] = None
    /\ pc[c] \in {"calling", "failing"} => status[c] = "CREATED" /\ c \notin linked
    /\ c \in linked => status[c] # None /\ order[c] # None

TypeOK == Types /\ Answers /\ Creation

(* No two charges of a target are ever open at once, so that no customer   *)
(* is asked twice for one balance.                                         *)
OneActiveCharge ==
  \A r, s \in Rows : r # s /\ Target[r] = Target[s] => ~(status[r] \in Active /\ status[s] \in Active)

(* A result once confirmed is never undone by an answer fetched earlier:   *)
(* webhooks, polls and refreshes run at once and out of order, and each    *)
(* changes a status only along charge-status.ts.                           *)
ChargeLifecycle ==
  [][\A c \in Charges :
       status'[c] # status[c] =>
         IF status[c] = None THEN status'[c] = "CREATED"
                             ELSE status'[c] \in Transitions[status[c]]]_chargeVars

(* Money the terminal took for a charge whose order is known is never      *)
(* written off: the charge says so or is still polled.                     *)
NoApprovalLost ==
  \A c \in linked : order[c] \in Money =>
    status[c] \in Active \cup {"APPROVED", "PARTIALLY_REFUNDED", "REFUNDED"}

(* A balance is only settled by money the provider confirmed.              *)
SettledByProvider ==
  \A c \in Charges : payment[c] # "none" => c \in linked /\ order[c] \in Money

(* Of two charges approved for one target one is reported as a possible    *)
(* duplicate, however the two interleave, once nobody is on the way to     *)
(* detect and unless a crash cut detect off.  A manual payment does not    *)
(* look for duplicates itself: it relies on the automatic charge it did    *)
(* not see, which is not settled yet and so detects later.                 *)
Quiet(c) == \A p \in Procs : on[p] = c => pc[p] \notin {"settling", "detecting"}
Reported(r) == r \in Charges /\ exceptions[r] # None
DuplicatesReported ==
  "crash" \in Failures \/
  \A c \in Charges, r \in Rows :
    /\ c # r /\ Target[c] = Target[r] /\ Quiet(c) /\ Quiet(r)
    /\ status[c] = "APPROVED" /\ status[r] = "APPROVED"
    => Reported(c) \/ Reported(r)

(* Attempts that reached the terminal end when the provider ended them,    *)
(* even if every notification is lost: reconciliation finds them, unless a *)
(* page is full for good of charges whose order ended in a way that        *)
(* charge-status.ts has no transition for: these keep their lastCheckedAt, *)
(* and are at the head of every list.  A charge is Late once, if at all.   *)
Late  == {c \in Charges : status[c] \in {"WAITING_CUSTOMER", "PROCESSING", "UNKNOWN"} /\ order[c] \in Ended}
Stuck == {c \in Listed : MapPointOrder[order[c]] \notin Transitions[status[c]] \cup {status[c]}}
EndedChargesClose ==
  (Late # {} ~> Late = {}) \/ <>[](Cardinality(Stuck) >= PageSize)
============================================================================
