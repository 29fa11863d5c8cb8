----------------------------- MODULE PaymentsProofs -----------------------------
(***********************************************************************************)
(* Proofs about what is paid and what is recorded of it: charges at a terminal     *)
(* (PointCharges), the mirror of a payment that notifications and reconciliations  *)
(* write (PaymentStates), and the orders that files of past sales become           *)
(* (CsvSales), for any number of charges, callers, notices, runs, uploads, files.  *)
(* They share no state.                                                            *)
(***********************************************************************************)
EXTENDS PointCharges, PaymentStates, CsvSales, SequenceTheorems, FiniteSetTheorems, TLAPS

----------------------------------------------------------------------------
(* PointCharges.                                                                   *)

Good == {"APPROVED", "PARTIALLY_REFUNDED", "REFUNDED"}
Bad  == {"DECLINED", "CANCELLED", "EXPIRED", "FAILED"}

----------------------------------------------------------------------------
(* The tables.                                                               *)

(* charge-status.ts: what a status may become, and that nothing leads back   *)
(* to an active status.                                                      *)
LEMMA TransitionTable ==
  /\ Transitions \in [Status -> SUBSET Status]
  /\ \A s \in Status : s \notin Active => Transitions[s] \cap Active = {}
  BY DEF Transitions, Status, Active

(* mapPointOrder: which orders a final status can come from.                 *)
LEMMA AnswerTable ==
  ASSUME NEW o \in OrderStates
  PROVE  /\ MapPointOrder[o] \in Status
         /\ MapPointOrder[o] \in Good => o \in Money
         /\ MapPointOrder[o] \in Bad => o \in Ended
  BY DEF MapPointOrder, OrderStates, Status, Active, Good, Bad, Money, Ended

(* An order that ended stays as it is, and money once taken can only be      *)
(* refunded.                                                                 *)
LEMMA MoveTable ==
  ASSUME NEW o \in OrderStates, NEW n \in Moves(o)
  PROVE  n \in OrderStates /\ o \notin Ended /\ (o \in Money => n \in Money)
  BY DEF Moves, OrderStates, Money, Ended

LEMMA StatusParts == Status = Active \cup Good \cup Bad /\ Good \cap Bad = {} /\ Active \cap (Good \cup Bad) = {}
  BY DEF Status, Active, Good, Bad

----------------------------------------------------------------------------
(* Types.                                                                    *)

(* What the database, the provider and the requests hold, each by itself.    *)
RowTypes ==
  /\ status \in [Rows -> Status \cup {None}] /\ linked \subseteq Charges /\ older \subseteq Charges \X Charges
  /\ payment \in [Rows -> {"none", "valid", "cancelled"}]
  /\ amount \in [Rows -> Nat] /\ exceptions \in [Charges -> {None, "OPEN", "CLOSED"}]
OrderTypes == order \in [Charges -> OrderStates \cup {None}]
EventTypes ==
  event \in [Events -> [status : {None, "PENDING", "PROCESSED", "IGNORED"}, about : Charges \cup {None}]]
RequestTypes ==
  /\ pc \in [Procs -> {"new", "idle", "asserted", "refused", "calling", "failing", "ignoring", "fetched",
                       "checked", "settling", "detecting", "done"}]
  /\ on \in [Procs -> Charges \cup {None}]
  /\ saw \in [Procs -> Status \cup {None}] /\ cur \in [Procs -> Status \cup {None}]
  /\ ev \in [Procs -> Events \cup {None}]

LEMMA TypesParts == Types <=> RowTypes /\ OrderTypes /\ EventTypes /\ RequestTypes
  BY DEF Types, RowTypes, OrderTypes, EventTypes, RequestTypes

LEMMA TypesPartsNext == Types' <=> RowTypes' /\ OrderTypes' /\ EventTypes' /\ RequestTypes'
  BY DEF Types, RowTypes, OrderTypes, EventTypes, RequestTypes

(* An event is only ever answered for.                                       *)
LEMMA EventTyped ==
  ASSUME EventTypes, NEW p, NEW s \in {"PENDING", "PROCESSED", "IGNORED"},
         event' = event \/ EventBecomes(p, s)
  PROVE  EventTypes'
  BY DEF EventTypes, EventBecomes

(* Only charges that are linked have been checked.                           *)
LEMMA TouchedTyped ==
  ASSUME RowTypes, NEW c \in Charges
  PROVE  Touched(c) \subseteq Charges \X Charges
  BY DEF RowTypes, Touched

LEMMA LeaveTyped ==
  ASSUME RequestTypes, NEW p \in Procs, Leave(p)
  PROVE  RequestTypes'
  BY DEF RequestTypes, Leave

LEMMA FetchTyped ==
  ASSUME RequestTypes, NEW p \in Procs, NEW c \in Charges, NEW e \in Events \cup {None},
         NEW state \in OrderStates, Fetch(p, c, e, state)
  PROVE  RequestTypes'
<1>1. MapPointOrder[state] \in Status
  BY AnswerTable
<1> QED
  BY <1>1 DEF RequestTypes, Fetch

LEMMA TypesStep ==
  ASSUME TypeOK, [Next]_chargeVars
  PROVE  Types'
<1> USE RowsAssumption, TypesParts, TypesPartsNext DEF TypeOK, Procs, rows
<1>1. ASSUME NEW c \in Charges, AssertTarget(c) \/ CreateRefused(c) \/ ProviderThrows(c)
      PROVE  Types'
  <2>1. RowTypes' /\ EventTypes'
    BY <1>1 DEF AssertTarget, CreateRefused, ProviderThrows, RowTypes, EventTypes
  <2>2. OrderTypes'
    BY <1>1 DEF AssertTarget, CreateRefused, ProviderThrows, OrderTypes, OrderStates
  <2>3. RequestTypes'
    <3>1. \E where \in {"refused", "asserted", "failing"} : Goto(c, where)
      BY <1>1 DEF AssertTarget, CreateRefused, ProviderThrows
    <3> QED
      BY <3>1 DEF Goto, RequestTypes
  <2> QED
    BY <2>1, <2>2, <2>3
<1>2. ASSUME NEW c \in Charges, CreateCharge(c) PROVE Types'
  <2>1. RowTypes'
    BY <1>2 DEF CreateCharge, RowTypes, Rows, Status, Active
  <2> QED
    BY <1>2, <2>1 DEF CreateCharge, OrderTypes, EventTypes, Goto, RequestTypes
<1>3. ASSUME NEW c \in Charges, ProviderCreates(c) PROVE Types'
  <2>1. MapPointOrder["created"] \in Status /\ "created" \in OrderStates
    BY AnswerTable DEF OrderStates
  <2> QED
    BY <1>3, <2>1 DEF ProviderCreates, RowTypes, OrderTypes, EventTypes, RequestTypes
<1>4. ASSUME NEW c \in Charges, FailCharge(c) PROVE Types'
  <2>1. RowTypes'
    BY <1>4 DEF FailCharge, RowTypes, Rows, Status
  <2> QED
    BY <1>4, <2>1, LeaveTyped DEF FailCharge, OrderTypes, EventTypes
<1>5. ASSUME NEW c \in Charges, ProviderMoves(c) PROVE Types'
  <2>1. OrderTypes'
    BY <1>5, MoveTable DEF ProviderMoves, OrderTypes
  <2> QED
    BY <1>5, <2>1 DEF ProviderMoves, RowTypes, EventTypes, RequestTypes
<1>6. ASSUME NEW c \in Charges, FinishException(c) PROVE Types'
  BY <1>6 DEF FinishException, RowTypes, OrderTypes, EventTypes, RequestTypes
<1>7. ASSUME NEW q \in Procs, ReadStatus(q) PROVE Types'
  <2>1. RowTypes' /\ OrderTypes'
    BY <1>7 DEF ReadStatus, RowTypes, OrderTypes
  <2>2. EventTypes'
    <3>1. event' = event \/ EventBecomes(q, "PROCESSED")
      BY <1>7 DEF ReadStatus, EventDone
    <3> QED
      BY <3>1, EventTyped
  <2>3. RequestTypes'
    <3>1. status[on[q]] \in Status \cup {None}
      BY <1>7 DEF ReadStatus, Answers, RowTypes, RequestTypes, Rows, Applying
    <3>2. CASE Leave(q)
      BY <3>2, LeaveTyped
    <3>3. CASE ~Leave(q)
      BY <1>7, <3>1, <3>3 DEF ReadStatus, RequestTypes
    <3> QED
      BY <3>2, <3>3
  <2> QED
    BY <2>1, <2>2, <2>3
<1>8. ASSUME NEW q \in Procs, UpdateStatus(q) PROVE Types'
  <2>1. on[q] \in Charges /\ saw[q] \in Status
    BY <1>8 DEF UpdateStatus, Answers, RequestTypes, Applying
  <2>2. older' \subseteq Charges \X Charges
    BY <1>8, <2>1, TouchedTyped DEF UpdateStatus
  <2>3. RowTypes'
    BY <1>8, <2>1, <2>2 DEF UpdateStatus, RowTypes, Rows
  <2> QED
    BY <1>8, <2>3 DEF UpdateStatus, Goto, OrderTypes, EventTypes, RequestTypes
<1>9. ASSUME NEW q \in Procs, SettleApproved(q) PROVE Types'
  <2>1. RowTypes'
    BY <1>9 DEF SettleApproved, RowTypes
  <2> QED
    BY <1>9, <2>1 DEF SettleApproved, Goto, OrderTypes, EventTypes, RequestTypes
<1>10. ASSUME NEW q \in Procs, UpdateLost(q) \/ Detect(q) \/ Abort(q) \/ Ignore(q) PROVE Types'
  <2>1. RowTypes' /\ OrderTypes'
    <3>1. ASSUME Abort(q) PROVE RowTypes' /\ OrderTypes'
      <4>1. older' = older \/ \E c \in Charges : older' = Touched(c)
        BY <3>1 DEF Abort, RowTypes
      <4>2. older' \subseteq Charges \X Charges
        BY <4>1, TouchedTyped DEF RowTypes
      <4> QED
        BY <3>1, <4>2 DEF Abort, RowTypes, OrderTypes
    <3>2. ASSUME UpdateLost(q) \/ Detect(q) \/ Ignore(q) PROVE RowTypes' /\ OrderTypes'
      BY <3>2 DEF UpdateLost, Detect, Ignore, RowTypes, OrderTypes
    <3> QED
      BY <1>10, <3>1, <3>2
  <2>2. EventTypes'
    BY <1>10, EventTyped DEF UpdateLost, Detect, Abort, Ignore, EventDone
  <2>3. RequestTypes'
    BY <1>10, LeaveTyped DEF UpdateLost, Detect, Abort, Ignore
  <2> QED
    BY <2>1, <2>2, <2>3
<1>11. ASSUME NEW q \in Callers, NEW c \in Charges, Refresh(q, c) \/ Reconcile(q, c) \/ Cancel(q, c)
       PROVE  Types'
  <2>1. order[c] \in OrderStates
    BY <1>11 DEF Refresh, Reconcile, Page, Listed, Cancel, Creation, OrderTypes
  <2>2. RowTypes' /\ EventTypes'
    BY <1>11 DEF Refresh, Reconcile, Cancel, Fetch, RowTypes, EventTypes
  <2>3. OrderTypes'
    BY <1>11 DEF Refresh, Reconcile, Cancel, OrderTypes, OrderStates
  <2>4. PICK state \in OrderStates : Fetch(q, c, None, state)
    BY <1>11, <2>1 DEF Refresh, Reconcile, Cancel, OrderStates
  <2>5. RequestTypes'
    BY <2>4, FetchTyped
  <2> QED
    BY <2>2, <2>3, <2>5
<1>12. ASSUME NEW e \in Events, Accept(e) PROVE Types'
  BY <1>12 DEF Accept, RowTypes, OrderTypes, EventTypes, RequestTypes
<1>13. ASSUME NEW q \in Callers, NEW e \in Events, Process(q, e) PROVE Types'
  <2>1. event[e].about \in Charges /\ order[event[e].about] \in OrderStates
    BY <1>13 DEF Process, Creation, RowTypes, OrderTypes
  <2>2. RequestTypes'
    BY <1>13, <2>1, FetchTyped DEF Process
  <2> QED
    BY <1>13, <2>2 DEF Process, Fetch, RowTypes, OrderTypes, EventTypes
<1>14. ASSUME NEW q \in Callers, NEW e \in Events, FindNothing(q, e) PROVE Types'
  BY <1>14 DEF FindNothing, RowTypes, OrderTypes, EventTypes, RequestTypes
<1>15. ASSUME NEW m \in Manuals, Confirm(m) PROVE Types'
  <2>1. Total[Target[m]] \in Nat
    BY DEF Targets, Rows
  <2>2. RowTypes'
    BY <1>15, <2>1 DEF Confirm, RowTypes, Status, Rows
  <2> QED
    BY <1>15, <2>2 DEF Confirm, OrderTypes, EventTypes, RequestTypes
<1>16. ASSUME NEW m \in Manuals, Reverse(m) PROVE Types'
  <2>1. RowTypes'
    BY <1>16 DEF Reverse, RowTypes, Status, Rows
  <2> QED
    BY <1>16, <2>1 DEF Reverse, OrderTypes, EventTypes, RequestTypes
<1>17. ASSUME NEW q \in Callers, NEW c \in Charges, CheckFails(q, c) PROVE Types'
  <2>1. older' \subseteq Charges \X Charges
    BY <1>17, TouchedTyped DEF CheckFails
  <2> QED
    BY <1>17, <2>1 DEF CheckFails, RowTypes, OrderTypes, EventTypes, RequestTypes
<1>18. CASE UNCHANGED chargeVars
  BY <1>18 DEF chargeVars, RowTypes, OrderTypes, EventTypes, RequestTypes
<1> QED
  BY <1>1, <1>2, <1>3, <1>4, <1>5, <1>6, <1>7, <1>8, <1>9, <1>10, <1>11, <1>12, <1>13, <1>14, <1>15,
     <1>16, <1>17, <1>18 DEF Next, Create, Apply

----------------------------------------------------------------------------
(* A request and the answer it holds.                                        *)

(* A request only fetches the order of a charge that was inserted.           *)
Known == \A p \in Procs : on[p] # None => status[on[p]] # None

(* A request keeps its answer from the fetch to the end.                     *)
LEMMA AnswersStep ==
  ASSUME TypeOK, Known, [Next]_chargeVars
  PROVE  Answers'
<1> USE RowsAssumption DEF TypeOK, Types, Answers, Applying, Procs
<1>1. ASSUME NEW c \in Charges, AssertTarget(c) \/ CreateCharge(c) \/ CreateRefused(c) \/ ProviderThrows(c)
      PROVE  Answers'
  <2>1. PICK where \in {"refused", "asserted", "calling", "failing"} : Goto(c, where)
    BY <1>1 DEF AssertTarget, CreateCharge, CreateRefused, ProviderThrows
  <2>2. on[c] = None /\ cur[c] = None /\ linked' = linked
    BY <1>1 DEF AssertTarget, CreateCharge, CreateRefused, ProviderThrows, rows
  <2>3. \A d \in Charges : order[d] # None => order'[d] # None
    BY <1>1 DEF AssertTarget, CreateCharge, CreateRefused, ProviderThrows, OrderStates
  <2> QED
    BY <2>1, <2>2, <2>3 DEF Goto
<1>2. ASSUME NEW c \in Charges, ProviderCreates(c) PROVE Answers'
  <2>1. MapPointOrder["created"] \in Status /\ "created" \in OrderStates /\ cur[c] = None /\ on[c] = None
    BY <1>2, AnswerTable DEF ProviderCreates, OrderStates
  <2> QED
    BY <1>2, <2>1 DEF ProviderCreates, rows, Rows
<1>3. ASSUME NEW c \in Charges, ProviderMoves(c) PROVE Answers'
  <2>1. \A d \in Charges : order[d] # None => order'[d] # None
    BY <1>3, MoveTable DEF ProviderMoves
  <2> QED
    BY <1>3, <2>1 DEF ProviderMoves, rows
<1>4. ASSUME NEW c \in Charges, FinishException(c) PROVE Answers'
  BY <1>4 DEF FinishException
<1>5. ASSUME NEW q \in Procs,
             FailCharge(q) \/ UpdateLost(q) \/ Detect(q) \/ Abort(q) \/ Ignore(q)
      PROVE  Answers'
  <2>1. Leave(q) /\ linked' = linked /\ order' = order
    BY <1>5 DEF FailCharge, UpdateLost, Detect, Abort, Ignore, rows
  <2> QED
    BY <2>1 DEF Leave
<1>6. ASSUME NEW q \in Procs, ReadStatus(q) PROVE Answers'
  <2>1. linked' = linked /\ order' = order
    BY <1>6 DEF ReadStatus, rows
  <2>2. CASE Leave(q)
    BY <2>1, <2>2 DEF Leave
  <2>3. CASE ~Leave(q)
    <3>1. status[on[q]] # None
      BY <1>6 DEF ReadStatus, Known
    <3> QED
      BY <1>6, <2>1, <2>3, <3>1 DEF ReadStatus
  <2> QED
    BY <2>2, <2>3
<1>7. ASSUME NEW q \in Procs, UpdateStatus(q) \/ SettleApproved(q) PROVE Answers'
  <2>1. PICK where \in {"settling", "detecting"} : Goto(q, where)
    BY <1>7 DEF UpdateStatus, SettleApproved
  <2>2. linked \subseteq linked' /\ order' = order /\ pc[q] \in {"checked", "settling"}
    BY <1>7 DEF UpdateStatus, SettleApproved
  <2> QED
    BY <2>1, <2>2 DEF Goto
<1>8. ASSUME NEW q \in Callers, NEW c \in linked, NEW e, NEW state \in OrderStates, pc[q] = "idle",
             Fetch(q, c, e, state), \A d \in Charges : order[d] # None => order'[d] # None
      PROVE  Answers'
  <2>1. MapPointOrder[state] \in Status /\ order[c] # None /\ on[q] = None /\ cur[q] = None
    BY <1>8, AnswerTable DEF Creation
  <2> QED
    BY <1>8, <2>1 DEF Fetch, rows, Rows
<1>9. ASSUME NEW q \in Callers, NEW c \in Charges, Refresh(q, c) \/ Reconcile(q, c) \/ Cancel(q, c)
      PROVE  Answers'
  <2>1. c \in linked /\ order[c] \in OrderStates /\ pc[q] = "idle"
    BY <1>9 DEF Refresh, Reconcile, Page, Listed, Cancel, Creation
  <2>2. PICK state \in OrderStates : Fetch(q, c, None, state)
    BY <1>9, <2>1 DEF Refresh, Reconcile, Cancel, OrderStates
  <2>3. \A d \in Charges : order[d] # None => order'[d] # None
    BY <1>9 DEF Refresh, Reconcile, Cancel, OrderStates
  <2> QED
    BY <1>8, <2>1, <2>2, <2>3
<1>10. ASSUME NEW e \in Events, Accept(e) PROVE Answers'
  BY <1>10 DEF Accept, rows
<1>11. ASSUME NEW q \in Callers, NEW e \in Events, Process(q, e) PROVE Answers'
  <2>1. event[e].about \in linked /\ order[event[e].about] \in OrderStates /\ order' = order
    BY <1>11 DEF Process, Creation
  <2> QED
    BY <1>8, <1>11, <2>1 DEF Process
<1>12. ASSUME NEW q \in Callers, NEW e \in Events, FindNothing(q, e) PROVE Answers'
  BY <1>12 DEF FindNothing, rows
<1>13. ASSUME NEW m \in Manuals, Confirm(m) \/ Reverse(m) PROVE Answers'
  BY <1>13 DEF Confirm, Reverse
<1>14. ASSUME NEW q \in Callers, NEW c \in Charges, CheckFails(q, c) PROVE Answers'
  BY <1>14 DEF CheckFails
<1>15. CASE UNCHANGED chargeVars
  BY <1>15 DEF chargeVars
<1> QED
  BY <1>1, <1>2, <1>3, <1>4, <1>5, <1>6, <1>7, <1>9, <1>10, <1>11, <1>12, <1>13, <1>14, <1>15
     DEF Next, Create, Apply

----------------------------------------------------------------------------
(* What the requests carry from one statement to the next.                   *)

ManualRows == \A m \in Manuals : status[m] \in {None, "APPROVED", "CANCELLED"}
Compared   == \A p \in Procs : pc[p] = "checked" => saw[p] = cur[p] \/ saw[p] \in Transitions[cur[p]]
LinkedFirst == \A p \in Procs : pc[p] \in {"settling", "detecting"} => on[p] \in linked

(* A final answer is still true when it is applied: an order that ended      *)
(* stays ended, and money taken stays taken or is refunded.                  *)
Agrees(s, o) == (s \in Good => o \in Money) /\ (s \in Bad => o \in Ended)
Seen    == \A p \in Procs : on[p] # None => Agrees(saw[p], order[on[p]])
Written == \A c \in linked : status[c] \in Bad => order[c] \in Ended

Carried == Known /\ ManualRows /\ Compared /\ LinkedFirst
IInv    == TypeOK /\ Carried /\ Seen /\ Written /\ SettledByProvider /\ OneActiveCharge

LEMMA CreationStep ==
  ASSUME TypeOK, Carried, [Next]_chargeVars
  PROVE  Creation'
<1> USE RowsAssumption DEF TypeOK, Types, Creation, Carried, Procs, Rows
<1>1. ASSUME NEW c \in Charges, AssertTarget(c) \/ CreateRefused(c) \/ ProviderThrows(c)
      PROVE  Creation'
  <2>1. PICK where \in {"refused", "asserted", "failing"} :
          Goto(c, where) /\ (where = "failing" => pc[c] = "calling")
                         /\ (where # "failing" => pc[c] \in {"new", "asserted"})
    BY <1>1 DEF AssertTarget, CreateRefused, ProviderThrows
  <2>2. UNCHANGED rows /\ \A d \in Charges : order[d] # None => order'[d] # None
    BY <1>1 DEF AssertTarget, CreateRefused, ProviderThrows, OrderStates
  <2> QED
    BY <2>1, <2>2 DEF Goto, rows
<1>2. ASSUME NEW c \in Charges, CreateCharge(c) PROVE Creation'
  BY <1>2 DEF CreateCharge, Goto
<1>3. ASSUME NEW c \in Charges, ProviderCreates(c) PROVE Creation'
  BY <1>3 DEF ProviderCreates, rows, OrderStates
<1>4. ASSUME NEW c \in Charges, FailCharge(c) PROVE Creation'
  BY <1>4 DEF FailCharge, Leave
<1>5. ASSUME NEW c \in Charges, ProviderMoves(c) PROVE Creation'
  <2>1. \A d \in Charges : order[d] # None => order'[d] # None
    BY <1>5, MoveTable DEF ProviderMoves
  <2> QED
    BY <1>5, <2>1 DEF ProviderMoves, rows
<1>6. ASSUME NEW c \in Charges, FinishException(c) PROVE Creation'
  BY <1>6 DEF FinishException
<1>7. ASSUME NEW q \in Procs, ReadStatus(q) \/ UpdateLost(q) \/ Detect(q) \/ Abort(q) \/ Ignore(q)
      PROVE  Creation'
  <2>1. UNCHANGED <<status, linked, order>>
    BY <1>7 DEF ReadStatus, UpdateLost, Detect, Abort, Ignore, rows
  <2>2. Leave(q) \/ pc' = [pc EXCEPT ![q] = "checked"]
    BY <1>7 DEF ReadStatus, UpdateLost, Detect, Abort, Ignore
  <2> QED
    BY <2>1, <2>2 DEF Leave
<1>8. ASSUME NEW q \in Procs, UpdateStatus(q) PROVE Creation'
  <2>1. on[q] \in Charges /\ order[on[q]] # None /\ (on[q] = q \/ on[q] \in linked) /\ saw[q] # None
    BY <1>8 DEF UpdateStatus, Answers, Applying
  <2>2. pc[on[q]] \notin {"new", "asserted", "refused", "calling", "failing"}
    BY <1>8, <2>1 DEF UpdateStatus, Known
  <2> QED
    BY <1>8, <2>1, <2>2 DEF UpdateStatus, Goto
<1>9. ASSUME NEW q \in Procs, SettleApproved(q) PROVE Creation'
  BY <1>9 DEF SettleApproved, Goto
<1>10. ASSUME NEW q \in Callers, NEW c \in Charges, Refresh(q, c) \/ Reconcile(q, c) \/ Cancel(q, c)
       PROVE  Creation'
  BY <1>10 DEF Refresh, Reconcile, Page, Listed, Cancel, Fetch, rows, OrderStates
<1>11. ASSUME NEW e \in Events, Accept(e) PROVE Creation'
  BY <1>11 DEF Accept, rows
<1>12. ASSUME NEW q \in Callers, NEW e \in Events, Process(q, e) \/ FindNothing(q, e) PROVE Creation'
  BY <1>12 DEF Process, FindNothing, Fetch, rows
<1>13. ASSUME NEW m \in Manuals, Confirm(m) \/ Reverse(m) PROVE Creation'
  BY <1>13 DEF Confirm, Reverse
<1>14. ASSUME NEW q \in Callers, NEW c \in Charges, CheckFails(q, c) PROVE Creation'
  BY <1>14 DEF CheckFails
<1>15. CASE UNCHANGED chargeVars
  BY <1>15 DEF chargeVars
<1> QED
  BY <1>1, <1>2, <1>3, <1>4, <1>5, <1>6, <1>7, <1>8, <1>9, <1>10, <1>11, <1>12, <1>13, <1>14, <1>15
     DEF Next, Create, Apply

(* Who writes a status: a request that creates its charge or gives it up,    *)
(* one that applies an answer along the table, and manual payments.          *)
Creates  == \E c \in Charges : /\ status[c] = None /\ Rivals(Target[c]) = {}
                               /\ status' = [status EXCEPT ![c] = "CREATED"] /\ linked' = linked
GivesUp  == \E c \in Charges : /\ status[c] = "CREATED" /\ c \notin linked
                               /\ status' = [status EXCEPT ![c] = "FAILED"] /\ linked' = linked
Answered == \E p \in Procs : /\ on[p] \in Charges /\ status[on[p]] # None
                             /\ saw[p] = status[on[p]] \/ saw[p] \in Transitions[status[on[p]]]
                             /\ status' = [status EXCEPT ![on[p]] = saw[p]] /\ linked' = linked \cup {on[p]}
ByHand   == \E m \in Manuals, s \in {"APPROVED", "CANCELLED"} :
              status' = [status EXCEPT ![m] = s] /\ linked' = linked

LEMMA StatusWrites ==
  ASSUME TypeOK, Carried, [Next]_chargeVars
  PROVE  UNCHANGED <<status, linked>> \/ Creates \/ GivesUp \/ Answered \/ ByHand
<1> USE RowsAssumption DEF TypeOK, Types, Carried, Procs
<1>1. ASSUME NEW c \in Charges, CreateCharge(c) PROVE Creates
  BY <1>1 DEF CreateCharge, Creation, Creates
<1>2. ASSUME NEW c \in Charges, FailCharge(c) PROVE GivesUp
  BY <1>2 DEF FailCharge, Creation, GivesUp
<1>3. ASSUME NEW q \in Procs, UpdateStatus(q) PROVE Answered
  <2>1. on[q] \in Charges /\ status[on[q]] # None
    BY <1>3 DEF UpdateStatus, Answers, Applying, Known
  <2>2. saw[q] = status[on[q]] \/ saw[q] \in Transitions[status[on[q]]]
    BY <1>3 DEF UpdateStatus, Compared
  <2> QED
    BY <1>3, <2>1, <2>2 DEF UpdateStatus, Answered
<1>4. ASSUME NEW m \in Manuals, Confirm(m) \/ Reverse(m) PROVE ByHand
  <2>1. \E s \in {"APPROVED", "CANCELLED"} :
          status' = [status EXCEPT ![m] = s] /\ linked' = linked
    BY <1>4 DEF Confirm, Reverse
  <2> QED
    BY <2>1 DEF ByHand
<1>5. ASSUME \A c \in Charges : ~CreateCharge(c) /\ ~FailCharge(c), \A q \in Procs : ~UpdateStatus(q),
             \A m \in Manuals : ~Confirm(m) /\ ~Reverse(m)
      PROVE  UNCHANGED <<status, linked>>
  BY <1>5 DEF Next, Create, Apply, AssertTarget, CreateRefused, ProviderCreates, ProviderThrows, ProviderMoves,
       FinishException, ReadStatus, UpdateLost, SettleApproved, Detect, Abort, Refresh, Reconcile, CheckFails, Cancel, Accept,
       Process, FindNothing, Ignore, Fetch, rows, chargeVars
<1> QED
  BY <1>1, <1>2, <1>3, <1>4, <1>5

(* What a request holds: nothing, what it held, or an answer just given.     *)
Holds(p) ==
  \/ on'[p] = None
  \/ /\ on'[p] = on[p] /\ saw'[p] = saw[p]
     /\ pc'[p] = "checked" => pc[p] = "checked" /\ cur'[p] = cur[p]
     /\ pc'[p] \in {"settling", "detecting"} => pc[p] \in {"settling", "detecting"} \/ on[p] \in linked'
  \/ /\ on'[p] = on[p] /\ saw'[p] = saw[p] /\ pc'[p] = "checked"
     /\ saw[p] = cur'[p] \/ saw[p] \in Transitions[cur'[p]]
  \/ /\ on'[p] = p /\ p \in Charges /\ pc[p] = "calling" /\ pc'[p] = "fetched"
     /\ order'[p] = "created" /\ saw'[p] = MapPointOrder["created"]
  \/ /\ on'[p] \in linked /\ order'[on'[p]] \in OrderStates /\ pc'[p] = "fetched"
     /\ saw'[p] = MapPointOrder[order'[on'[p]]]

LEMMA RequestMoves ==
  ASSUME TypeOK, [Next]_chargeVars, NEW p \in Procs
  PROVE  Holds(p)
<1> USE RowsAssumption DEF TypeOK, Types, Procs
<1>1. ASSUME NEW c \in Charges, AssertTarget(c) \/ CreateCharge(c) \/ CreateRefused(c) \/ ProviderThrows(c)
      PROVE  Holds(p)
  <2>1. PICK where \in {"refused", "asserted", "calling", "failing"} : Goto(c, where)
    BY <1>1 DEF AssertTarget, CreateCharge, CreateRefused, ProviderThrows
  <2> QED
    BY <2>1 DEF Goto, Holds
<1>2. ASSUME NEW c \in Charges, ProviderCreates(c) PROVE Holds(p)
  BY <1>2 DEF ProviderCreates, Holds
<1>3. ASSUME NEW c \in Charges, ProviderMoves(c) \/ FinishException(c) PROVE Holds(p)
  BY <1>3 DEF ProviderMoves, FinishException, Holds
<1>4. ASSUME NEW q \in Procs, FailCharge(q) \/ UpdateLost(q) \/ Detect(q) \/ Abort(q) \/ Ignore(q)
      PROVE  Holds(p)
  <2>1. Leave(q)
    BY <1>4 DEF FailCharge, UpdateLost, Detect, Abort, Ignore
  <2> QED
    BY <2>1 DEF Leave, Holds
<1>5. ASSUME NEW q \in Procs, ReadStatus(q) PROVE Holds(p)
  <2>1. CASE Leave(q)
    BY <2>1 DEF Leave, Holds
  <2>2. CASE ~Leave(q)
    BY <1>5, <2>2 DEF ReadStatus, Holds
  <2> QED
    BY <2>1, <2>2
<1>6. ASSUME NEW q \in Procs, UpdateStatus(q) \/ SettleApproved(q) PROVE Holds(p)
  <2>1. PICK where \in {"settling", "detecting"} : Goto(q, where)
    BY <1>6 DEF UpdateStatus, SettleApproved
  <2>2. pc[q] = "settling" \/ on[q] \in linked'
    BY <1>6 DEF UpdateStatus, SettleApproved
  <2> QED
    BY <2>1, <2>2 DEF Goto, Holds
<1>7. ASSUME NEW q \in Callers, NEW c \in linked, NEW e, NEW state \in OrderStates, Fetch(q, c, e, state),
             order'[c] = state
      PROVE  Holds(p)
  BY <1>7 DEF Fetch, Holds
<1>8. ASSUME NEW q \in Callers, NEW c \in Charges, Refresh(q, c) \/ Reconcile(q, c) \/ Cancel(q, c)
      PROVE  Holds(p)
  <2>1. c \in linked /\ order[c] \in OrderStates
    BY <1>8 DEF Refresh, Reconcile, Page, Listed, Cancel, Creation
  <2>2. PICK state \in OrderStates : Fetch(q, c, None, state) /\ order'[c] = state
    BY <1>8, <2>1 DEF Refresh, Reconcile, Cancel, OrderStates
  <2> QED
    BY <1>7, <2>1, <2>2
<1>9. ASSUME NEW e \in Events, Accept(e) PROVE Holds(p)
  BY <1>9 DEF Accept, Holds
<1>10. ASSUME NEW q \in Callers, NEW e \in Events, Process(q, e) PROVE Holds(p)
  <2>1. event[e].about \in linked /\ order[event[e].about] \in OrderStates /\ order' = order
    BY <1>10 DEF Process, Creation
  <2> QED
    BY <1>7, <1>10, <2>1 DEF Process
<1>11. ASSUME NEW q \in Callers, NEW e \in Events, FindNothing(q, e) PROVE Holds(p)
  BY <1>11 DEF FindNothing, Holds
<1>12. ASSUME NEW m \in Manuals, Confirm(m) \/ Reverse(m) PROVE Holds(p)
  BY <1>12 DEF Confirm, Reverse, Holds
<1>13. CASE UNCHANGED chargeVars
  BY <1>13 DEF chargeVars, Holds
<1>14. ASSUME NEW q \in Callers, NEW c \in Charges, CheckFails(q, c) PROVE Holds(p)
  BY <1>14 DEF CheckFails, Holds
<1> QED
  BY <1>1, <1>2, <1>3, <1>4, <1>5, <1>6, <1>8, <1>9, <1>10, <1>11, <1>12, <1>13, <1>14 DEF Next, Create, Apply

(* An order is created once and then only moves on.                          *)
LEMMA OrderMoves ==
  ASSUME TypeOK, [Next]_chargeVars, NEW c \in Charges
  PROVE  \/ order'[c] = order[c]
         \/ pc[c] = "calling" /\ order'[c] = "created"
         \/ order[c] \in OrderStates /\ order'[c] \in Moves(order[c])
<1> USE RowsAssumption DEF TypeOK, Types, Procs
<1>1. ASSUME NEW d \in Charges, ProviderCreates(d) \/ ProviderThrows(d)
      PROVE  order'[c] = order[c] \/ (pc[c] = "calling" /\ order'[c] = "created")
  BY <1>1 DEF ProviderCreates, ProviderThrows
<1>2. ASSUME NEW d \in Charges, ProviderMoves(d)
      PROVE  order'[c] = order[c] \/ (order[c] \in OrderStates /\ order'[c] \in Moves(order[c]))
  BY <1>2 DEF ProviderMoves
<1>3. ASSUME NEW q \in Callers, NEW d \in Charges, Cancel(q, d)
      PROVE  order'[c] = order[c] \/ (order[c] \in OrderStates /\ order'[c] \in Moves(order[c]))
  BY <1>3 DEF Cancel, Creation
<1>4. ASSUME \A d \in Charges : ~ProviderCreates(d) /\ ~ProviderThrows(d) /\ ~ProviderMoves(d),
             \A q \in Callers, d \in Charges : ~Cancel(q, d)
      PROVE  order' = order
  BY <1>4 DEF Next, Create, Apply, AssertTarget, CreateCharge, CreateRefused, FailCharge, FinishException, ReadStatus,
       UpdateStatus, UpdateLost, SettleApproved, Detect, Abort, Refresh, Reconcile, CheckFails, Accept, Process, FindNothing,
       Ignore, Confirm, Reverse, chargeVars
<1> QED
  BY <1>1, <1>2, <1>3, <1>4

LEMMA CarriedStep ==
  ASSUME TypeOK, TypeOK', Carried, [Next]_chargeVars
  PROVE  Carried'
<1> USE RowsAssumption DEF TypeOK, Types, Procs, Rows
<1>1. Known'
  <2>1. ASSUME NEW r \in Rows, status[r] # None PROVE status'[r] # None
    <3>1. CASE Answered
      <4>1. PICK p \in Procs : on[p] \in Charges /\ status' = [status EXCEPT ![on[p]] = saw[p]]
        BY <3>1 DEF Answered
      <4> QED
        BY <2>1, <4>1 DEF Answers
    <3>2. CASE UNCHANGED <<status, linked>> \/ Creates \/ GivesUp \/ ByHand
      BY <2>1, <3>2 DEF Creates, GivesUp, ByHand, Status, Active
    <3> QED
      BY <3>1, <3>2, StatusWrites
  <2>2. ASSUME NEW p \in Procs, on'[p] # None PROVE status'[on'[p]] # None
    <3>1. Holds(p)
      BY RequestMoves
    <3>2. on'[p] \in Charges /\ status[on'[p]] # None
      BY <2>2, <3>1 DEF Holds, Known, Carried, Creation, Status, Active
    <3> QED
      BY <2>1, <3>2
  <2> QED
    BY <2>2 DEF Known
<1>2. ManualRows'
  BY StatusWrites DEF Carried, ManualRows, Creates, GivesUp, Answered, ByHand
<1>3. Compared'
  <2>1. ASSUME NEW p \in Procs, pc'[p] = "checked"
        PROVE  saw'[p] = cur'[p] \/ saw'[p] \in Transitions[cur'[p]]
    <3>1. on'[p] # None
      BY <2>1 DEF Answers, Applying
    <3> QED
      BY <2>1, <3>1, RequestMoves DEF Holds, Compared, Carried
  <2> QED
    BY <2>1 DEF Compared
<1>4. LinkedFirst'
  <2>1. linked \subseteq linked'
    BY StatusWrites DEF Creates, GivesUp, Answered, ByHand
  <2>2. ASSUME NEW p \in Procs, pc'[p] \in {"settling", "detecting"} PROVE on'[p] \in linked'
    <3>1. on'[p] # None /\ Holds(p)
      BY <2>2, RequestMoves DEF Answers, Applying
    <3> QED
      BY <2>1, <2>2, <3>1 DEF Holds, LinkedFirst, Carried
  <2> QED
    BY <2>2 DEF LinkedFirst
<1> QED
  BY <1>1, <1>2, <1>3, <1>4 DEF Carried

LEMMA SeenStep ==
  ASSUME TypeOK, TypeOK', Carried, Seen, [Next]_chargeVars
  PROVE  Seen'
<1> USE RowsAssumption DEF TypeOK, Types, Procs
<1> SUFFICES ASSUME NEW p \in Procs, on'[p] # None
             PROVE  Agrees(saw'[p], order'[on'[p]])
  BY DEF Seen
<1>1. Holds(p)
  BY RequestMoves
<1>2. ASSUME NEW o \in OrderStates PROVE Agrees(MapPointOrder[o], o)
  BY AnswerTable DEF Agrees
<1>3. CASE on'[p] = on[p] /\ saw'[p] = saw[p]
  <2>1. on[p] \in Charges /\ order[on[p]] \in OrderStates /\ Agrees(saw[p], order[on[p]])
    BY <1>3 DEF Answers, Seen
  <2>2. pc[on[p]] # "calling"
    <3>1. pc[p] \in Applying /\ (on[p] = p \/ on[p] \in linked)
      BY <2>1 DEF Answers, Rows
    <3> QED
      BY <2>1, <3>1 DEF Creation, Applying
  <2>3. order'[on[p]] = order[on[p]] \/ order'[on[p]] \in Moves(order[on[p]])
    BY <2>1, <2>2, OrderMoves
  <2> QED
    BY <1>3, <2>1, <2>3, MoveTable DEF Agrees
<1>4. CASE order'[on'[p]] \in OrderStates /\ saw'[p] = MapPointOrder[order'[on'[p]]]
  BY <1>2, <1>4
<1>5. "created" \in OrderStates
  BY DEF OrderStates
<1> QED
  BY <1>1, <1>3, <1>4, <1>5 DEF Holds

LEMMA WrittenStep ==
  ASSUME TypeOK, TypeOK', Carried, Seen, Seen', Written, [Next]_chargeVars
  PROVE  Written'
<1> USE RowsAssumption DEF TypeOK, Types, Procs, Rows
<1>1. ASSUME NEW c \in linked, order[c] \in Ended PROVE order'[c] = order[c]
  BY <1>1, OrderMoves, MoveTable DEF Ended, OrderStates, Creation
<1>2. CASE UNCHANGED <<status, linked>> \/ Creates \/ GivesUp \/ ByHand
  <2> SUFFICES ASSUME NEW c \in linked, status'[c] \in Bad PROVE order'[c] \in Ended
    BY <1>2 DEF Written, Creates, GivesUp, ByHand
  <2>1. status'[c] = status[c]
    BY <1>2 DEF Creates, GivesUp, ByHand, Creation
  <2> QED
    BY <1>1, <2>1 DEF Written
<1>3. CASE Answered
  <2>1. PICK p \in Procs : /\ on[p] \in Charges /\ status' = [status EXCEPT ![on[p]] = saw[p]]
                           /\ linked' = linked \cup {on[p]}
    BY <1>3 DEF Answered
  <2>2. saw[p] \in Bad => order[on[p]] \in Ended
    BY <2>1 DEF Seen, Agrees
  <2>3. pc[on[p]] # "calling"
    BY <2>1 DEF Answers, Creation, Applying
  <2>4. order[on[p]] \in Ended => order'[on[p]] = order[on[p]]
    BY <2>1, <2>3, OrderMoves, MoveTable DEF Ended, OrderStates
  <2>5. ASSUME NEW c \in linked', status'[c] \in Bad PROVE order'[c] \in Ended
    BY <1>1, <2>1, <2>2, <2>4, <2>5 DEF Written
  <2> QED
    BY <2>5 DEF Written
<1> QED
  BY <1>2, <1>3, StatusWrites

(* Only an approved answer settles, and it came from an accredited order.    *)
LEMMA SettledStep ==
  ASSUME TypeOK, TypeOK', Carried, Seen, SettledByProvider, [Next]_chargeVars
  PROVE  SettledByProvider'
<1> USE RowsAssumption DEF TypeOK, Types, Procs, Rows
<1>1. linked \subseteq linked'
  BY StatusWrites DEF Creates, GivesUp, Answered, ByHand
<1>2. ASSUME NEW c \in linked, order[c] \in Money PROVE order'[c] \in Money
  BY <1>2, OrderMoves, MoveTable DEF Money, OrderStates, Creation
<1>3. ASSUME NEW c \in Charges PROVE payment'[c] = payment[c] \/ (c \in linked /\ order[c] \in Money)
  <2>1. CASE \E p \in Procs : SettleApproved(p)
    <3>1. PICK p \in Procs : SettleApproved(p)
      BY <2>1
    <3>2. Settles(p) => on[p] \in linked /\ order[on[p]] \in Money
      BY <3>1 DEF SettleApproved, Settles, Answers, Applying, LinkedFirst, Carried, Seen, Agrees, Good
    <3> QED
      BY <3>1, <3>2 DEF SettleApproved
  <2>2. CASE \E m \in Manuals : Confirm(m) \/ Reverse(m)
    BY <2>2 DEF Confirm, Reverse
  <2>3. ASSUME \A p \in Procs : ~SettleApproved(p), \A m \in Manuals : ~Confirm(m) /\ ~Reverse(m)
        PROVE  payment' = payment
    BY <2>3 DEF Next, Create, Apply, AssertTarget, CreateCharge, CreateRefused, ProviderCreates, ProviderThrows,
       ProviderMoves, FailCharge, FinishException, ReadStatus, UpdateStatus, UpdateLost, Detect, Abort, Refresh,
       Reconcile, CheckFails, Cancel, Accept, Process, FindNothing, Ignore, Fetch, rows, chargeVars
  <2> QED
    BY <2>1, <2>2, <2>3
<1> QED
  BY <1>1, <1>2, <1>3 DEF SettledByProvider

(* A status becomes active only by CREATED, and then its target has no       *)
(* active row.                                                               *)
LEMMA OneActiveStep ==
  ASSUME TypeOK, Carried, OneActiveCharge, [Next]_chargeVars
  PROVE  OneActiveCharge'
<1> USE RowsAssumption DEF TypeOK, Types, Procs, Rows
<1>1. CASE Creates
  <2>1. PICK c \in Charges : Rivals(Target[c]) = {} /\ status' = [status EXCEPT ![c] = "CREATED"]
    BY <1>1 DEF Creates
  <2>2. \A r \in Rows : Target[r] = Target[c] => status[r] \notin Active
    BY <2>1 DEF Rivals
  <2> QED
    BY <2>1, <2>2 DEF OneActiveCharge
<1>2. ASSUME \A r \in Rows : status'[r] \in Active => status[r] \in Active PROVE OneActiveCharge'
  BY <1>2 DEF OneActiveCharge
<1>3. CASE UNCHANGED <<status, linked>> \/ GivesUp \/ ByHand
  BY <1>2, <1>3 DEF GivesUp, ByHand, Active
<1>4. CASE Answered
  <2>1. PICK p \in Procs : /\ on[p] \in Charges /\ status[on[p]] \in Status
                           /\ saw[p] = status[on[p]] \/ saw[p] \in Transitions[status[on[p]]]
                           /\ status' = [status EXCEPT ![on[p]] = saw[p]]
    BY <1>4 DEF Answered
  <2>2. saw[p] \in Active => status[on[p]] \in Active
    BY <2>1, TransitionTable
  <2> QED
    BY <1>2, <2>1, <2>2
<1> QED
  BY <1>1, <1>3, <1>4, StatusWrites

----------------------------------------------------------------------------
(* The theorems.                                                             *)

LEMMA Start == Init => IInv
<1> SUFFICES ASSUME Init PROVE IInv
  OBVIOUS
<1> USE RowsAssumption DEF Init, Procs, Rows
<1>1. Types
  BY DEF Types, NoEvent
<1>2. Answers /\ Creation
  BY DEF Answers, Creation, Applying
<1>3. Carried /\ Seen /\ Written /\ SettledByProvider
  BY DEF Carried, Known, ManualRows, Compared, LinkedFirst, Seen, Written, SettledByProvider
<1>4. OneActiveCharge
  BY DEF OneActiveCharge, Status
<1> QED
  BY <1>1, <1>2, <1>3, <1>4 DEF IInv, TypeOK

LEMMA Step == IInv /\ [Next]_chargeVars => IInv'
<1> SUFFICES ASSUME IInv, [Next]_chargeVars PROVE IInv'
  OBVIOUS
<1>1. TypeOK'
  BY TypesStep, AnswersStep, CreationStep DEF IInv, Carried, TypeOK
<1>2. Carried'
  BY <1>1, CarriedStep DEF IInv
<1>3. Seen'
  BY <1>1, SeenStep DEF IInv
<1>4. Written' /\ SettledByProvider'
  BY <1>1, <1>3, WrittenStep, SettledStep DEF IInv
<1>5. OneActiveCharge'
  BY OneActiveStep DEF IInv
<1> QED
  BY <1>1, <1>2, <1>3, <1>4, <1>5 DEF IInv

(* The strengthening every theorem below rests on.                           *)
THEOREM Inductive == Spec => []IInv
  BY Start, Step, PTL DEF Spec

(* Every reachable state is well typed, and a charge is unknown to other     *)
(* requests until its provider order is linked (createAutomatic).            *)
THEOREM TypeCorrect == Spec => []TypeOK
<1>1. IInv => TypeOK
  BY DEF IInv
<1> QED
  BY <1>1, Inductive, PTL

(* createAutomatic and ManualPaymentService: two rows of a target are never  *)
(* active at once.                                                           *)
THEOREM OneActive == Spec => []OneActiveCharge
<1>1. IInv => OneActiveCharge
  BY DEF IInv
<1> QED
  BY <1>1, Inductive, PTL

(* settleApproved: a charge is settled only once its order is accredited.    *)
THEOREM PaidForReal == Spec => []SettledByProvider
<1>1. IInv => SettledByProvider
  BY DEF IInv
<1> QED
  BY <1>1, Inductive, PTL

(* applyProviderOrder never writes off a linked charge the customer paid.    *)
THEOREM ApprovalKept == Spec => []NoApprovalLost
<1>1. IInv => NoApprovalLost
  BY RowsAssumption, StatusParts DEF IInv, Written, NoApprovalLost, TypeOK, Types, Creation, Rows, Good, Money, Ended
<1> QED
  BY <1>1, Inductive, PTL

(* applyProviderOrder: a status changes only along charge-status.ts,         *)
(* whatever the order in which the answers arrive.                           *)
THEOREM Lifecycle == Spec => ChargeLifecycle
<1>1. ASSUME IInv, [Next]_chargeVars, NEW c \in Charges, status'[c] # status[c]
      PROVE  IF status[c] = None THEN status'[c] = "CREATED" ELSE status'[c] \in Transitions[status[c]]
  <2> USE RowsAssumption DEF IInv, TypeOK, Types, Rows
  <2>1. CASE Creates
    BY <1>1, <2>1 DEF Creates
  <2>2. CASE GivesUp
    <3>1. "FAILED" \in Transitions["CREATED"] /\ None # "CREATED"
      BY DEF Transitions, Status, Active
    <3> QED
      BY <1>1, <2>2, <3>1 DEF GivesUp
  <2>3. CASE Answered
    BY <1>1, <2>3 DEF Answered
  <2>4. CASE ByHand
    BY <1>1, <2>4 DEF ByHand
  <2> QED
    BY <1>1, <2>1, <2>2, <2>3, <2>4, StatusWrites
<1>2. IInv /\ [Next]_chargeVars =>
        [\A c \in Charges :
           status'[c] # status[c] =>
             IF status[c] = None THEN status'[c] = "CREATED"
                                 ELSE status'[c] \in Transitions[status[c]]]_chargeVars
  BY <1>1
<1> QED
  BY <1>2, Inductive, PTL DEF Spec, ChargeLifecycle

----------------------------------------------------------------------------
(* Duplicates.  Sums over sets, and induction for sets of numbers.           *)
LEMMA ByInduction ==
  ASSUME NEW T, 0 \in T, \A n \in Nat : n \in T => n + 1 \in T
  PROVE  \A n \in Nat : n \in T
<1>1. PICK R : R = OpToRel(<, Nat)
  OBVIOUS
<1>2. IsWellFoundedOn(R, Nat)
  BY <1>1, NatLessThanWellFounded
<1>3. SUFFICES ASSUME NEW rest, rest = Nat \ T, rest # {} PROVE FALSE
  OBVIOUS
<1>4. PICK n \in rest : \A m \in rest : ~(<<m, n>> \in R)
  BY <1>2, <1>3, WFMin
<1>5. n \in Nat /\ n # 0 /\ n - 1 \in Nat /\ n - 1 < n
  BY <1>3, <1>4
<1>6. n - 1 \notin rest
  BY <1>1, <1>4, <1>5 DEF OpToRel
<1>7. (n - 1) + 1 \in T
  BY <1>3, <1>5, <1>6
<1> QED
  BY <1>3, <1>4, <1>5, <1>7

(* A sum takes the elements of a set one after the other.                    *)
First(s) == CHOOSE x \in s : TRUE
Sums(g, f, S) == g = [s \in SUBSET S |-> IF s = {} THEN 0 ELSE f[First(s)] + g[s \ {First(s)}]]

SumOver(f, S) == (CHOOSE g : Sums(g, f, S))[S]

LEMMA PaidIsSum ==
  ASSUME NEW t, NEW Kind
  PROVE  Paid(t, Kind) = SumOver(amount, {r \in Rows : Target[r] = t /\ payment[r] \in Kind})
  BY DEF Paid, MapThenSumSet, MapThenFoldSet, SumOver, Sums, First

LEMMA SumExists ==
  ASSUME NEW f, NEW S, IsFiniteSet(S)
  PROVE  \E g : Sums(g, f, S)
<1>1. PICK Small : Small = [n \in Nat |-> {s \in SUBSET S : Cardinality(s) <= n}]
  OBVIOUS
<1>2. PICK T : T = {n \in Nat : \E g : g = [s \in Small[n] |-> IF s = {} THEN 0 ELSE f[First(s)] + g[s \ {First(s)}]]}
  OBVIOUS
<1>3. \A s \in SUBSET S : IsFiniteSet(s) /\ Cardinality(s) \in Nat /\ Cardinality(s) <= Cardinality(S)
  BY FS_Subset, FS_CardinalityType
<1>4. ASSUME NEW s \in SUBSET S, s # {}
      PROVE  First(s) \in s /\ s \ {First(s)} \in SUBSET S /\ Cardinality(s \ {First(s)}) = Cardinality(s) - 1
  <2>1. First(s) \in s
    BY <1>4 DEF First
  <2> QED
    BY <1>3, <2>1, FS_RemoveElement
<1>5. 0 \in T
  <2>1. PICK g : g = [s \in Small[0] |-> 0]
    OBVIOUS
  <2>2. \A s \in Small[0] : s = {}
    BY <1>1, <1>3, FS_EmptySet
  <2>3. g = [s \in Small[0] |-> IF s = {} THEN 0 ELSE f[First(s)] + g[s \ {First(s)}]]
    BY <2>1, <2>2
  <2> QED
    BY <1>2, <2>3
<1>6. ASSUME NEW n \in Nat, n \in T PROVE n + 1 \in T
  <2>1. PICK g : g = [s \in Small[n] |-> IF s = {} THEN 0 ELSE f[First(s)] + g[s \ {First(s)}]]
    BY <1>2, <1>6
  <2>2. PICK h : h = [s \in Small[n + 1] |-> IF s = {} THEN 0 ELSE f[First(s)] + g[s \ {First(s)}]]
    OBVIOUS
  <2>3. Small[n] \subseteq Small[n + 1] /\ Small[n + 1] \subseteq SUBSET S
    BY <1>1, <1>3
  <2>4. \A s \in Small[n] : h[s] = g[s]
    BY <2>1, <2>2, <2>3
  <2>5. \A s \in Small[n + 1] : s # {} => s \ {First(s)} \in Small[n]
    BY <1>1, <1>3, <1>4, <2>3
  <2>6. h = [s \in Small[n + 1] |-> IF s = {} THEN 0 ELSE f[First(s)] + h[s \ {First(s)}]]
    BY <2>2, <2>4, <2>5
  <2>7. n + 1 \in Nat
    OBVIOUS
  <2> QED
    BY <1>2, <2>6, <2>7
<1>7. Cardinality(S) \in T
  <2>1. Cardinality(S) \in Nat
    BY FS_CardinalityType
  <2> QED
    BY <1>5, <1>6, <2>1, ByInduction
<1>8. Small[Cardinality(S)] = SUBSET S
  BY <1>1, <1>3
<1> QED
  BY <1>2, <1>7, <1>8 DEF Sums

(* A sum of natural numbers is none less than any of them.                   *)
LEMMA SumBounds ==
  ASSUME NEW f, NEW S, IsFiniteSet(S), \A x \in S : f[x] \in Nat
  PROVE  SumOver(f, S) \in Nat /\ \A x \in S : f[x] <= SumOver(f, S)
<1>1. PICK g : g = (CHOOSE h : Sums(h, f, S))
  OBVIOUS
<1>2. Sums(g, f, S)
  BY <1>1, SumExists
<1>3. \A s \in SUBSET S : g[s] = IF s = {} THEN 0 ELSE f[First(s)] + g[s \ {First(s)}]
  BY <1>2 DEF Sums
<1>4. PICK T : T = {n \in Nat : \A s \in SUBSET S : Cardinality(s) = n => g[s] \in Nat /\ \A x \in s : f[x] <= g[s]}
  OBVIOUS
<1>5. \A s \in SUBSET S : IsFiniteSet(s) /\ Cardinality(s) \in Nat
  BY FS_Subset, FS_CardinalityType
<1>6. 0 \in T
  <2>1. \A s \in SUBSET S : Cardinality(s) = 0 => s = {}
    BY <1>5, FS_EmptySet
  <2>2. {} \in SUBSET S /\ g[{}] = 0
    BY <1>3
  <2>3. \A s \in SUBSET S : Cardinality(s) = 0 => g[s] \in Nat /\ \A x \in s : f[x] <= g[s]
    BY <2>1, <2>2
  <2> QED
    BY <1>4, <2>3
<1>7. ASSUME NEW n \in Nat, n \in T PROVE n + 1 \in T
  <2>1. SUFFICES ASSUME NEW s \in SUBSET S, Cardinality(s) = n + 1 PROVE g[s] \in Nat /\ \A x \in s : f[x] <= g[s]
    BY <1>4
  <2>2. s # {}
    BY <2>1, FS_EmptySet
  <2>3. PICK y \in s : y = First(s)
    BY <2>2 DEF First
  <2>4. g[s] = f[y] + g[s \ {y}] /\ f[y] \in Nat
    BY <1>3, <2>2, <2>3
  <2>5. s \ {y} \in SUBSET S /\ Cardinality(s \ {y}) = n
    <3>1. IsFiniteSet(s) /\ Cardinality(s) \in Nat
      BY <1>5
    <3>2. Cardinality(s \ {y}) = Cardinality(s) - 1
      BY <2>3, <3>1, FS_RemoveElement
    <3> QED
      BY <2>1, <3>1, <3>2
  <2>6. g[s \ {y}] \in Nat /\ \A x \in s \ {y} : f[x] <= g[s \ {y}]
    BY <1>4, <1>7, <2>5
  <2> QED
    BY <2>4, <2>6
<1>8. Cardinality(S) \in T
  BY <1>5, <1>6, <1>7, ByInduction
<1>9. g[S] \in Nat /\ \A x \in S : f[x] <= g[S]
  BY <1>4, <1>8
<1>10. SumOver(f, S) = g[S]
  BY <1>1 DEF SumOver
<1> QED
  BY <1>9, <1>10

(* A charge that is approved is settled, or is about to be.                  *)
Settling ==
  \A c \in Charges : status[c] = "APPROVED" =>
    payment[c] = "valid" \/ \E p \in Procs : on[p] = c /\ pc[p] = "settling" /\ saw[p] = "APPROVED"
AmountsKept   == \A c \in Charges : payment[c] # "cancelled" /\ (status[c] # None => amount[c] = Amount[c])
FinitelyPaid  == IsFiniteSet({r \in Rows : payment[r] # "none"})
WholeBalances == \A c \in Charges : Amount[c] = Total[Target[c]]
DupInv ==
  /\ IInv /\ AmountsKept /\ FinitelyPaid /\ WholeBalances
  /\ "crash" \in Failures \/ (Settling /\ DuplicatesReported)

(* A request that settles or looks for duplicates does this next.            *)
LEMMA NoOtherStep ==
  ASSUME TypeOK, "crash" \notin Failures, [Next]_chargeVars, NEW p \in Procs, pc[p] \in {"settling", "detecting"}
  PROVE  SettleApproved(p) \/ Detect(p) \/ (pc'[p] = pc[p] /\ on'[p] = on[p] /\ saw'[p] = saw[p])
<1> USE RowsAssumption DEF TypeOK, Types, Procs
<1>1. ASSUME NEW c \in Charges, Create(c) \/ ProviderMoves(c) \/ FinishException(c)
      PROVE  pc'[p] = pc[p] /\ on'[p] = on[p] /\ saw'[p] = saw[p]
  <2>1. CASE ProviderMoves(c) \/ FinishException(c)
    BY <2>1 DEF ProviderMoves, FinishException
  <2>2. CASE Create(c)
    <3>1. pc[c] \in {"new", "asserted", "calling", "failing"} /\ p # c
      BY <2>2 DEF Create, AssertTarget, CreateCharge, CreateRefused, ProviderCreates, ProviderThrows, FailCharge
    <3> QED
      BY <2>2, <3>1 DEF Create, AssertTarget, CreateCharge, CreateRefused, ProviderCreates, ProviderThrows, FailCharge,
         Goto, Leave
  <2> QED
    BY <1>1, <2>1, <2>2
<1>2. ASSUME NEW q \in Procs, Apply(q) \/ Abort(q)
      PROVE  SettleApproved(p) \/ Detect(p) \/ (pc'[p] = pc[p] /\ on'[p] = on[p] /\ saw'[p] = saw[p])
  <2>1. CASE q = p
    BY <1>2, <2>1 DEF Apply, ReadStatus, UpdateStatus, UpdateLost, SettleApproved, Detect, Abort
  <2>2. CASE q # p
    <3>1. CASE UpdateStatus(q) \/ SettleApproved(q)
      BY <2>2, <3>1 DEF UpdateStatus, SettleApproved, Goto
    <3>2. CASE UpdateLost(q) \/ Detect(q) \/ Abort(q)
      BY <2>2, <3>2 DEF UpdateLost, Detect, Abort, Leave
    <3>3. CASE ReadStatus(q)
      <4>1. CASE Leave(q)
        BY <2>2, <4>1 DEF Leave
      <4>2. CASE ~Leave(q)
        BY <2>2, <3>3, <4>2 DEF ReadStatus
      <4> QED
        BY <4>1, <4>2
    <3> QED
      BY <1>2, <3>1, <3>2, <3>3 DEF Apply
  <2> QED
    BY <2>1, <2>2
<1>3. ASSUME NEW q \in Callers, pc[q] \in {"idle", "ignoring"},
             \/ \E c \in Charges : Refresh(q, c) \/ Reconcile(q, c) \/ Cancel(q, c)
             \/ \E e \in Events : Process(q, e) \/ FindNothing(q, e)
             \/ Ignore(q)
      PROVE  pc'[p] = pc[p] /\ on'[p] = on[p] /\ saw'[p] = saw[p]
  <2>1. q # p
    BY <1>3
  <2>2. CASE \E c \in Charges : Refresh(q, c) \/ Reconcile(q, c) \/ Cancel(q, c)
    BY <2>1, <2>2 DEF Refresh, Reconcile, Cancel, Fetch
  <2>3. CASE \E e \in Events : Process(q, e) \/ FindNothing(q, e)
    BY <2>1, <2>3 DEF Process, FindNothing, Fetch
  <2>4. CASE Ignore(q)
    BY <2>1, <2>4 DEF Ignore, Leave
  <2> QED
    BY <1>3, <2>2, <2>3, <2>4
<1>4. ASSUME (\E e \in Events : Accept(e)) \/ (\E m \in Manuals : Confirm(m) \/ Reverse(m)) \/ UNCHANGED chargeVars
             \/ (\E q \in Callers, c \in Charges : CheckFails(q, c))
      PROVE  pc'[p] = pc[p] /\ on'[p] = on[p] /\ saw'[p] = saw[p]
  BY <1>4 DEF Accept, Confirm, Reverse, CheckFails, chargeVars
<1>5. \A q \in Callers, c \in Charges : Refresh(q, c) \/ Reconcile(q, c) \/ Cancel(q, c) => pc[q] = "idle"
  BY DEF Refresh, Reconcile, Cancel
<1>6. /\ \A q \in Callers, e \in Events : Process(q, e) \/ FindNothing(q, e) => pc[q] = "idle"
      /\ \A q \in Callers : Ignore(q) => pc[q] = "ignoring"
  BY DEF Process, FindNothing, Ignore
<1> QED
  BY <1>1, <1>2, <1>3, <1>4, <1>5, <1>6 DEF Next

(* Who writes a status.                                                      *)
LEMMA StatusWriters ==
  ASSUME TypeOK, [Next]_chargeVars
  PROVE  \/ status' = status
         \/ \E c \in Charges : CreateCharge(c) \/ FailCharge(c)
         \/ \E p \in Procs : UpdateStatus(p)
         \/ \E m \in Manuals : Confirm(m) \/ Reverse(m)
  BY DEF Next, Create, Apply, AssertTarget, CreateRefused, ProviderCreates, ProviderThrows, ProviderMoves,
     FinishException, ReadStatus, UpdateLost, SettleApproved, Detect, Abort, Refresh, Reconcile, CheckFails, Cancel, Accept,
     Process, FindNothing, Ignore, Fetch, rows, chargeVars

(* Who makes a row approved: an answer, which is settled next, or a manual   *)
(* payment.                                                                  *)
LEMMA ApprovedBy ==
  ASSUME TypeOK, Carried, [Next]_chargeVars, NEW r \in Rows, status'[r] = "APPROVED", status[r] # "APPROVED"
  PROVE  \/ r \in Charges /\ \E p \in Procs : /\ on'[p] = r /\ pc'[p] = "settling" /\ saw'[p] = "APPROVED"
         \/ r \in Manuals /\ Confirm(r)
<1> USE RowsAssumption DEF TypeOK, Types, Procs, Rows
<1>1. ASSUME NEW c \in Charges, CreateCharge(c) \/ FailCharge(c) PROVE FALSE
  BY <1>1 DEF CreateCharge, FailCharge
<1>2. ASSUME NEW p \in Procs, UpdateStatus(p)
      PROVE  r \in Charges /\ on'[p] = r /\ pc'[p] = "settling" /\ saw'[p] = "APPROVED"
  <2>1. on[p] \in Charges /\ status' = [status EXCEPT ![on[p]] = saw[p]]
    BY <1>2 DEF UpdateStatus, Answers, Applying
  <2>2. on[p] = r /\ saw[p] = "APPROVED"
    BY <2>1
  <2> QED
    BY <1>2, <2>1, <2>2 DEF UpdateStatus, Goto
<1>3. ASSUME NEW m \in Manuals, Confirm(m) \/ Reverse(m) PROVE r = m /\ Confirm(m)
  BY <1>3 DEF Confirm, Reverse
<1> QED
  BY <1>1, <1>2, <1>3, StatusWriters

(* Who writes a payment or an amount.                                        *)
LEMMA PaymentWrites ==
  ASSUME TypeOK, [Next]_chargeVars
  PROVE  \/ UNCHANGED <<payment, amount>>
         \/ \E c \in Charges : CreateCharge(c)
         \/ \E p \in Procs : SettleApproved(p)
         \/ \E m \in Manuals : Confirm(m) \/ Reverse(m)
  BY DEF Next, Create, Apply, AssertTarget, CreateRefused, ProviderCreates, ProviderThrows,
       ProviderMoves, FailCharge, FinishException, ReadStatus, UpdateStatus, UpdateLost, Detect, Abort, Refresh,
       Reconcile, CheckFails, Cancel, Accept, Process, FindNothing, Ignore, Fetch, rows, chargeVars

(* The amount of a charge is written with it, and no payment of a charge is  *)
(* ever cancelled.                                                           *)
LEMMA AmountsStep ==
  ASSUME TypeOK, AmountsKept, [Next]_chargeVars
  PROVE  AmountsKept'
<1> USE RowsAssumption DEF TypeOK, Types, Procs, Rows
<1>1. ASSUME NEW c \in Charges, status[c] = None, status'[c] # None
      PROVE  CreateCharge(c)
  <2>1. ASSUME NEW d \in Charges, FailCharge(d) PROVE FALSE
    BY <1>1, <2>1 DEF FailCharge, Creation, Status, Active
  <2>2. ASSUME NEW q \in Procs, UpdateStatus(q) PROVE FALSE
    <3>1. cur[q] # None /\ status[on[q]] = cur[q] /\ status' = [status EXCEPT ![on[q]] = saw[q]]
      BY <2>2 DEF UpdateStatus, Answers
    <3> QED
      BY <1>1, <3>1
  <2>3. ASSUME NEW m \in Manuals, Confirm(m) \/ Reverse(m) PROVE FALSE
    BY <1>1, <2>3 DEF Confirm, Reverse
  <2>4. ASSUME NEW d \in Charges, CreateCharge(d) PROVE d = c
    BY <1>1, <2>4 DEF CreateCharge
  <2> QED
    BY <1>1, <2>1, <2>2, <2>3, <2>4, StatusWriters
<1>2. SUFFICES ASSUME NEW c \in Charges
               PROVE  payment'[c] # "cancelled" /\ (status'[c] # None => amount'[c] = Amount[c])
  BY DEF AmountsKept
<1>3. payment[c] # "cancelled" /\ (status[c] # None => amount[c] = Amount[c])
  BY DEF AmountsKept
<1>4. CASE \E d \in Charges : CreateCharge(d)
  <2>1. PICK d \in Charges : CreateCharge(d)
    BY <1>4
  <2>2. payment' = payment /\ status' = [status EXCEPT ![d] = "CREATED"] /\ amount' = [amount EXCEPT ![d] = Amount[d]]
    BY <2>1 DEF CreateCharge
  <2> QED
    BY <1>3, <2>2
<1>5. CASE ~\E d \in Charges : CreateCharge(d)
  <2>1. status'[c] # None => amount[c] = Amount[c]
    BY <1>1, <1>3, <1>5
  <2>2. ASSUME NEW p \in Procs, SettleApproved(p) PROVE amount' = amount /\ payment'[c] # "cancelled"
    BY <1>3, <2>2 DEF SettleApproved
  <2>3. ASSUME NEW m \in Manuals, Confirm(m) \/ Reverse(m) PROVE amount'[c] = amount[c] /\ payment'[c] = payment[c]
    BY <2>3 DEF Confirm, Reverse
  <2> QED
    BY <1>3, <1>5, <2>1, <2>2, <2>3, PaymentWrites
<1> QED
  BY <1>4, <1>5

(* Every step pays one row at most.                                          *)
LEMMA FinitelyStep ==
  ASSUME TypeOK, FinitelyPaid, [Next]_chargeVars
  PROVE  FinitelyPaid'
<1> USE RowsAssumption DEF TypeOK, Types, Procs, Rows
<1>1. PICK paid : paid = {r \in Rows : payment[r] # "none"}
  OBVIOUS
<1>2. \E r \in Rows \cup {None} : \A x \in Rows : x # r /\ payment[x] = "none" => payment'[x] = "none"
  <2>1. ASSUME NEW p \in Procs, SettleApproved(p)
        PROVE  \A x \in Rows : x # on[p] /\ payment[x] = "none" => payment'[x] = "none"
    BY <2>1 DEF SettleApproved
  <2>2. ASSUME NEW p \in Procs PROVE on[p] \in Rows \cup {None}
    BY <2>2
  <2>3. ASSUME NEW m \in Manuals, Confirm(m) \/ Reverse(m)
        PROVE  \A x \in Rows : x # m /\ payment[x] = "none" => payment'[x] = "none"
    BY <2>3 DEF Confirm, Reverse
  <2>4. ASSUME NEW c \in Charges, CreateCharge(c) PROVE payment' = payment
    BY <2>4 DEF CreateCharge
  <2> QED
    BY <2>1, <2>2, <2>3, <2>4, PaymentWrites
<1>3. PICK r \in Rows \cup {None} : \A x \in Rows : x # r /\ payment[x] = "none" => payment'[x] = "none"
  BY <1>2
<1>4. {x \in Rows : payment'[x] # "none"} \subseteq paid \cup {r}
  BY <1>1, <1>3
<1>5. IsFiniteSet(paid \cup {r})
  BY <1>1, FS_AddElement DEF FinitelyPaid
<1> QED
  BY <1>4, <1>5, FS_Subset DEF FinitelyPaid

(* An approval settles the charge before the request leaves it.              *)
LEMMA SettlingStep ==
  ASSUME TypeOK, Carried, AmountsKept, Settling, "crash" \notin Failures, [Next]_chargeVars
  PROVE  Settling'
<1> USE RowsAssumption DEF TypeOK, Types, Procs, Rows
<1>1. SUFFICES ASSUME NEW c \in Charges, status'[c] = "APPROVED"
               PROVE  \/ payment'[c] = "valid"
                      \/ \E p \in Procs : on'[p] = c /\ pc'[p] = "settling" /\ saw'[p] = "APPROVED"
  BY DEF Settling
<1>2. CASE status[c] # "APPROVED"
  BY <1>1, <1>2, ApprovedBy
<1>3. CASE payment[c] = "valid"
  <2>1. ASSUME NEW d \in Charges, CreateCharge(d) PROVE payment' = payment
    BY <2>1 DEF CreateCharge
  <2>2. ASSUME NEW p \in Procs, SettleApproved(p) PROVE payment'[c] = "valid"
    BY <1>3, <2>2 DEF SettleApproved
  <2>3. ASSUME NEW m \in Manuals, Confirm(m) \/ Reverse(m) PROVE payment'[c] = payment[c]
    BY <2>3 DEF Confirm, Reverse
  <2> QED
    BY <1>3, <2>1, <2>2, <2>3, PaymentWrites
<1>4. CASE status[c] = "APPROVED" /\ payment[c] # "valid"
  <2>1. PICK p \in Procs : on[p] = c /\ pc[p] = "settling" /\ saw[p] = "APPROVED"
    BY <1>4 DEF Settling
  <2>2. CASE SettleApproved(p)
    <3>1. payment[c] = "none"
      BY <1>4 DEF AmountsKept
    <3>2. payment' = [payment EXCEPT ![c] = "valid"]
      BY <2>1, <2>2, <3>1 DEF SettleApproved, Settles
    <3> QED
      BY <3>2
  <2>3. CASE Detect(p)
    BY <2>1, <2>3 DEF Detect
  <2>4. CASE pc'[p] = pc[p] /\ on'[p] = on[p] /\ saw'[p] = saw[p]
    BY <2>1, <2>4
  <2> QED
    BY <2>1, <2>2, <2>3, <2>4, NoOtherStep
<1> QED
  BY <1>2, <1>3, <1>4

(* A report stays.                                                           *)
LEMMA ReportStays ==
  ASSUME TypeOK, [Next]_chargeVars, NEW r \in Rows, Reported(r)
  PROVE  Reported(r)'
<1> USE RowsAssumption DEF TypeOK, Types, Procs, Rows
<1>1. r \in Charges /\ exceptions[r] # None
  BY DEF Reported
<1>2. CASE exceptions' = exceptions
  BY <1>1, <1>2 DEF Reported
<1>3. ASSUME NEW p \in Procs, Detect(p) PROVE exceptions'[r] # None
  BY <1>1, <1>3 DEF Detect
<1>4. ASSUME NEW c \in Charges, FinishException(c) PROVE exceptions'[r] # None
  <2>1. exceptions' = [exceptions EXCEPT ![c] = "CLOSED"] /\ exceptions[c] = "OPEN"
    BY <1>4 DEF FinishException
  <2> QED
    BY <1>1, <2>1
<1>5. exceptions' = exceptions \/ (\E p \in Procs : Detect(p)) \/ (\E c \in Charges : FinishException(c))
  BY DEF Next, Create, Apply, AssertTarget, CreateCharge, CreateRefused, ProviderCreates, ProviderThrows,
     ProviderMoves, FailCharge, ReadStatus, UpdateStatus, UpdateLost, SettleApproved, Abort, Refresh, Reconcile,
     CheckFails, Cancel, Accept, Process, FindNothing, Ignore, Confirm, Reverse, Fetch, rows, chargeVars
<1> QED
  BY <1>1, <1>2, <1>3, <1>4, <1>5 DEF Reported

(* A balance that a settled charge has paid is not paid again by hand.       *)
LEMMA PaidOnce ==
  ASSUME TypeOK, AmountsKept, FinitelyPaid, WholeBalances, NEW c \in Charges, status[c] = "APPROVED",
         payment[c] = "valid", NEW m \in Manuals, Target[m] = Target[c], Confirm(m)
  PROVE  FALSE
<1> USE RowsAssumption DEF TypeOK, Types, Rows
<1>1. PICK S : S = {r \in Rows : Target[r] = Target[c] /\ payment[r] \in {"valid"}}
  OBVIOUS
<1>2. IsFiniteSet(S)
  <2>1. S \subseteq {r \in Rows : payment[r] # "none"}
    BY <1>1
  <2> QED
    BY <2>1, FS_Subset DEF FinitelyPaid
<1>3. \A r \in S : amount[r] \in Nat
  BY <1>1
<1>4. c \in S /\ amount[c] = Total[Target[c]]
  BY <1>1 DEF AmountsKept, WholeBalances, Status, Active
<1>5. Paid(Target[c], {"valid"}) = SumOver(amount, S)
  BY <1>1, PaidIsSum
<1>6. Paid(Target[c], {"valid"}) \in Nat /\ amount[c] <= Paid(Target[c], {"valid"})
  <2>1. SumOver(amount, S) \in Nat /\ \A x \in S : amount[x] <= SumOver(amount, S)
    BY <1>2, <1>3, SumBounds
  <2> QED
    BY <1>4, <1>5, <2>1
<1>7. PICK dto \in 1..Total[Target[m]] : dto = Total[Target[m]] - Paid(Target[m], {"valid"})
  BY DEF Confirm
<1>8. Total[Target[c]] \in Nat
  BY DEF Targets
<1> QED
  BY <1>4, <1>6, <1>7, <1>8

LEMMA DuplicatesStep ==
  ASSUME TypeOK, Carried, AmountsKept, FinitelyPaid, WholeBalances, Settling, DuplicatesReported,
         "crash" \notin Failures, [Next]_chargeVars
  PROVE  DuplicatesReported'
<1> USE RowsAssumption DEF TypeOK, Types, Procs, Rows
<1>1. SUFFICES ASSUME NEW c \in Charges, NEW r \in Rows, c # r, Target[c] = Target[r], Quiet(c)', Quiet(r)',
                      status'[c] = "APPROVED", status'[r] = "APPROVED"
               PROVE  Reported(c)' \/ Reported(r)'
  BY DEF DuplicatesReported
<1>2. ASSUME NEW x \in {c, r}, NEW p \in Procs, on'[p] = x, pc'[p] \in {"settling", "detecting"}
      PROVE  FALSE
  BY <1>1, <1>2 DEF Quiet
<1>3. CASE status[c] # "APPROVED"
  <2>1. \E p \in Procs : on'[p] = c /\ pc'[p] = "settling"
    BY <1>1, <1>3, ApprovedBy
  <2> QED
    BY <1>2, <2>1
<1>4. CASE status[c] = "APPROVED" /\ status[r] # "APPROVED"
  <2>1. CASE r \in Charges
    <3>1. \E p \in Procs : on'[p] = r /\ pc'[p] = "settling"
      BY <1>1, <1>4, <2>1, ApprovedBy
    <3> QED
      BY <1>2, <3>1
  <2>2. CASE r \notin Charges
    <3>1. r \in Manuals /\ Confirm(r)
      BY <1>1, <1>4, <2>2, ApprovedBy
    <3>2. on' = on /\ pc' = pc
      BY <3>1 DEF Confirm
    <3>3. payment[c] = "valid"
      BY <1>2, <1>4, <3>2 DEF Settling
    <3> QED
      BY <1>1, <1>4, <3>1, <3>3, PaidOnce
  <2> QED
    BY <2>1, <2>2
<1>5. CASE status[c] = "APPROVED" /\ status[r] = "APPROVED" /\ Quiet(c) /\ Quiet(r)
  <2>1. Reported(c) \/ Reported(r)
    BY <1>1, <1>5 DEF DuplicatesReported
  <2> QED
    BY <2>1, ReportStays
<1>6. ASSUME status[c] = "APPROVED", status[r] = "APPROVED", NEW x \in {c, r}, ~Quiet(x)
      PROVE  Reported(x)'
  <2>1. PICK p \in Procs : on[p] = x /\ pc[p] \in {"settling", "detecting"}
    BY <1>6 DEF Quiet
  <2>2. x \in Charges /\ status[x] = "APPROVED" /\ \E y \in Rows \ {x} : Target[y] = Target[x] /\ status[y] = "APPROVED"
    BY <1>1, <1>6, <2>1
  <2>3. Detect(p)
    <3>1. CASE SettleApproved(p)
      <4>1. on'[p] = x /\ pc'[p] = "detecting"
        BY <2>1, <3>1 DEF SettleApproved, Goto
      <4> QED
        BY <1>2, <4>1
    <3>2. CASE pc'[p] = pc[p] /\ on'[p] = on[p]
      BY <1>2, <2>1, <3>2
    <3> QED
      BY <2>1, <3>1, <3>2, NoOtherStep
  <2>4. Duplicate(p)
    BY <2>1, <2>2 DEF Duplicate
  <2>5. exceptions' = [exceptions EXCEPT ![x] = "OPEN"]
    BY <2>1, <2>3, <2>4 DEF Detect
  <2>6. exceptions'[x] # None
    BY <2>2, <2>5
  <2> QED
    BY <2>2, <2>6 DEF Reported
<1> QED
  BY <1>3, <1>4, <1>5, <1>6

LEMMA DupStart == Init /\ WholeBalances => DupInv
<1> SUFFICES ASSUME Init, WholeBalances PROVE DupInv
  OBVIOUS
<1> USE RowsAssumption DEF Rows
<1>1. IInv
  BY Start
<1>2. \A r \in Rows : status[r] = None /\ payment[r] = "none" /\ None # "APPROVED"
  BY DEF Init, Status, Active
<1>3. AmountsKept
  BY <1>2 DEF AmountsKept
<1>4. FinitelyPaid
  <2>1. {r \in Rows : payment[r] # "none"} = {}
    BY <1>2
  <2> QED
    BY <2>1, FS_EmptySet DEF FinitelyPaid
<1>5. Settling /\ DuplicatesReported
  BY <1>2 DEF Settling, DuplicatesReported
<1> QED
  BY <1>1, <1>3, <1>4, <1>5 DEF DupInv

LEMMA DupStep == DupInv /\ [Next]_chargeVars => DupInv'
<1> SUFFICES ASSUME DupInv, [Next]_chargeVars PROVE DupInv'
  OBVIOUS
<1>1. IInv /\ TypeOK /\ Carried /\ AmountsKept /\ FinitelyPaid /\ WholeBalances
  BY DEF DupInv, IInv
<1>2. IInv'
  BY <1>1, Step
<1>3. AmountsKept'
  BY <1>1, AmountsStep
<1>4. FinitelyPaid'
  BY <1>1, FinitelyStep
<1>5. WholeBalances'
  BY <1>1 DEF WholeBalances
<1>6. CASE "crash" \in Failures
  BY <1>2, <1>3, <1>4, <1>5, <1>6 DEF DupInv
<1>7. CASE "crash" \notin Failures
  <2>1. Settling /\ DuplicatesReported
    BY <1>7 DEF DupInv
  <2>2. Settling'
    BY <1>1, <1>7, <2>1, SettlingStep
  <2>3. DuplicatesReported'
    BY <1>1, <1>7, <2>1, DuplicatesStep
  <2> QED
    BY <1>2, <1>3, <1>4, <1>5, <2>2, <2>3 DEF DupInv
<1> QED
  BY <1>6, <1>7

(* Of two charges approved for one balance one is reported, however the      *)
(* requests interleave (applyProviderOrder, detect): every approved charge   *)
(* is settled by the request that approved it, so that a manual payment can  *)
(* only be confirmed before that, and the request detects it after.  Charges *)
(* of a part of a balance are left out: a manual payment of the rest is no   *)
(* duplicate, and the code reports none.                                     *)
THEOREM DuplicatesAreReported == WholeBalances /\ Spec => []DuplicatesReported
<1>1. DupInv => DuplicatesReported
  BY DEF DupInv, DuplicatesReported
<1> QED
  BY <1>1, DupStart, DupStep, PTL DEF Spec

----------------------------------------------------------------------------
(* PaymentStates.                                                                  *)

Readers   == Handlers \cup Crons
Working   == {"get", "compare", "write", "finish", "catch"}
NoticeRow == [status : {"none", "RECEIVED", "PROCESSING", "PROCESSED", "IGNORED", "FAILED"}, sent : Nat]
ReaderRow == [at : Working \cup {"idle", "claim", "ended"}, notice : Notices \cup {NoOne}, got : Nat, seen : Nat]
StatesShapes ==
  /\ version \in 1..VersionBound /\ mirror \in Nat /\ peak \in Nat /\ mirror <= peak /\ peak <= version
  /\ notice \in [Notices -> NoticeRow] /\ \A n \in Notices : notice[n].sent <= version
  /\ work \in [Notices -> 0..TryBound \cup {NoOne}]
  /\ reader \in [Readers -> ReaderRow] /\ \A p \in Readers : reader[p].got <= version
  /\ operation \in [owner : {24, 168, NoOne}, live : BOOLEAN] /\ overran \in BOOLEAN /\ adrift \subseteq Notices
  /\ \A h \in Handlers : reader[h].at \in {"idle", "ended"} <=> reader[h].notice = NoOne
  /\ \A c \in Crons : reader[c].notice = NoOne /\ reader[c].at \notin {"claim", "catch"}

(* A notice that was not received has no job and no run.                           *)
Unheard ==
  \A n \in Notices : notice[n].status = "none" => work[n] = NoOne /\ \A h \in Handlers : reader[h].notice # n

(* What a run has read is as new as what it was told of, and as what it compares   *)
(* it with.                                                                        *)
Newer(p) ==
  /\ reader[p].at = "write" => reader[p].got >= reader[p].seen
  /\ \A n \in Notices : reader[p].notice = n =>
       /\ reader[p].at \in {"compare", "write"} => reader[p].got >= notice[n].sent
       /\ reader[p].at = "finish" => peak >= notice[n].sent

(* A notice that is not adrift has one run at most: that works on it when it is in *)
(* process; and a job, while it is open.                                           *)
TakenBy(n) == {h \in Handlers : reader[h].notice = n}
Attended(n) ==
  /\ \A h, k \in TakenBy(n) : h = k
  /\ notice[n].status \in Open => work[n] # NoOne
  /\ notice[n].status = "PROCESSING" => \E h \in TakenBy(n) : reader[h].at \in Working

(* Runs of the reconciliation that are at work hold the lock.                      *)
Locked == overran \/ ((\A c, d \in Reconciling : c = d) /\ (Reconciling # {} => operation.live))

StatesInv ==
  /\ StatesShapes /\ Unheard /\ NoticeApplied /\ Locked
  /\ \A p \in Readers : Newer(p)
  /\ \A n \in Notices \ adrift : Attended(n)

LEMMA StatesStart == StatesInit => StatesInv
  <1> SUFFICES ASSUME StatesInit PROVE StatesInv
    OBVIOUS
  <1> USE PaymentStatesAssumption
  <1>1. PICK ended \in ReaderRow : ended = [Unread EXCEPT !.at = "ended"]
    BY DEF Unread, ReaderRow
  <1>2. Unread \in ReaderRow /\ \A row \in {Unread, ended} : /\ row.at \in {"idle", "ended"} /\ row.notice = NoOne
                                                           /\ row.got = 0
    BY <1>1 DEF Unread, ReaderRow
  <1>3. reader \in [Readers -> {Unread, ended}]
    BY <1>1 DEF StatesInit, Readers
  <1>4. \A p \in Readers : /\ reader[p] \in ReaderRow /\ reader[p].at \in {"idle", "ended"} /\ reader[p].notice = NoOne
                           /\ reader[p].got = 0
    BY <1>2, <1>3
  <1>5. \A n \in Notices : notice[n].status = "none" /\ notice[n].sent = 0 /\ work[n] = NoOne
    BY DEF StatesInit
  <1>6. notice \in [Notices -> NoticeRow] /\ work \in [Notices -> 0..TryBound \cup {NoOne}]
    BY DEF StatesInit, NoticeRow
  <1>7. version \in 1..VersionBound /\ version = 1 /\ mirror = 0 /\ peak = 0
    BY DEF StatesInit
  <1>8. operation \in [owner : {24, 168, NoOne}, live : BOOLEAN] /\ overran \in BOOLEAN /\ adrift = {}
    BY DEF StatesInit
  <1>9. StatesShapes
    BY <1>3, <1>4, <1>5, <1>6, <1>7, <1>8 DEF StatesShapes, Readers
  <1>10. Unheard
    BY <1>4, <1>5 DEF Unheard, Readers
  <1>11. NoticeApplied /\ Locked
    BY <1>4, <1>5 DEF NoticeApplied, Locked, Reconciling, Readers
  <1>12. \A p \in Readers : Newer(p)
    BY <1>4 DEF Newer
  <1>13. \A n \in Notices : Attended(n)
    <2>1. \A n \in Notices : TakenBy(n) = {}
      BY <1>4 DEF TakenBy, Readers
    <2> QED
      BY <1>5, <2>1 DEF Attended, Open
  <1> QED
    BY <1>9, <1>10, <1>11, <1>12, <1>13 DEF StatesInv

(* One that reads moves on, with the notice it has; the mirror may be written.     *)
LEMMA ReadingKeeps ==
  ASSUME StatesInv, NEW p \in Readers, NEW row \in ReaderRow, reader' = [reader EXCEPT ![p] = row],
         reader[p].at \in {"get", "compare", "write", "finish"}, row.at \in {"compare", "write", "finish", "catch"},
         row.at = "catch" => p \in Handlers,
         row.notice = reader[p].notice, row.got <= version, mirror' \in Nat, peak' \in Nat, mirror' <= peak',
         peak <= peak', peak' <= version, Newer(p)',
         UNCHANGED <<version, notice, work, operation, overran, adrift>>
  PROVE  StatesInv'
  <1>1. reader \in [Readers -> ReaderRow]
    BY DEF StatesInv, StatesShapes
  <1>2. reader' \in [Readers -> ReaderRow] /\ reader'[p] = row /\ \A q \in Readers \ {p} : reader'[q] = reader[q]
    BY <1>1
  <1>3. \A q \in Readers : /\ reader'[q].notice = reader[q].notice
                           /\ reader'[q].at \in {"idle", "ended"} <=> reader[q].at \in {"idle", "ended"}
                           /\ reader[q].at \in Working => reader'[q].at \in Working
    BY <1>2 DEF Working
  <1>4. StatesShapes'
    <2>1. \A q \in Readers : reader'[q].got <= version
      BY <1>2 DEF StatesInv, StatesShapes
    <2>2. \A h \in Handlers : reader'[h].at \in {"idle", "ended"} <=> reader'[h].notice = NoOne
      BY <1>3 DEF StatesInv, StatesShapes, Readers
    <2>3. \A c \in Crons : reader'[c].notice = NoOne /\ reader'[c].at \notin {"claim", "catch"}
      BY <1>2, PaymentStatesAssumption DEF StatesInv, StatesShapes, Readers
    <2>4. /\ version' \in 1..VersionBound /\ mirror' \in Nat /\ peak' \in Nat /\ mirror' <= peak' /\ peak' <= version'
      BY DEF StatesInv, StatesShapes
    <2> QED
      BY <1>2, <2>1, <2>2, <2>3, <2>4 DEF StatesInv, StatesShapes
  <1>5. Unheard'
    BY <1>3 DEF StatesInv, Unheard, Readers
  <1>6. \A n \in Notices : peak >= notice[n].sent => peak' >= notice[n].sent
    BY DEF StatesInv, StatesShapes, NoticeRow
  <1>7. NoticeApplied'
    BY <1>6 DEF StatesInv, NoticeApplied
  <1>8. \A q \in Readers : Newer(q)'
    BY <1>2, <1>6 DEF StatesInv, Newer
  <1>9. \A n \in Notices \ adrift' : Attended(n)'
    <2>1. \A n : TakenBy(n)' = TakenBy(n)
      BY <1>3 DEF TakenBy, Readers
    <2>2. \A n : TakenBy(n) \subseteq Readers
      BY DEF TakenBy, Readers
    <2>3. ASSUME NEW n \in Notices \ adrift'
          PROVE  Attended(n)'
      <3>1. Attended(n) /\ \A h \in TakenBy(n) : reader[h].at \in Working => reader'[h].at \in Working
        BY <1>3, <2>2 DEF StatesInv
      <3> QED
        BY <2>1, <3>1 DEF Attended
    <2> QED
      BY <2>3
  <1>10. Locked'
    <2>1. Reconciling' = Reconciling
      BY <1>3 DEF Reconciling, Readers
    <2> QED
      BY <2>1 DEF StatesInv, Locked
  <1> QED
    BY <1>4, <1>5, <1>7, <1>8, <1>9, <1>10 DEF StatesInv

(* A run marks its notice, and goes on with it or leaves it.                       *)
LEMMA MarkingKeeps ==
  ASSUME StatesInv, NEW h \in Handlers, NEW n \in Notices, reader[h].notice = n, NEW row \in ReaderRow,
         reader' = [reader EXCEPT ![h] = row], row.notice \in {n, NoOne}, row.got <= version,
         row.notice = NoOne <=> row.at \in {"idle", "ended"}, row.at \notin {"compare", "write", "finish"},
         NEW to \in {notice[n].status, "PROCESSING", "PROCESSED", "IGNORED", "FAILED"},
         notice' = [notice EXCEPT ![n].status = to],
         to = "PROCESSED" => peak >= notice[n].sent,
         NEW job \in {work[n], NoOne}, work' = [work EXCEPT ![n] = job],
         adrift' \in {adrift, adrift \cup {n}}, n \notin adrift' => Attended(n)',
         UNCHANGED <<version, mirror, peak, operation, overran>>
  PROVE  StatesInv'
  <1> StatesShapes
    BY DEF StatesInv
  <1>1. reader' \in [Readers -> ReaderRow] /\ reader'[h] = row /\ \A q \in Readers \ {h} : reader'[q] = reader[q]
    BY DEF StatesShapes, Readers
  <1>2. notice[n].status # "none"
    BY DEF StatesInv, Unheard
  <1>3. /\ notice' \in [Notices -> NoticeRow] /\ notice'[n].status = to /\ to # "none"
        /\ \A m \in Notices : notice'[m].sent = notice[m].sent
        /\ \A m \in Notices \ {n} : notice'[m] = notice[m]
    <2>1. notice \in [Notices -> NoticeRow] /\ notice[n] \in NoticeRow
      BY DEF StatesShapes
    <2>2. PICK new : new = [notice[n] EXCEPT !.status = to]
      OBVIOUS
    <2>3. new \in NoticeRow /\ new.status = to /\ new.sent = notice[n].sent
      BY <2>1, <2>2 DEF NoticeRow
    <2>4. notice' = [notice EXCEPT ![n] = new]
      BY <2>2
    <2>5. to # "none"
      BY <1>2
    <2> QED
      BY <2>1, <2>3, <2>4, <2>5
  <1>4. /\ work' \in [Notices -> 0..TryBound \cup {NoOne}] /\ work'[n] = job
        /\ \A m \in Notices \ {n} : work'[m] = work[m]
    BY DEF StatesShapes
  <1>5. StatesShapes'
    <2>1. \A q \in Readers : reader'[q].got <= version
      BY <1>1 DEF StatesShapes
    <2>2. \A k \in Handlers : reader'[k].at \in {"idle", "ended"} <=> reader'[k].notice = NoOne
      BY <1>1 DEF StatesShapes, Readers
    <2>3. \A c \in Crons : reader'[c].notice = NoOne /\ reader'[c].at \notin {"claim", "catch"}
      BY <1>1, PaymentStatesAssumption DEF StatesShapes, Readers
    <2>4. adrift' \subseteq Notices
      BY DEF StatesShapes
    <2> QED
      BY <1>1, <1>3, <1>4, <2>1, <2>2, <2>3, <2>4 DEF StatesShapes
  <1>6. Unheard'
    BY <1>1, <1>3, <1>4, PaymentStatesAssumption DEF StatesInv, Unheard, Readers
  <1>7. NoticeApplied'
    BY <1>3 DEF StatesInv, NoticeApplied
  <1>8. \A q \in Readers : Newer(q)'
    <2>1. \A q \in Readers \ {h} : Newer(q)'
      BY <1>1, <1>3 DEF StatesInv, Newer
    <2>2. Newer(h)'
      BY <1>1 DEF Newer
    <2> QED
      BY <2>1, <2>2
  <1>9. ASSUME NEW m \in Notices \ adrift', m # n
        PROVE  Attended(m)'
    <2>1. Attended(m)
      BY <1>9 DEF StatesInv
    <2>2. TakenBy(m)' = TakenBy(m) /\ h \notin TakenBy(m)
      BY <1>1, <1>9, PaymentStatesAssumption DEF TakenBy, Readers
    <2>3. \A k \in TakenBy(m) : reader'[k] = reader[k]
      BY <1>1, <2>2 DEF TakenBy, Readers
    <2> QED
      BY <1>3, <1>4, <1>9, <2>1, <2>2, <2>3 DEF Attended
  <1>10. Locked'
    <2>1. Reconciling' = Reconciling
      BY <1>1, PaymentStatesAssumption DEF Reconciling, Readers
    <2> QED
      BY <2>1 DEF StatesInv, Locked
  <1> QED
    BY <1>5, <1>6, <1>7, <1>8, <1>9, <1>10 DEF StatesInv

(* A run is done with its notice.                                                  *)
LEMMA LeavingKeeps ==
  ASSUME StatesInv, NEW h \in Handlers, NEW n \in Notices, reader[h].notice = n, LeavesNotice(h),
         NEW to \in {notice[n].status, "PROCESSING", "PROCESSED", "IGNORED", "FAILED"},
         notice' = [notice EXCEPT ![n].status = to],
         to = "PROCESSED" => peak >= notice[n].sent,
         NEW job \in {work[n], NoOne}, work' = [work EXCEPT ![n] = job],
         adrift' \in {adrift, adrift \cup {n}}, n \notin adrift' => Attended(n)',
         UNCHANGED <<version, mirror, peak, operation, overran>>
  PROVE  StatesInv'
  <1>1. Unread \in ReaderRow /\ Unread.notice = NoOne /\ Unread.at = "idle" /\ Unread.got = 0
    BY DEF Unread, ReaderRow
  <1>2. Unread.notice \in {n, NoOne} /\ Unread.at \notin {"compare", "write", "finish"}
    BY <1>1
  <1>3. Unread.notice = NoOne <=> Unread.at \in {"idle", "ended"}
    BY <1>1
  <1>4. Unread.got <= version
    BY <1>1 DEF StatesInv, StatesShapes
  <1>5. reader' = [reader EXCEPT ![h] = Unread]
    BY DEF LeavesNotice
  <1> QED
    BY <1>1, <1>2, <1>3, <1>4, <1>5, MarkingKeeps

(* A run of the reconciliation begins or ends.                                     *)
LEMMA RunKeeps ==
  ASSUME StatesInv, NEW c \in Crons, NEW row \in ReaderRow, reader' = [reader EXCEPT ![c] = row],
         row.notice = NoOne, row.at \in {"get", "ended"}, row.got <= version,
         operation' \in [owner : {24, 168, NoOne}, live : BOOLEAN], overran' \in BOOLEAN, Locked',
         UNCHANGED <<version, mirror, peak, notice, work, adrift>>
  PROVE  StatesInv'
  <1> StatesShapes
    BY DEF StatesInv
  <1>1. reader' \in [Readers -> ReaderRow] /\ reader'[c] = row /\ \A q \in Readers \ {c} : reader'[q] = reader[q]
    BY DEF StatesShapes, Readers
  <1>2. \A h \in Handlers : h \in Readers \ {c} /\ reader'[h] = reader[h]
    BY <1>1, PaymentStatesAssumption DEF Readers
  <1>3. StatesShapes'
    <2>1. \A q \in Readers : reader'[q].got <= version
      BY <1>1 DEF StatesShapes
    <2>2. \A d \in Crons : reader'[d].notice = NoOne /\ reader'[d].at \notin {"claim", "catch"}
      BY <1>1 DEF StatesShapes, Readers
    <2> QED
      BY <1>1, <1>2, <2>1, <2>2 DEF StatesShapes
  <1>4. Unheard' /\ NoticeApplied'
    BY <1>2 DEF StatesInv, Unheard, NoticeApplied
  <1>5. \A q \in Readers : Newer(q)'
    <2>1. \A q \in Readers \ {c} : Newer(q)'
      BY <1>1 DEF StatesInv, Newer
    <2>2. Newer(c)'
      BY <1>1 DEF Newer
    <2> QED
      BY <2>1, <2>2
  <1>6. \A n \in Notices \ adrift' : Attended(n)'
    <2>1. \A n : TakenBy(n)' = TakenBy(n)
      BY <1>2 DEF TakenBy
    <2>2. \A n : TakenBy(n) \subseteq Handlers
      BY DEF TakenBy
    <2>3. ASSUME NEW n \in Notices \ adrift'
          PROVE  Attended(n)'
      <3>1. Attended(n) /\ \A h \in TakenBy(n) : reader'[h] = reader[h]
        BY <1>2, <2>2 DEF StatesInv
      <3> QED
        BY <2>1, <3>1 DEF Attended
    <2> QED
      BY <2>3
  <1> QED
    BY <1>3, <1>4, <1>5, <1>6 DEF StatesInv

LEMMA ReaderIs ==
  ASSUME StatesInv, NEW p \in Readers
  PROVE  /\ reader \in [Readers -> ReaderRow] /\ reader[p] \in ReaderRow /\ reader[p].got <= version
         /\ version \in Nat /\ mirror \in Nat /\ peak \in Nat /\ mirror <= peak /\ peak <= version
         /\ p \in Handlers /\ reader[p].at \notin {"idle", "ended"} => reader[p].notice \in Notices
         /\ p \in Crons => p \notin Handlers /\ reader[p].notice = NoOne
         /\ Unread \in ReaderRow /\ Unread.at = "idle" /\ Unread.notice = NoOne /\ Unread.got = 0
  <1>1. reader \in [Readers -> ReaderRow] /\ reader[p] \in ReaderRow /\ reader[p].got <= version
    BY DEF StatesInv, StatesShapes
  <1>2. version \in Nat /\ mirror \in Nat /\ peak \in Nat /\ mirror <= peak /\ peak <= version
    BY DEF StatesInv, StatesShapes
  <1>3. p \in Handlers /\ reader[p].at \notin {"idle", "ended"} => reader[p].notice \in Notices
    BY <1>1 DEF StatesInv, StatesShapes, ReaderRow
  <1>4. p \in Crons => p \notin Handlers /\ reader[p].notice = NoOne
    BY PaymentStatesAssumption DEF StatesInv, StatesShapes
  <1>5. Unread \in ReaderRow /\ Unread.at = "idle" /\ Unread.notice = NoOne /\ Unread.got = 0
    BY DEF Unread, ReaderRow
  <1> QED
    BY <1>1, <1>2, <1>3, <1>4, <1>5

(* Somebody reads, compares or writes.                                             *)
LEMMA ReadStep ==
  ASSUME StatesInv, NEW p \in Readers, FetchPayment(p) \/ CompareState(p) \/ WriteState(p)
  PROVE  StatesInv'
  <1>1. /\ reader \in [Readers -> ReaderRow] /\ reader[p] \in ReaderRow /\ reader[p].got <= version
        /\ version \in Nat /\ mirror \in Nat /\ peak \in Nat /\ mirror <= peak /\ peak <= version
    BY ReaderIs
  <1>2. PICK at, got, seen : at = reader[p].at /\ got = reader[p].got /\ seen = reader[p].seen
    OBVIOUS
  <1>3. got \in Nat /\ seen \in Nat /\ got <= version
    BY <1>1, <1>2 DEF ReaderRow
  <1>4. \A n \in Notices : notice[n].sent \in Nat /\ notice[n].sent <= version
    BY DEF StatesInv, StatesShapes, NoticeRow
  <1>5. Newer(p)
    BY DEF StatesInv
  <1>6. CASE FetchPayment(p)
    <2>1. PICK old \in ReaderRow : old = reader[p]
      BY <1>1
    <2>3. PICK row : row = [old EXCEPT !.at = "compare", !.got = version]
      OBVIOUS
    <2>2. /\ row \in ReaderRow /\ row.at = "compare" /\ row.got = version /\ row.notice = reader[p].notice
          /\ row.got <= version
      <3>1. version \in Nat /\ version <= version
        BY <1>1
      <3>2. row.at = "compare" /\ row.got = version /\ row.notice = old.notice
        BY <2>3 DEF ReaderRow
      <3>3. row \in ReaderRow
        BY <2>3, <3>1 DEF ReaderRow, Working
      <3> QED
        BY <2>1, <3>1, <3>2, <3>3
    <2>4. /\ at = "get" /\ reader' = [reader EXCEPT ![p] = row]
          /\ UNCHANGED <<version, mirror, peak, notice, work, operation, overran, adrift>>
      BY <1>2, <1>6, <2>1, <2>3 DEF FetchPayment, Is
    <2>5. reader'[p] = row
      BY <1>1, <2>4
    <2>6. Newer(p)'
      BY <1>4, <2>2, <2>4, <2>5 DEF Newer
    <2>7. mirror' \in Nat /\ peak' \in Nat /\ mirror' <= peak' /\ peak <= peak' /\ peak' <= version
      BY <1>1, <2>4
    <2> QED
      BY <1>2, <2>2, <2>3, <2>4, <2>6, <2>7, ReadingKeeps
  <1>7. CASE CompareState(p)
    <2>1. PICK to \in {"finish", "write"} : to = IF got < mirror THEN "finish" ELSE "write"
      OBVIOUS
    <2>2. PICK old \in ReaderRow : old = reader[p]
      BY <1>1
    <2>3. PICK row : row = [old EXCEPT !.at = to, !.seen = mirror]
      OBVIOUS
    <2>4. row \in ReaderRow /\ row.at = to /\ row.got = got /\ row.seen = mirror /\ row.notice = reader[p].notice
      BY <1>1, <1>2, <2>2, <2>3 DEF ReaderRow, Working
    <2>5. /\ at = "compare" /\ reader' = [reader EXCEPT ![p] = row]
          /\ UNCHANGED <<version, mirror, peak, notice, work, operation, overran, adrift>>
      BY <1>2, <1>7, <2>1, <2>2, <2>3 DEF CompareState, Is
    <2>6. reader'[p] = row
      BY <1>1, <2>5
    <2>7. Newer(p)'
      <3>1. to = "write" => got >= mirror
        BY <1>1, <1>3, <2>1
      <3>2. ASSUME NEW n \in Notices, row.notice = n
            PROVE  got >= notice[n].sent
        BY <1>2, <1>5, <2>4, <2>5, <3>2 DEF Newer
      <3>3. ASSUME NEW n \in Notices, row.notice = n, to = "finish"
            PROVE  peak >= notice[n].sent
        <4>1. got < mirror
          BY <2>1, <3>3
        <4>2. got >= notice[n].sent
          BY <3>2, <3>3
        <4> QED
          BY <1>1, <1>3, <1>4, <4>1, <4>2
      <3> QED
        BY <2>1, <2>4, <2>5, <2>6, <3>1, <3>2, <3>3 DEF Newer
    <2>8. mirror' \in Nat /\ peak' \in Nat /\ mirror' <= peak' /\ peak <= peak' /\ peak' <= version
      BY <1>1, <2>5
    <2> QED
      BY <1>1, <1>2, <1>3, <2>1, <2>4, <2>5, <2>7, <2>8, ReadingKeeps
  <1>8. CASE WriteState(p)
    <2>1. PICK old \in ReaderRow : old = reader[p]
      BY <1>1
    <2>7. PICK row : row = [old EXCEPT !.at = "finish", !.got = 0, !.seen = 0]
      OBVIOUS
    <2>2. row \in ReaderRow /\ row.at = "finish" /\ row.got = 0 /\ row.notice = reader[p].notice /\ row.got <= version
      <3>1. 0 \in Nat /\ 0 <= version
        BY <1>1
      <3>2. row.at = "finish" /\ row.got = 0 /\ row.notice = old.notice
        BY <2>7 DEF ReaderRow
      <3>3. row \in ReaderRow
        BY <2>7, <3>1 DEF ReaderRow, Working
      <3> QED
        BY <2>1, <3>1, <3>2, <3>3
    <2>3. /\ at = "write" /\ reader' = [reader EXCEPT ![p] = row] /\ mirror' = got
          /\ peak' = IF got > peak THEN got ELSE peak
          /\ UNCHANGED <<version, notice, work, operation, overran, adrift>>
      BY <1>2, <1>8, <2>1, <2>7 DEF WriteState, Is
    <2>4. reader'[p] = row
      BY <1>1, <2>3
    <2>5. mirror' \in Nat /\ peak' \in Nat /\ mirror' <= peak' /\ peak <= peak' /\ peak' <= version /\ got <= peak'
      BY <1>1, <1>3, <2>3
    <2>6. Newer(p)'
      <3>1. ASSUME NEW n \in Notices, row.notice = n
            PROVE  peak' >= notice[n].sent
        <4>1. got >= notice[n].sent
          BY <1>2, <1>5, <2>2, <2>3, <3>1 DEF Newer
        <4> QED
          BY <1>3, <1>4, <2>5, <4>1
      <3> QED
        BY <2>2, <2>3, <2>4, <3>1 DEF Newer
    <2> QED
      BY <1>2, <2>2, <2>3, <2>5, <2>6, ReadingKeeps
  <1> QED
    BY <1>6, <1>7, <1>8

LEMMA HandlerStep ==
  ASSUME StatesInv, NEW h \in Handlers,
         ClaimNotice(h) \/ IgnoreNotice(h) \/ Finish(h) \/ Errs(h) \/ CatchNotice(h) \/ HandlerDies(h)
  PROVE  StatesInv'
  <1>1. /\ h \in Readers /\ reader \in [Readers -> ReaderRow] /\ reader[h] \in ReaderRow /\ reader[h].got <= version
        /\ version \in Nat /\ mirror \in Nat /\ peak \in Nat /\ mirror <= peak /\ peak <= version
        /\ Unread \in ReaderRow /\ Unread.at = "idle" /\ Unread.notice = NoOne /\ Unread.got <= version
    <2>1. h \in Readers
      BY DEF Readers
    <2>2. Unread.got <= version
      BY <2>1, ReaderIs
    <2> QED
      BY <2>1, <2>2, ReaderIs
  <1>2. CASE Errs(h)
    <2>1. /\ reader[h].at \in {"get", "compare", "write", "finish"} /\ reader' = [reader EXCEPT ![h].at = "catch"]
          /\ UNCHANGED <<version, mirror, peak, notice, work, operation, overran, adrift>>
      BY <1>2 DEF Errs, Gets
    <2>2. PICK row : row = [reader[h] EXCEPT !.at = "catch"]
      OBVIOUS
    <2>3. row \in ReaderRow /\ row.at = "catch" /\ row.got = reader[h].got /\ row.notice = reader[h].notice
      BY <1>1, <2>2 DEF ReaderRow, Working
    <2>4. reader' = [reader EXCEPT ![h] = row] /\ reader'[h] = row
      BY <1>1, <2>1, <2>2
    <2>5. Newer(h)'
      BY <2>3, <2>4 DEF Newer
    <2>6. row.got <= version /\ mirror' \in Nat /\ peak' \in Nat /\ mirror' <= peak' /\ peak <= peak' /\ peak' <= version
      BY <1>1, <2>1, <2>3
    <2> QED
      BY <1>1, <2>1, <2>3, <2>4, <2>5, <2>6, ReadingKeeps
  <1>3. CASE ~Errs(h)
    <2>1. PICK n \in Notices : n = reader[h].notice
      <3>1. reader[h].at \notin {"idle", "ended"} \/ reader[h].notice # NoOne
        BY <1>3 DEF ClaimNotice, IgnoreNotice, Finish, CatchNotice, HandlerDies, Is
      <3> QED
        BY <1>1, <3>1 DEF StatesInv, StatesShapes, ReaderRow
    <2>2. n \notin adrift => Attended(n)
      BY DEF StatesInv
    <2>3. notice \in [Notices -> NoticeRow] /\ work \in [Notices -> 0..TryBound \cup {NoOne}] /\ h \in TakenBy(n)
      BY <2>1 DEF StatesInv, StatesShapes, TakenBy
    <2>4. ASSUME NEW to \in {"none", "RECEIVED", "PROCESSING", "PROCESSED", "IGNORED", "FAILED"},
                 notice' = [notice EXCEPT ![n].status = to]
          PROVE  notice'[n].status = to
      BY <2>3, <2>4 DEF NoticeRow
    <2>5. ASSUME NEW row \in ReaderRow, reader' = [reader EXCEPT ![h] = row], row.notice = NoOne
          PROVE  TakenBy(n)' = TakenBy(n) \ {h}
      BY <1>1, <2>5, PaymentStatesAssumption DEF TakenBy, Readers
    <2>6. notice = [notice EXCEPT ![n].status = notice[n].status] /\ work = [work EXCEPT ![n] = work[n]]
      BY <2>3 DEF NoticeRow
    <2>7. CASE ClaimNotice(h)
      <3>1. reader[h].at = "claim" /\ UNCHANGED <<version, mirror, peak, operation, overran, adrift>>
        BY <2>7 DEF ClaimNotice, Is
      <3>2. CASE notice[n].status \in Open
        <4>1. /\ notice' = [notice EXCEPT ![n].status = "PROCESSING"] /\ reader' = [reader EXCEPT ![h].at = "get"]
              /\ work' = work
          BY <2>1, <2>7, <3>2 DEF ClaimNotice, Marks, Gets
        <4>2. PICK row : row = [reader[h] EXCEPT !.at = "get"]
          OBVIOUS
        <4>3. row \in ReaderRow /\ row.at = "get" /\ row.got = reader[h].got /\ row.notice = n
          BY <1>1, <2>1, <4>2 DEF ReaderRow, Working
        <4>4. reader' = [reader EXCEPT ![h] = row] /\ reader'[h] = row /\ \A k \in Readers \ {h} : reader'[k] = reader[k]
          BY <1>1, <4>1, <4>2
        <4>5. n \notin adrift' => Attended(n)'
          <5>1. TakenBy(n)' = TakenBy(n)
            BY <2>1, <4>3, <4>4 DEF TakenBy, Readers
          <5>2. notice'[n].status = "PROCESSING"
            BY <2>4, <4>1
          <5> QED
            BY <2>2, <2>3, <3>1, <4>3, <4>4, <5>1, <5>2 DEF Attended, Open, Working
        <4>6. work' = [work EXCEPT ![n] = work[n]]
          BY <2>6, <4>1
        <4>7. /\ row.notice \in {n, NoOne} /\ row.got <= version /\ row.at \notin {"compare", "write", "finish"}
              /\ row.notice = NoOne <=> row.at \in {"idle", "ended"}
          BY <1>1, <4>3, PaymentStatesAssumption
        <4> QED
          BY <2>1, <3>1, <4>1, <4>3, <4>4, <4>5, <4>6, <4>7, MarkingKeeps
      <3>3. CASE notice[n].status \notin Open
        <4>1. /\ notice' = notice /\ reader' = [reader EXCEPT ![h] = Unread] /\ work' = [work EXCEPT ![n] = NoOne]
          BY <2>1, <2>7, <3>3 DEF ClaimNotice, LeavesNotice, Done
        <4>2. n \notin adrift' => Attended(n)'
          <5>1. SUFFICES ASSUME n \notin adrift PROVE Attended(n)'
            BY <3>1
          <5>2. notice[n].status # "PROCESSING"
            BY <2>2, <2>3, <3>1, <5>1 DEF Attended, Working
          <5> QED
            BY <1>1, <2>2, <2>5, <3>3, <4>1, <5>1, <5>2 DEF Attended
        <4>3. notice' = [notice EXCEPT ![n].status = notice[n].status]
          BY <2>6, <4>1
        <4>4. notice[n].status = "PROCESSED" => peak >= notice[n].sent
          BY DEF StatesInv, NoticeApplied
        <4>5. LeavesNotice(h) /\ adrift' \in {adrift, adrift \cup {n}}
          BY <3>1, <4>1 DEF LeavesNotice
        <4> QED
          BY <2>1, <3>1, <4>1, <4>2, <4>3, <4>4, <4>5, LeavingKeeps
      <3> QED
        BY <3>2, <3>3
    <2>8. CASE IgnoreNotice(h)
      <3>1. /\ notice' = [notice EXCEPT ![n].status = "IGNORED"] /\ reader' = [reader EXCEPT ![h] = Unread]
            /\ work' = [work EXCEPT ![n] = NoOne] /\ UNCHANGED <<version, mirror, peak, operation, overran, adrift>>
        BY <2>1, <2>8 DEF IgnoreNotice, Marks, Done, LeavesNotice
      <3>2. n \notin adrift' => Attended(n)'
        <4>1. notice'[n].status = "IGNORED"
          BY <2>4, <3>1
        <4> QED
          BY <1>1, <2>2, <2>5, <3>1, <4>1 DEF Attended, Open
      <3>3. LeavesNotice(h) /\ adrift' \in {adrift, adrift \cup {n}}
        BY <3>1 DEF LeavesNotice
      <3> QED
        BY <2>1, <3>1, <3>2, <3>3, LeavingKeeps
    <2>9. CASE Finish(h)
      <3>1. /\ reader[h].at = "finish" /\ notice' = [notice EXCEPT ![n].status = "PROCESSED"]
            /\ UNCHANGED <<version, mirror, peak, operation, overran, adrift>>
        BY <2>1, <2>9 DEF Finish, Marks, Is
      <3>2. peak >= notice[n].sent
        BY <1>1, <2>1, <3>1 DEF StatesInv, Newer
      <3>3. notice'[n].status = "PROCESSED"
        BY <2>4, <3>1
      <3>4. CASE reader' = [reader EXCEPT ![h] = Unread] /\ work' = [work EXCEPT ![n] = NoOne]
        <4>1. n \notin adrift' => Attended(n)'
          BY <1>1, <2>2, <2>5, <3>1, <3>3, <3>4 DEF Attended, Open
        <4>2. LeavesNotice(h) /\ adrift' \in {adrift, adrift \cup {n}}
          BY <3>1, <3>4 DEF LeavesNotice
        <4> QED
          BY <2>1, <3>1, <3>2, <3>4, <4>1, <4>2, LeavingKeeps
      <3>5. CASE reader' = [reader EXCEPT ![h].at = "catch"] /\ work' = work
        <4>1. PICK row : row = [reader[h] EXCEPT !.at = "catch"]
          OBVIOUS
        <4>2. row \in ReaderRow /\ row.at = "catch" /\ row.got = reader[h].got /\ row.notice = n
          BY <1>1, <2>1, <4>1 DEF ReaderRow, Working
        <4>3. reader' = [reader EXCEPT ![h] = row] /\ reader'[h] = row /\ \A k \in Readers \ {h} : reader'[k] = reader[k]
          BY <1>1, <3>5, <4>1
        <4>4. n \notin adrift' => Attended(n)'
          <5>1. TakenBy(n)' = TakenBy(n)
            BY <2>1, <4>2, <4>3 DEF TakenBy, Readers
          <5> QED
            BY <2>2, <3>1, <3>3, <5>1 DEF Attended, Open
        <4>5. work' = [work EXCEPT ![n] = work[n]]
          BY <2>6, <3>5
        <4>6. /\ row.notice \in {n, NoOne} /\ row.at \notin {"compare", "write", "finish"}
              /\ row.notice = NoOne <=> row.at \in {"idle", "ended"}
          BY <1>1, <4>2, PaymentStatesAssumption
        <4>7. row.got <= version
          BY <1>1, <4>2 DEF StatesInv, StatesShapes, Readers
        <4>8. adrift' \in {adrift, adrift \cup {n}} /\ work[n] \in {work[n], NoOne}
          BY <3>1
        <4> QED
          BY <2>1, <3>1, <3>2, <4>2, <4>3, <4>4, <4>5, <4>6, <4>7, <4>8, MarkingKeeps
      <3> QED
        BY <2>1, <2>9, <3>4, <3>5 DEF Finish, LeavesNotice, Done, Gets
    <2>10. CASE CatchNotice(h)
      <3>1. /\ notice' = [notice EXCEPT ![n].status = "FAILED"] /\ reader' = [reader EXCEPT ![h] = Unread]
            /\ UNCHANGED <<version, mirror, peak, operation, overran>>
            /\ \/ work[n] # NoOne /\ work' = work /\ adrift' = adrift
               \/ work' = [work EXCEPT ![n] = NoOne] /\ adrift' = adrift \cup {n}
        BY <2>1, <2>10 DEF CatchNotice, Marks, LeavesNotice
      <3>2. notice'[n].status = "FAILED"
        BY <2>4, <3>1
      <3>3. n \notin adrift' => Attended(n)'
        BY <1>1, <2>2, <2>5, <3>1, <3>2 DEF Attended
      <3>4. work' = [work EXCEPT ![n] = work[n]] \/ work' = [work EXCEPT ![n] = NoOne]
        BY <2>6, <3>1
      <3>5. adrift' \in {adrift, adrift \cup {n}}
        BY <3>1
      <3>6. LeavesNotice(h)
        BY <3>1 DEF LeavesNotice
      <3>7. CASE work' = [work EXCEPT ![n] = work[n]]
        BY <2>1, <3>1, <3>3, <3>5, <3>6, <3>7, LeavingKeeps
      <3>8. CASE work' = [work EXCEPT ![n] = NoOne]
        BY <2>1, <3>1, <3>3, <3>5, <3>6, <3>8, LeavingKeeps
      <3> QED
        BY <3>4, <3>7, <3>8
    <2>11. CASE HandlerDies(h)
      <3>1. /\ reader' = [reader EXCEPT ![h] = Unread] /\ adrift' = adrift \cup {n}
            /\ UNCHANGED <<version, mirror, peak, notice, work, operation, overran>>
        BY <2>1, <2>11 DEF HandlerDies, LeavesNotice
      <3>2. /\ notice' = [notice EXCEPT ![n].status = notice[n].status] /\ work' = [work EXCEPT ![n] = work[n]]
            /\ n \in adrift' /\ adrift' \in {adrift, adrift \cup {n}}
        BY <2>6, <3>1
      <3>3. notice[n].status = "PROCESSED" => peak >= notice[n].sent
        BY DEF StatesInv, NoticeApplied
      <3>4. LeavesNotice(h)
        BY <3>1 DEF LeavesNotice
      <3> QED
        BY <2>1, <3>1, <3>2, <3>3, <3>4, LeavingKeeps
    <2> QED
      BY <1>3, <2>7, <2>8, <2>9, <2>10, <2>11
  <1> QED
    BY <1>2, <1>3

(* What happens outside the runs: the payment changes, a notice arrives, and is    *)
(* queued again.                                                                   *)
LEMMA OutsideStep ==
  ASSUME StatesInv, Changes \/ \E n \in Notices : Receive(n) \/ Recoverable(n)
  PROVE  StatesInv'
  <1> StatesShapes
    BY DEF StatesInv
  <1>1. UNCHANGED <<reader, operation, overran, mirror, peak>> /\ version' >= version /\ version' \in 1..VersionBound
    BY PaymentStatesAssumption DEF Changes, Receive, Recoverable, StatesShapes
  <1>2. \A n : TakenBy(n)' = TakenBy(n)
    BY <1>1 DEF TakenBy
  <1>3. Locked'
    BY <1>1 DEF StatesInv, Locked, Reconciling
  <1>4. version \in Nat /\ version' \in Nat /\ mirror \in Nat /\ peak \in Nat /\ peak <= version'
    BY <1>1, PaymentStatesAssumption DEF StatesShapes
  <1>5. \A p \in Readers : reader[p].got \in Nat /\ reader[p].got <= version'
    BY <1>1, <1>4 DEF StatesShapes, ReaderRow
  <1>6. CASE Changes
    <2>1. UNCHANGED <<notice, work, adrift>>
      BY <1>6 DEF Changes
    <2>2. \A n \in Notices : notice[n].sent <= version'
      BY <1>1, <1>4 DEF StatesShapes, NoticeRow
    <2>3. StatesShapes'
      BY <1>1, <1>4, <1>5, <2>1, <2>2 DEF StatesShapes
    <2>4. Unheard' /\ NoticeApplied' /\ \A p \in Readers : Newer(p)'
      BY <1>1, <2>1 DEF StatesInv, Unheard, NoticeApplied, Newer
    <2>5. \A n \in Notices \ adrift' : Attended(n)'
      BY <1>1, <1>2, <2>1 DEF StatesInv, Attended
    <2> QED
      BY <1>3, <2>3, <2>4, <2>5 DEF StatesInv
  <1>7. CASE \E n \in Notices : Receive(n) \/ Recoverable(n)
    <2>1. PICK n \in Notices : Receive(n) \/ Recoverable(n)
      BY <1>7
    <2>2. version' = version /\ 0 \in 0..TryBound /\ NoOne # 0
      BY <2>1, PaymentStatesAssumption DEF Receive, Recoverable
    <2>3. /\ notice' \in [Notices -> NoticeRow]
          /\ \A m \in Notices : notice'[m].sent <= version /\ (m # n => notice'[m] = notice[m])
      <3>1. CASE Receive(n)
        <4>1. PICK row : row = [status |-> "RECEIVED", sent |-> version]
          OBVIOUS
        <4>2. row \in NoticeRow /\ row.sent <= version
          BY <1>4, <4>1 DEF NoticeRow
        <4>3. notice' = [notice EXCEPT ![n] = row]
          BY <3>1, <4>1 DEF Receive
        <4> QED
          BY <4>2, <4>3 DEF StatesShapes
      <3>2. CASE Recoverable(n)
        BY <3>2 DEF Recoverable, StatesShapes
      <3> QED
        BY <2>1, <3>1, <3>2
    <2>4. /\ work' \in [Notices -> 0..TryBound \cup {NoOne}] /\ \A m \in Notices \ {n} : work'[m] = work[m]
          /\ work' = work \/ work'[n] = 0
      BY <2>1, <2>2 DEF Receive, Recoverable, StatesShapes
    <2>5. adrift' \subseteq Notices /\ adrift \subseteq adrift'
      BY <2>1 DEF Receive, Recoverable, StatesShapes
    <2>6. StatesShapes'
      BY <1>1, <2>2, <2>3, <2>4, <2>5 DEF StatesShapes
    <2>7. CASE Receive(n)
      <3>1. notice[n].status = "none" /\ notice'[n].status = "RECEIVED" /\ (n \notin adrift' => work'[n] = 0)
        BY <2>7 DEF Receive, StatesShapes
      <3>2. TakenBy(n) = {} /\ \A p \in Readers : reader[p].notice # n
        <4>1. \A h \in Handlers : reader[h].notice # n
          BY <3>1 DEF StatesInv, Unheard
        <4> QED
          BY <4>1, PaymentStatesAssumption DEF TakenBy, Readers, StatesShapes
      <3>3. Unheard'
        BY <1>1, <2>3, <2>4, <3>1 DEF StatesInv, Unheard
      <3>4. NoticeApplied'
        BY <1>1, <2>3, <3>1 DEF StatesInv, NoticeApplied
      <3>5. \A p \in Readers : Newer(p)'
        BY <1>1, <2>3, <3>2 DEF StatesInv, Newer
      <3>6. ASSUME NEW m \in Notices \ adrift', m # n
            PROVE  Attended(m)'
        BY <1>1, <1>2, <2>3, <2>4, <2>5, <3>6 DEF StatesInv, Attended
      <3>7. n \notin adrift' => Attended(n)'
        BY <1>2, <2>2, <3>1, <3>2 DEF Attended
      <3> QED
        BY <1>3, <2>6, <3>3, <3>4, <3>5, <3>6, <3>7 DEF StatesInv
    <2>8. CASE Recoverable(n)
      <3>1. notice' = notice /\ adrift' = adrift /\ notice[n].status \in Open
        BY <2>8 DEF Recoverable
      <3>2. Unheard'
        BY <1>1, <2>4, <3>1 DEF StatesInv, Unheard, Open
      <3>3. NoticeApplied' /\ \A p \in Readers : Newer(p)'
        BY <1>1, <3>1 DEF StatesInv, NoticeApplied, Newer
      <3>4. ASSUME NEW m \in Notices \ adrift'
            PROVE  Attended(m)'
        <4>1. Attended(m) /\ (work[m] # NoOne => work'[m] # NoOne)
          BY <2>2, <2>4, <3>1 DEF StatesInv
        <4> QED
          BY <1>1, <1>2, <3>1, <4>1 DEF Attended
      <3> QED
        BY <1>3, <2>6, <3>2, <3>3, <3>4 DEF StatesInv
    <2> QED
      BY <2>1, <2>7, <2>8
  <1> QED
    BY <1>6, <1>7

(* A job is taken: beside another run of the notice, it is adrift.                 *)
LEMMA TakeStep ==
  ASSUME StatesInv, NEW h \in Handlers, NEW n \in Notices, TakeNotice(h, n)
  PROVE  StatesInv'
  <1> StatesShapes
    BY DEF StatesInv
  <1>1. /\ reader \in [Readers -> ReaderRow] /\ Unread \in ReaderRow /\ version \in Nat
        /\ Unread.at = "idle" /\ Unread.notice = NoOne /\ Unread.got = 0 /\ h \in Readers
    BY ReaderIs DEF Readers
  <1>2. PICK row : row = [Unread EXCEPT !.at = "claim", !.notice = n]
    OBVIOUS
  <1>3. row \in ReaderRow /\ row.at = "claim" /\ row.notice = n /\ row.got = 0
    BY <1>2 DEF Unread, ReaderRow
  <1>4. /\ reader[h] = Unread /\ work[n] # NoOne /\ work[n] < TryBound
        /\ work' = [work EXCEPT ![n] = work[n] + 1] /\ reader' = [reader EXCEPT ![h] = row]
        /\ adrift' = IF TakenBy(n) = {} THEN adrift ELSE adrift \cup {n}
        /\ UNCHANGED <<version, mirror, peak, notice, operation, overran>>
    BY <1>2 DEF TakeNotice, TakenBy
  <1>5. /\ reader' \in [Readers -> ReaderRow] /\ reader'[h] = row /\ \A q \in Readers \ {h} : reader'[q] = reader[q]
    BY <1>1, <1>3, <1>4
  <1>6. /\ work' \in [Notices -> 0..TryBound \cup {NoOne}] /\ work'[n] # NoOne
        /\ \A m \in Notices \ {n} : work'[m] = work[m]
    <2>1. work[n] \in 0..TryBound /\ TryBound \in Nat
      BY <1>4, PaymentStatesAssumption DEF StatesShapes
    <2>2. work[n] + 1 \in 0..TryBound
      BY <1>4, <2>1
    <2> QED
      BY <1>4, <2>2, PaymentStatesAssumption DEF StatesShapes
  <1>7. StatesShapes'
    <2>1. \A q \in Readers : reader'[q].got <= version
      BY <1>1, <1>3, <1>5 DEF StatesShapes
    <2>2. \A k \in Handlers : reader'[k].at \in {"idle", "ended"} <=> reader'[k].notice = NoOne
      BY <1>3, <1>5, PaymentStatesAssumption DEF StatesShapes, Readers
    <2>3. \A c \in Crons : reader'[c].notice = NoOne /\ reader'[c].at \notin {"claim", "catch"}
      BY <1>5, PaymentStatesAssumption DEF StatesShapes, Readers
    <2> QED
      BY <1>4, <1>5, <1>6, <2>1, <2>2, <2>3 DEF StatesShapes
  <1>8. notice[n].status # "none"
    BY <1>4 DEF StatesInv, Unheard
  <1>9. Unheard'
    BY <1>3, <1>4, <1>5, <1>6, <1>8 DEF StatesInv, Unheard, Readers
  <1>10. NoticeApplied'
    BY <1>4 DEF StatesInv, NoticeApplied
  <1>11. \A q \in Readers : Newer(q)'
    BY <1>3, <1>4, <1>5 DEF StatesInv, Newer
  <1>12. ASSUME NEW m \in Notices \ adrift', m # n
         PROVE  Attended(m)'
    <2>1. Attended(m)
      BY <1>4, <1>12 DEF StatesInv
    <2>2. TakenBy(m)' = TakenBy(m) /\ \A k \in TakenBy(m) : reader'[k] = reader[k]
      BY <1>1, <1>3, <1>4, <1>5, <1>12, PaymentStatesAssumption DEF TakenBy, Readers
    <2> QED
      BY <1>4, <1>6, <1>12, <2>1, <2>2 DEF Attended
  <1>13. n \notin adrift' => Attended(n)'
    <2>1. SUFFICES ASSUME n \notin adrift' PROVE Attended(n)'
      OBVIOUS
    <2>2. TakenBy(n) = {} /\ n \notin adrift
      BY <1>4, <2>1
    <2>3. notice[n].status # "PROCESSING"
      BY <2>2 DEF StatesInv, Attended
    <2>4. \A k \in TakenBy(n)' : k = h
      BY <1>5, <2>2 DEF TakenBy, Readers
    <2> QED
      BY <1>4, <1>6, <2>3, <2>4 DEF Attended
  <1>14. Locked'
    <2>1. Reconciling' = Reconciling
      BY <1>5, PaymentStatesAssumption DEF Reconciling, Readers
    <2> QED
      BY <1>4, <2>1 DEF StatesInv, Locked
  <1> QED
    BY <1>7, <1>9, <1>10, <1>11, <1>12, <1>13, <1>14 DEF StatesInv

LEMMA CronStep ==
  ASSUME StatesInv, NEW c \in Crons, Lock(c) \/ Unlock(c) \/ CronDies(c)
  PROVE  StatesInv'
  <1> StatesShapes /\ Locked
    BY DEF StatesInv
  <1>1. /\ reader \in [Readers -> ReaderRow] /\ reader[c] \in ReaderRow /\ reader[c].got <= version /\ version \in Nat
        /\ Unread \in ReaderRow /\ Unread.notice = NoOne /\ Unread.got = 0 /\ c \in Readers /\ reader[c].notice = NoOne
    BY ReaderIs DEF Readers
  <1>2. PICK ended, got \in ReaderRow : /\ ended = [Unread EXCEPT !.at = "ended"] /\ got = [reader[c] EXCEPT !.at = "get"]
    BY <1>1 DEF ReaderRow, Working
  <1>3. PICK out \in ReaderRow : out = [reader[c] EXCEPT !.at = "ended"]
    BY <1>1 DEF ReaderRow, Working
  <1>4. \A row \in {ended, got, out} : row \in ReaderRow /\ row.notice = NoOne /\ row.got <= version
    BY <1>1, <1>2, <1>3 DEF ReaderRow, Unread
  <1>5. ended.at = "ended" /\ got.at = "get" /\ out.at = "ended"
    BY <1>1, <1>2, <1>3 DEF ReaderRow, Unread
  <1>6. ASSUME NEW row \in {ended, out}, reader' = [reader EXCEPT ![c] = row]
        PROVE  Reconciling' = Reconciling \ {c}
    BY <1>1, <1>5, <1>6 DEF Reconciling, Readers
  <1>7. ASSUME reader' = [reader EXCEPT ![c] = got]
        PROVE  Reconciling' = Reconciling \cup {c}
    BY <1>1, <1>5, <1>7 DEF Reconciling, Readers
  <1>8. CASE Lock(c)
    <2>1. reader[c].at = "idle" /\ UNCHANGED <<version, mirror, peak, notice, work, adrift>> /\ c \notin Reconciling
      BY <1>8 DEF Lock, Is, Reconciling
    <2>2. CASE operation.live /\ operation.owner # Window[c]
      <3>1. reader' = [reader EXCEPT ![c] = out] /\ UNCHANGED <<operation, overran>>
        BY <1>3, <1>8, <2>2 DEF Lock, Gets
      <3>2. Locked'
        BY <1>6, <3>1 DEF Locked
      <3>3. operation' \in [owner : {24, 168, NoOne}, live : BOOLEAN] /\ overran' \in BOOLEAN
        BY <3>1 DEF StatesShapes
      <3> QED
        BY <1>4, <1>5, <2>1, <3>1, <3>2, <3>3, RunKeeps
    <2>3. CASE ~(operation.live /\ operation.owner # Window[c])
      <3>1. PICK held : held = [owner |-> Window[c], live |-> TRUE]
        OBVIOUS
      <3>2. held \in [owner : {24, 168, NoOne}, live : BOOLEAN] /\ held.live
        BY <3>1, PaymentStatesAssumption
      <3>3. /\ reader' = [reader EXCEPT ![c] = got] /\ operation' = held
            /\ overran' = (overran \/ (operation.live /\ Reconciling # {}))
        BY <1>2, <1>8, <2>3, <3>1 DEF Lock, Gets
      <3>4. Locked'
        <4>1. SUFFICES ASSUME ~overran' PROVE Locked'
          BY DEF Locked
        <4>2. Reconciling = {}
          BY <3>3, <4>1 DEF Locked
        <4>3. Reconciling' = {c}
          BY <1>7, <3>3, <4>2
        <4> QED
          BY <3>2, <3>3, <4>3 DEF Locked
      <3>5. overran' \in BOOLEAN
        BY <3>3 DEF StatesShapes
      <3> QED
        BY <1>4, <1>5, <2>1, <3>2, <3>3, <3>4, <3>5, RunKeeps
    <2> QED
      BY <2>2, <2>3
  <1>9. CASE Unlock(c) \/ CronDies(c)
    <2>1. /\ c \in Reconciling /\ reader' = [reader EXCEPT ![c] = ended]
          /\ UNCHANGED <<version, mirror, peak, notice, work, overran, adrift>>
      BY <1>2, <1>9 DEF Unlock, CronDies, Quits
    <2>2. operation' \in [owner : {24, 168, NoOne}, live : BOOLEAN] /\ overran' \in BOOLEAN
      <3>1. PICK none : none = [owner |-> NoOne, live |-> FALSE]
        OBVIOUS
      <3>2. none \in [owner : {24, 168, NoOne}, live : BOOLEAN]
        BY <3>1
      <3>3. operation' \in {operation, none}
        BY <1>9, <3>1 DEF Unlock, CronDies
      <3> QED
        BY <2>1, <3>2, <3>3 DEF StatesShapes
    <2>3. Locked'
      <3>1. SUFFICES ASSUME ~overran PROVE Locked'
        BY <2>1 DEF Locked
      <3>2. Reconciling' = {}
        BY <1>6, <2>1, <3>1 DEF Locked
      <3> QED
        BY <3>2 DEF Locked
    <2> QED
      BY <1>4, <1>5, <2>1, <2>2, <2>3, RunKeeps
  <1> QED
    BY <1>8, <1>9

LEMMA StatesStep == StatesInv /\ [StatesNext]_stateVars => StatesInv'
  <1> SUFFICES ASSUME StatesInv, [StatesNext]_stateVars PROVE StatesInv'
    OBVIOUS
  <1>1. CASE Changes \/ \E n \in Notices : Receive(n) \/ Recoverable(n)
    BY <1>1, OutsideStep
  <1>2. CASE \E n \in Notices, h \in Handlers : TakeNotice(h, n)
    BY <1>2, TakeStep
  <1>3. ASSUME NEW h \in Handlers,
               ClaimNotice(h) \/ IgnoreNotice(h) \/ Finish(h) \/ Errs(h) \/ CatchNotice(h) \/ HandlerDies(h)
        PROVE  StatesInv'
    BY <1>3, HandlerStep
  <1>4. CASE \E c \in Crons : Lock(c) \/ Unlock(c) \/ CronDies(c)
    BY <1>4, CronStep
  <1>5. CASE \E p \in Readers : FetchPayment(p) \/ CompareState(p) \/ WriteState(p)
    BY <1>5, ReadStep
  <1>6. CASE OperationEnds
    <2>1. /\ operation' = [operation EXCEPT !.live = FALSE] /\ overran' = (overran \/ Reconciling # {})
          /\ UNCHANGED <<version, mirror, peak, notice, work, reader, adrift>>
      BY <1>6 DEF OperationEnds
    <2>2. StatesShapes /\ Locked
      BY DEF StatesInv
    <2>3. operation' \in [owner : {24, 168, NoOne}, live : BOOLEAN] /\ overran' \in BOOLEAN
      BY <2>1, <2>2 DEF StatesShapes
    <2>4. StatesShapes'
      BY <2>1, <2>2, <2>3 DEF StatesShapes
    <2>5. Unheard' /\ NoticeApplied' /\ \A p \in Readers : Newer(p)'
      BY <2>1 DEF StatesInv, Unheard, NoticeApplied, Newer
    <2>6. \A n \in Notices \ adrift' : Attended(n)'
      BY <2>1 DEF StatesInv, Attended, TakenBy
    <2>7. Locked'
      BY <2>1, <2>2 DEF Locked, Reconciling
    <2> QED
      BY <2>4, <2>5, <2>6, <2>7 DEF StatesInv
  <1>7. CASE UNCHANGED stateVars
    <2>1. UNCHANGED <<version, mirror, peak, notice, work, reader, operation, overran, adrift>>
      BY <1>7 DEF stateVars
    <2>2. StatesShapes' /\ Unheard' /\ NoticeApplied' /\ Locked'
      BY <2>1 DEF StatesInv, StatesShapes, Unheard, NoticeApplied, Locked, Reconciling
    <2>3. (\A p \in Readers : Newer(p)') /\ \A n \in Notices \ adrift' : Attended(n)'
      BY <2>1 DEF StatesInv, Newer, Attended, TakenBy
    <2> QED
      BY <2>2, <2>3 DEF StatesInv
  <1> QED
    BY <1>1, <1>2, <1>3, <1>4, <1>5, <1>6, <1>7 DEF StatesNext, Readers

(* The notices of payments: one that counts as processed has been applied, one     *)
(* that is open or in process is attended to unless it is adrift, and the          *)
(* reconciliation runs alone, unless a lease ended under it.                       *)
THEOREM NoticesCorrect == StatesSpec => []NoticesSafe
  <1>1. StatesInv => NoticesSafe
    <2> SUFFICES ASSUME StatesInv PROVE NoticesSafe
      OBVIOUS
    <2> StatesShapes
      BY DEF StatesInv
    <2>1. version \in Nat /\ mirror \in 0..peak /\ peak \in 0..version
      BY PaymentStatesAssumption DEF StatesShapes
    <2>2. \A n \in Notices : notice[n] \in NoticeRow /\ notice[n].sent \in 0..version /\ work[n] \in 0..TryBound \cup {NoOne}
      <3>1. ASSUME NEW n \in Notices
            PROVE  notice[n] \in NoticeRow /\ notice[n].sent \in 0..version
        <4>1. notice[n] \in NoticeRow /\ notice[n].sent \in Nat /\ notice[n].sent <= version
          BY DEF StatesShapes, NoticeRow
        <4> QED
          BY <2>1, <4>1
      <3> QED
        BY <3>1 DEF StatesShapes
    <2>3. \A p \in Readers : reader[p] \in ReaderRow /\ reader[p].got \in 0..version
      BY <2>1 DEF StatesShapes, ReaderRow
    <2>4. StatesTypeOK
      BY <2>1, <2>2, <2>3 DEF StatesTypeOK, StatesShapes, NoticeRow, ReaderRow, Readers
    <2>5. ReconciledAlone /\ NoticeApplied
      BY DEF StatesInv, Locked, ReconciledAlone
    <2>6. NoticeKept
      BY DEF StatesInv, Attended, NoticeKept, TakenBy
    <2> QED
      BY <2>4, <2>5, <2>6 DEF NoticesSafe
  <1> QED
    BY <1>1, StatesStart, StatesStep, PTL DEF StatesSpec

(* The mirror goes back only by a write that compared with an older mirror.        *)
THEOREM MirrorKept == StatesSpec => NoRollback
  <1> DEFINE Turn == mirror' < mirror =>
               \E p \in Handlers \cup Crons : Is(p, "write") /\ reader'[p] # reader[p] /\ reader[p].seen < mirror
  <1>1. StatesInv /\ [StatesNext]_stateVars => [Turn]_stateVars
    <2> SUFFICES ASSUME StatesInv, StatesNext, mirror' < mirror
                 PROVE  \E p \in Readers : Is(p, "write") /\ reader'[p] # reader[p] /\ reader[p].seen < mirror
      BY DEF Readers
    <2>1. mirror \in Nat /\ reader \in [Readers -> ReaderRow]
      BY DEF StatesInv, StatesShapes
    <2>2. \A p \in Readers : ~FetchPayment(p) /\ ~CompareState(p)
      BY <2>1 DEF FetchPayment, CompareState
    <2>3. ~Changes /\ ~OperationEnds /\ \A n \in Notices : ~Receive(n) /\ ~Recoverable(n)
      BY <2>1 DEF Changes, OperationEnds, Receive, Recoverable
    <2>4. \A n \in Notices, h \in Handlers : ~TakeNotice(h, n)
      BY <2>1 DEF TakeNotice
    <2>5. \A h \in Handlers : ~ClaimNotice(h) /\ ~IgnoreNotice(h) /\ ~Finish(h) /\ ~Errs(h) /\ ~CatchNotice(h) /\ ~HandlerDies(h)
      BY <2>1 DEF ClaimNotice, IgnoreNotice, Finish, Errs, CatchNotice, HandlerDies
    <2>6. \A c \in Crons : ~Lock(c) /\ ~Unlock(c) /\ ~CronDies(c)
      BY <2>1 DEF Lock, Unlock, CronDies
    <2>7. PICK p \in Readers : WriteState(p)
      BY <2>2, <2>3, <2>4, <2>5, <2>6 DEF StatesNext, Readers
    <2>8. reader[p].at = "write" /\ mirror' = reader[p].got
      BY <2>7 DEF WriteState, Is
    <2>9. reader[p].got >= reader[p].seen /\ reader[p].got \in Nat /\ reader[p].seen \in Nat
      BY <2>1, <2>8 DEF StatesInv, Newer, ReaderRow
    <2>10. reader[p].seen < mirror
      BY <2>1, <2>8, <2>9
    <2>11. PICK row : row = [reader[p] EXCEPT !.at = "finish", !.got = 0, !.seen = 0]
      OBVIOUS
    <2>12. reader' = [reader EXCEPT ![p] = row] /\ row.at = "finish"
      BY <2>1, <2>7, <2>11 DEF WriteState, ReaderRow
    <2>13. reader'[p] # reader[p]
      BY <2>1, <2>8, <2>12
    <2> QED
      BY <2>8, <2>10, <2>13 DEF Is
  <1> QED
    BY <1>1, StatesStart, StatesStep, PTL DEF StatesSpec, NoRollback

----------------------------------------------------------------------------
(* CsvSales.                                                                       *)

FileRows(layout, file) == {ParseCsv(layout, file)[i] : i \in DOMAIN ParseCsv(layout, file)}
AllRows    == UNION {FileRows(pair[1], pair[2]) : pair \in Layouts \X Files}
RowKeys    == {row.key : row \in AllRows}
RowIds     == {row.id : row \in AllRows}
RowOrder   == [by : Uploads, key : RowKeys, id : RowIds, noted : BOOLEAN, idNow : RowIds \cup {NoId}, live : BOOLEAN]
UploadRow  == [at : {"new", "rows", "creating", "undoing", "done", "failed", "refused"},
               layout : Layouts \cup {NoId}, file : Files \cup {<<>>}, rows : Seq(AllRows), known : SUBSET RowKeys]

(* A key tells of the id, if it does not tell of the line.                         *)
Keyed(row) == IF row.key[1] \in {"MERCADO_PAGO", "PAGBANK"} THEN row.key = <<row.key[1], row.id>> ELSE row.id = NoId

CsvShapes ==
  /\ imports \in [Uploads -> UploadRow] /\ beside \in [Uploads -> SUBSET Uploads]
  /\ sold \subseteq RowOrder /\ \A o \in sold : Keyed(o) /\ o.idNow \in {NoId, o.id}
  /\ \A i \in DOMAIN saleClaims : saleClaims[i] \in BOOLEAN
  /\ edits \in 0..EditBound

Holding(u)  == Identified(u) /\ imports[u].at \in {"creating", "undoing"}
Rest(u)     == {imports[u].rows[i] : i \in DOMAIN imports[u].rows}
OwnRows(u)  == FileRows(imports[u].layout, imports[u].file)
Hidden(o)   == ~o.noted /\ (o.id = NoId \/ o.idNow # o.id)
OrderOf(row) == \E o \in sold : o.key = row.key \/ (row.id # NoId /\ o.id = row.id)
PagSale(id) == \E o \in sold : o.key[1] = "PAGBANK" /\ o.id = id

(* A claim has its order, or somebody who holds it, or was given back.             *)
Kept(id)      == PagSale(id) \/ id \in loose \/ \E v \in Uploads : Holding(v) /\ OnRow(v).id = id
Dealt(u, row) == OrderOf(row) \/ (Identified(u) /\ Kept(row.id))

(* What an upload has behind it: rows that are dealt with; and what it knows: the  *)
(* orders of its rows, but for those that were hidden from it or that came of an   *)
(* upload beside it.                                                               *)
Upheld(u) ==
  LET at == imports[u].at IN
  /\ at \in {"new", "refused"} => \A o \in sold : o.by # u
  /\ at = "new" => beside[u] = {} /\ imports[u].file = <<>>
  /\ at # "new" => imports[u].layout \in Layouts /\ imports[u].file \in Files
  /\ at \notin {"new", "refused"} => ~Unreadable(imports[u].file)
  /\ at \in {"rows", "creating", "undoing", "done"} =>
       /\ Rest(u) \subseteq OwnRows(u)
       /\ \A row \in OwnRows(u) \ Rest(u) : Dealt(u, row)
       /\ \A row \in OwnRows(u) : row.key \in imports[u].known => OrderOf(row)
  /\ at = "done" => Rest(u) = {}
  /\ at \in {"creating", "undoing"} => imports[u].rows # <<>>
  /\ at = "creating" => OnRow(u).key \notin imports[u].known
  /\ at \in {"rows", "creating"} => \A o \in sold, row \in OwnRows(u) :
       o.key = row.key => o.by \in beside[u] \/ Hidden(o) \/ o.key \in imports[u].known

(* A claim is of one upload, and says whether its order is there.                  *)
Claimed ==
  /\ \A id \in DOMAIN saleClaims : Kept(id)
  /\ \A o \in sold : o.key[1] = "PAGBANK" => o.id \in DOMAIN saleClaims /\ saleClaims[o.id]
  /\ \A u \in Uploads : Holding(u) => OnRow(u).id \in DOMAIN saleClaims
  /\ \A u \in Uploads : Holding(u) /\ imports[u].at = "creating" => ~saleClaims[OnRow(u).id]
  /\ \A u, v \in Uploads : Holding(u) /\ Holding(v) /\ OnRow(u).id = OnRow(v).id => u = v

Together ==
  /\ \A u, v \in Uploads : v \in beside[u] => u \in beside[v] /\ u # v
  /\ \A u, v \in Uploads : InProgress(u) /\ InProgress(v) /\ u # v => v \in beside[u]

CsvInv == CsvShapes /\ Claimed /\ Together /\ ImportedOnce /\ \A u \in Uploads : Upheld(u)

LEMMA RowsOfFile ==
  ASSUME NEW layout \in Layouts, NEW file \in Files
  PROVE  /\ ParseCsv(layout, file) \in Seq(FileRows(layout, file)) /\ FileRows(layout, file) \subseteq AllRows
         /\ \A row \in FileRows(layout, file) : Keyed(row) /\ (row.key[1] = "PAGBANK" <=> layout = "PAGBANK")
  <1>1. SaleLines(file) \subseteq 1..Len(file) /\ Len(file) \in Nat
    <2>1. PICK S : file \in Seq(S)
      BY CsvAssumption
    <2>2. Len(file) \in Nat /\ DOMAIN file = 1..Len(file)
      BY <2>1, LenProperties
    <2> QED
      BY <2>2 DEF SaleLines
  <1>2. IsFiniteSet(SaleLines(file))
    <2>1. IsFiniteSet(1..Len(file))
      BY <1>1, FS_Interval
    <2> QED
      BY <1>1, <2>1, FS_Subset
  <1>3. PICK n \in Nat : n = Cardinality(SaleLines(file))
    BY <1>2, FS_CardinalityType
  <1>4. ParseCsv(layout, file) = [k \in 1..n |-> LET i == SaleLine(file, k) IN ParseLine(layout, i + 1, file[i])]
    BY <1>3 DEF ParseCsv
  <1>5. PICK lines : lines = ParseCsv(layout, file)
    OBVIOUS
  <1>6. lines \in [1..n -> {lines[i] : i \in 1..n}] /\ DOMAIN lines = 1..n
    BY <1>4, <1>5
  <1>7. FileRows(layout, file) = {lines[i] : i \in 1..n}
    BY <1>5, <1>6 DEF FileRows
  <1>8. ASSUME NEW k \in 1..n
        PROVE  Keyed(lines[k]) /\ (lines[k].key[1] = "PAGBANK" <=> layout = "PAGBANK")
    <2>1. PICK i : lines[k] = ParseLine(layout, i + 1, file[i])
      BY <1>4, <1>5
    <2>2. CASE layout = "MERCADO_PAGO"
      BY <2>1, <2>2 DEF ParseLine, MercadoPagoRow, Keyed
    <2>3. CASE layout = "PAGBANK"
      BY <2>1, <2>3 DEF ParseLine, PagBankRow, Keyed
    <2>4. CASE layout \notin {"MERCADO_PAGO", "PAGBANK"}
      BY <2>1, <2>4 DEF ParseLine, SimpleRow, Keyed
    <2> QED
      BY <2>2, <2>3, <2>4
  <1>9. FileRows(layout, file) \subseteq AllRows
    <2>1. <<layout, file>> \in Layouts \X Files
      OBVIOUS
    <2> QED
      BY <2>1 DEF AllRows
  <1> QED
    BY <1>5, <1>6, <1>7, <1>8, <1>9, IsASeq

(* No sale of a file is passed over: each of its lines has a row.                  *)
THEOREM EverySaleHasARow ==
  ASSUME NEW layout \in Layouts, NEW file \in Files, NEW i \in SaleLines(file)
  PROVE  \E k \in DOMAIN ParseCsv(layout, file) : ParseCsv(layout, file)[k] = ParseLine(layout, i + 1, file[i])
  <1>1. PICK S : S = SaleLines(file)
    OBVIOUS
  <1>2. S \subseteq Nat /\ IsFiniteSet(S)
    <2>1. PICK T : file \in Seq(T)
      BY CsvAssumption
    <2>2. Len(file) \in Nat /\ DOMAIN file = 1..Len(file)
      BY <2>1, LenProperties
    <2>3. S \subseteq 1..Len(file) /\ IsFiniteSet(1..Len(file))
      BY <1>1, <2>2, FS_Interval DEF SaleLines
    <2>4. IsFiniteSet(S)
      BY <2>3, FS_Subset
    <2> QED
      BY <2>2, <2>3, <2>4
  <1> DEFINE UpTo(j) == {m \in S : m <= j}
  <1>3. \A j \in S : UpTo(j) \subseteq S /\ IsFiniteSet(UpTo(j)) /\ j \in UpTo(j)
    BY <1>2, FS_Subset
  <1>4. ASSUME NEW j \in S, NEW l \in S, j < l
        PROVE  Cardinality(UpTo(j)) < Cardinality(UpTo(l))
    <2>1. j \in Nat /\ l \in Nat /\ \A m \in S : m \in Nat
      BY <1>2
    <2>2. \A m \in S : m <= j => m <= l
      BY <1>4, <2>1
    <2>3. UpTo(j) \subseteq UpTo(l) /\ l \notin UpTo(j) /\ l \in UpTo(l)
      <3>1. UpTo(j) \subseteq UpTo(l)
        BY <2>2
      <3>2. ~(l <= j) /\ l <= l
        BY <1>4, <2>1
      <3> QED
        BY <3>1, <3>2
    <2>4. UpTo(j) # UpTo(l) /\ IsFiniteSet(UpTo(l))
      BY <1>3, <2>3
    <2> HIDE DEF UpTo
    <2>5. /\ Cardinality(UpTo(j)) \in Nat /\ Cardinality(UpTo(l)) \in Nat /\ Cardinality(UpTo(j)) <= Cardinality(UpTo(l))
          /\ Cardinality(UpTo(j)) = Cardinality(UpTo(l)) => UpTo(j) = UpTo(l)
      BY <1>3, <2>3, <2>4, FS_Subset, FS_CardinalityType
    <2> QED
      BY <2>4, <2>5
  <1>5. PICK k : k = Cardinality(UpTo(i))
    OBVIOUS
  <1>6. k \in 1..Cardinality(S)
    <2>1. UpTo(i) \subseteq S /\ IsFiniteSet(UpTo(i)) /\ UpTo(i) # {}
      BY <1>1, <1>3
    <2>2. Cardinality(UpTo(i)) \in Nat /\ Cardinality(S) \in Nat /\ Cardinality(UpTo(i)) <= Cardinality(S)
      BY <1>2, <2>1, FS_CardinalityType, FS_Subset
    <2>3. Cardinality(UpTo(i)) # 0
      BY <2>1, FS_EmptySet
    <2> QED
      BY <1>5, <2>2, <2>3
  <1>7. SaleLine(file, k) = i
    <2>1. ASSUME NEW j \in S, Cardinality(UpTo(j)) = k
          PROVE  j = i
      <3>1. j \in Nat /\ i \in Nat /\ i \in S
        BY <1>1, <1>2
      <3>2. Cardinality(UpTo(j)) \in Nat /\ Cardinality(UpTo(i)) \in Nat
        BY <1>3, <3>1, FS_CardinalityType
      <3>3. ~(j < i) /\ ~(i < j)
        BY <1>4, <1>5, <2>1, <3>1, <3>2
      <3> QED
        BY <3>1, <3>3
    <2>2. i \in S /\ Cardinality(UpTo(i)) = k
      BY <1>1, <1>5
    <2>3. i = CHOOSE j \in S : Cardinality(UpTo(j)) = k
      BY <2>1, <2>2
    <2> QED
      BY <1>1, <2>3 DEF SaleLine
  <1> QED
    BY <1>1, <1>6, <1>7 DEF ParseCsv

LEMMA Heads ==
  ASSUME NEW lines \in Seq(AllRows), lines # <<>>
  PROVE  /\ Head(lines) \in AllRows /\ Tail(lines) \in Seq(AllRows)
         /\ {lines[i] : i \in DOMAIN lines} = {Head(lines)} \cup {Tail(lines)[i] : i \in DOMAIN Tail(lines)}
  <1>1. Len(lines) \in Nat \ {0} /\ DOMAIN lines = 1..Len(lines) /\ Head(lines) = lines[1] /\ \A i \in 1..Len(lines) : lines[i] \in AllRows
    BY EmptySeq, LenProperties, ElementOfSeq, HeadTailProperties
  <1>2. /\ Tail(lines) \in Seq(AllRows) /\ Len(Tail(lines)) = Len(lines) - 1 /\ DOMAIN Tail(lines) = 1..(Len(lines) - 1)
        /\ \A i \in 1..(Len(lines) - 1) : Tail(lines)[i] = lines[i + 1]
    BY <1>1, HeadTailProperties, LenProperties
  <1>3. \A i \in 1..Len(lines) : i = 1 \/ (i - 1 \in 1..(Len(lines) - 1) /\ i = (i - 1) + 1)
    BY <1>1
  <1>4. \A i \in 1..(Len(lines) - 1) : i + 1 \in 1..Len(lines)
    BY <1>1
  <1>5. 1 \in 1..Len(lines)
    BY <1>1
  <1>6. ASSUME NEW i \in DOMAIN lines
        PROVE  lines[i] \in {Head(lines)} \cup {Tail(lines)[j] : j \in DOMAIN Tail(lines)}
    <2>1. CASE i = 1
      BY <1>1, <2>1
    <2>2. CASE i # 1
      <3>1. PICK j \in DOMAIN Tail(lines) : i = j + 1
        BY <1>1, <1>2, <1>3, <1>6, <2>2
      <3> QED
        BY <1>2, <3>1
    <2> QED
      BY <2>1, <2>2
  <1>7. \A j \in DOMAIN Tail(lines) : Tail(lines)[j] \in {lines[i] : i \in DOMAIN lines}
    BY <1>1, <1>2, <1>4
  <1>8. Head(lines) \in {lines[i] : i \in DOMAIN lines}
    BY <1>1, <1>5
  <1> QED
    BY <1>1, <1>2, <1>6, <1>7, <1>8

(* What an assignment to an upload leaves.                                         *)
Others(u) == \A v \in Uploads \ {u} : imports'[v] = imports[v]

LEMMA ReachesIs ==
  ASSUME CsvShapes, NEW u \in Uploads, NEW at \in {"rows", "creating", "undoing", "done", "failed"}, Reaches(u, at)
  PROVE  /\ imports' \in [Uploads -> UploadRow] /\ Others(u) /\ imports'[u].at = at
         /\ imports'[u].layout = imports[u].layout /\ imports'[u].file = imports[u].file
         /\ imports'[u].rows = imports[u].rows /\ imports'[u].known = imports[u].known
  <1>1. PICK old \in UploadRow : old = imports[u]
    BY DEF CsvShapes
  <1>2. PICK row : row = [old EXCEPT !.at = at]
    OBVIOUS
  <1>3. /\ row.at = at /\ row.layout = old.layout /\ row.file = old.file /\ row.rows = old.rows /\ row.known = old.known
    BY <1>1, <1>2 DEF UploadRow
  <1>4. row \in UploadRow
    BY <1>1, <1>2 DEF UploadRow
  <1>5. imports' = [imports EXCEPT ![u] = row]
    BY <1>1, <1>2 DEF Reaches
  <1>6. imports' \in [Uploads -> UploadRow] /\ Others(u) /\ imports'[u] = row
    BY <1>4, <1>5 DEF CsvShapes, Others
  <1> QED
    BY <1>1, <1>3, <1>6

LEMMA NextRowIs ==
  ASSUME CsvShapes, NEW u \in Uploads, NEW keys \in SUBSET RowKeys, NextRow(u, keys), imports[u].rows # <<>>
  PROVE  /\ imports' \in [Uploads -> UploadRow] /\ Others(u) /\ imports'[u].at = "rows"
         /\ imports'[u].layout = imports[u].layout /\ imports'[u].file = imports[u].file
         /\ imports'[u].rows = Tail(imports[u].rows) /\ imports'[u].known = imports[u].known \cup keys
         /\ OnRow(u) \in AllRows /\ Rest(u) = {OnRow(u)} \cup Rest(u)'
  <1>1. PICK old \in UploadRow : old = imports[u]
    BY DEF CsvShapes
  <1>2. old.rows \in Seq(AllRows) /\ old.known \in SUBSET RowKeys
    BY <1>1 DEF UploadRow
  <1>3. PICK rest, known : rest = Tail(old.rows) /\ known = old.known \cup keys
    OBVIOUS
  <1>4. rest \in Seq(AllRows) /\ known \in SUBSET RowKeys
    BY <1>1, <1>2, <1>3, Heads
  <1>5. PICK row : row = [old EXCEPT !.at = "rows", !.rows = rest, !.known = known]
    OBVIOUS
  <1>6. /\ row.at = "rows" /\ row.layout = old.layout /\ row.file = old.file /\ row.rows = rest /\ row.known = known
    BY <1>1, <1>5 DEF UploadRow
  <1>7. row \in UploadRow
    BY <1>1, <1>4, <1>5 DEF UploadRow
  <1>8. imports' = [imports EXCEPT ![u] = row]
    BY <1>1, <1>3, <1>5 DEF NextRow
  <1>9. imports' \in [Uploads -> UploadRow] /\ Others(u) /\ imports'[u] = row
    BY <1>7, <1>8 DEF CsvShapes, Others
  <1>10. OnRow(u) \in AllRows /\ Rest(u) = {OnRow(u)} \cup Rest(u)'
    <2>1. Rest(u)' = {rest[i] : i \in DOMAIN rest}
      BY <1>6, <1>9 DEF Rest
    <2>2. Rest(u) = {old.rows[i] : i \in DOMAIN old.rows} /\ OnRow(u) = Head(old.rows)
      BY <1>1 DEF Rest, OnRow
    <2> QED
      BY <1>1, <1>2, <1>3, <2>1, <2>2, Heads
  <1> QED
    BY <1>1, <1>3, <1>6, <1>9, <1>10

LEMMA CsvStart == CsvInit => CsvInv
  <1> SUFFICES ASSUME CsvInit PROVE CsvInv
    OBVIOUS
  <1>1. PICK row : row = Waiting
    OBVIOUS
  <1>2. row \in UploadRow /\ row.at = "new" /\ row.file = <<>>
    <2>1. <<>> \in Seq(AllRows)
      BY EmptySeq
    <2> QED
      BY <1>1, <2>1 DEF Waiting, UploadRow
  <1>3. imports = [u \in Uploads |-> row] /\ beside = [u \in Uploads |-> {}] /\ sold = {} /\ DOMAIN saleClaims = {} /\ edits = 0
    BY <1>1 DEF CsvInit
  <1>4. \A u \in Uploads : imports[u].at = "new" /\ imports[u].file = <<>>
    BY <1>2, <1>3
  <1>5. CsvShapes
    BY <1>2, <1>3, CsvAssumption DEF CsvShapes
  <1>6. Claimed /\ Together
    BY <1>3, <1>4 DEF Claimed, Together, Holding, InProgress
  <1>7. ImportedOnce
    BY <1>3 DEF ImportedOnce
  <1>8. \A u \in Uploads : Upheld(u)
    BY <1>3, <1>4 DEF Upheld
  <1> QED
    BY <1>5, <1>6, <1>7, <1>8 DEF CsvInv

(* One that is not touched upholds what it did, if no order and no claim is lost,  *)
(* and a new order is of somebody in progress beside it.                           *)
LEMMA Upholds ==
  ASSUME CsvInv, NEW v \in Uploads, imports'[v] = imports[v],
         \A id : Kept(id) => Kept(id)', \A row : OrderOf(row) => OrderOf(row)',
         \A p \in sold' : \/ \E o \in sold : o.by = p.by /\ o.key = p.key /\ (Hidden(o) => Hidden(p))
                          \/ p.by \in Uploads \ {v} /\ InProgress(p.by),
         beside[v] \subseteq beside'[v], imports[v].at = "new" => beside'[v] = beside[v]
  PROVE  Upheld(v)'
  <1>1. PICK at, lines, known, file, layout : /\ at = imports[v].at /\ lines = imports[v].rows /\ known = imports[v].known
                                             /\ file = imports[v].file /\ layout = imports[v].layout
    OBVIOUS
  <1>2. /\ at = imports'[v].at /\ lines = imports'[v].rows /\ known = imports'[v].known
        /\ file = imports'[v].file /\ layout = imports'[v].layout
    BY <1>1
  <1>3. Rest(v)' = Rest(v) /\ OwnRows(v)' = OwnRows(v) /\ OnRow(v)' = OnRow(v) /\ (Identified(v) <=> Identified(v)')
    BY DEF Rest, OwnRows, OnRow, Identified
  <1>4. Upheld(v)
    BY DEF CsvInv
  <1>5. at \in {"new", "refused"} => \A p \in sold' : p.by # v
    BY <1>1, <1>4 DEF Upheld
  <1>6. \A row : Dealt(v, row) => Dealt(v, row)'
    BY <1>3 DEF Dealt
  <1>7. at \in {"rows", "creating", "undoing", "done"} =>
          /\ Rest(v)' \subseteq OwnRows(v)'
          /\ \A row \in OwnRows(v)' \ Rest(v)' : Dealt(v, row)'
          /\ \A row \in OwnRows(v)' : row.key \in known => OrderOf(row)'
    BY <1>1, <1>3, <1>4, <1>6 DEF Upheld
  <1>8. ASSUME at \in {"rows", "creating"}, NEW p \in sold', NEW row \in OwnRows(v)', p.key = row.key
        PROVE  p.by \in beside'[v] \/ Hidden(p) \/ p.key \in known
    <2>1. CASE \E o \in sold : o.by = p.by /\ o.key = p.key /\ (Hidden(o) => Hidden(p))
      BY <1>1, <1>3, <1>4, <1>8, <2>1 DEF Upheld
    <2>2. CASE p.by \in Uploads \ {v} /\ InProgress(p.by)
      BY <1>1, <1>8, <2>2 DEF CsvInv, Together, InProgress
    <2> QED
      BY <2>1, <2>2
  <1>9. /\ at = "new" => beside'[v] = {} /\ file = <<>>
        /\ at # "new" => layout \in Layouts /\ file \in Files
        /\ at \notin {"new", "refused"} => ~Unreadable(file)
        /\ at = "done" => Rest(v)' = {}
        /\ at \in {"creating", "undoing"} => lines # <<>>
        /\ at = "creating" => OnRow(v)'.key \notin known
    BY <1>1, <1>3, <1>4 DEF Upheld
  <1>10. \A p \in sold' : Hidden(p) = Hidden(p)'
    BY DEF Hidden
  <1> QED
    BY <1>2, <1>5, <1>7, <1>8, <1>9, <1>10 DEF Upheld

(* If no order changes, those that are there stay imported once.                   *)
LEMMA SameSales ==
  ASSUME CsvInv, sold' = sold, beside' = beside
  PROVE  /\ ImportedOnce' /\ \A row : OrderOf(row) => OrderOf(row)'
         /\ \A id : PagSale(id) <=> PagSale(id)'
         /\ \A v \in Uploads : \A p \in sold' : \E o \in sold : o.by = p.by /\ o.key = p.key /\ (Hidden(o) => Hidden(p))
  <1>1. ImportedOnce'
    BY DEF CsvInv, ImportedOnce
  <1>2. \A row : OrderOf(row) => OrderOf(row)'
    BY DEF OrderOf
  <1>3. \A id : PagSale(id) <=> PagSale(id)'
    BY DEF PagSale
  <1> QED
    BY <1>1, <1>2, <1>3

(* A row that is dealt with is left behind.                                        *)
LEMMA AdvanceKeeps ==
  ASSUME CsvInv, NEW u \in Uploads, imports[u].at = "rows", imports[u].rows # <<>>, Dealt(u, OnRow(u)),
         NextRow(u, {}), UNCHANGED <<sold, saleClaims, beside, loose, edits>>
  PROVE  CsvInv'
  <1> CsvShapes
    BY DEF CsvInv
  <1>1. /\ imports' \in [Uploads -> UploadRow] /\ Others(u) /\ imports'[u].at = "rows"
        /\ imports'[u].layout = imports[u].layout /\ imports'[u].file = imports[u].file
        /\ imports'[u].known = imports[u].known /\ Rest(u) = {OnRow(u)} \cup Rest(u)'
    <2>1. {} \in SUBSET RowKeys /\ imports[u].known \cup {} = imports[u].known
      OBVIOUS
    <2> QED
      BY <2>1, NextRowIs
  <1>2. CsvShapes'
    BY <1>1 DEF CsvShapes
  <1>3. \A v \in Uploads : /\ Holding(v) <=> Holding(v)'
                           /\ InProgress(v) <=> InProgress(v)'
                           /\ Holding(v) => imports'[v] = imports[v] /\ OnRow(v)' = OnRow(v)
    BY <1>1 DEF Others, Holding, Identified, InProgress, OnRow
  <1>4. \A id : Kept(id) <=> Kept(id)'
    BY <1>3, SameSales DEF Kept
  <1>5. Claimed'
    BY <1>3, <1>4 DEF CsvInv, Claimed
  <1>6. Together'
    BY <1>3 DEF CsvInv, Together
  <1>7. ASSUME NEW v \in Uploads, v # u
        PROVE  Upheld(v)'
    BY <1>1, <1>4, <1>7, SameSales, Upholds DEF Others
  <1>8. Upheld(u)'
    <2>1. Upheld(u) /\ imports[u].at = "rows"
      BY DEF CsvInv
    <2>2. OwnRows(u)' = OwnRows(u) /\ (Identified(u) <=> Identified(u)')
      BY <1>1 DEF OwnRows, Identified
    <2>3. \A row : Dealt(u, row) => Dealt(u, row)'
      BY <1>4, <2>2, SameSales DEF Dealt
    <2>4. Rest(u)' \subseteq OwnRows(u)' /\ \A row \in OwnRows(u)' \ Rest(u)' : Dealt(u, row)'
      BY <1>1, <2>1, <2>2, <2>3 DEF Upheld
    <2>5. \A row \in OwnRows(u)' : row.key \in imports'[u].known => OrderOf(row)'
      BY <1>1, <2>1, <2>2, SameSales DEF Upheld
    <2>6. /\ imports'[u].layout \in Layouts /\ imports'[u].file \in Files /\ ~Unreadable(imports'[u].file)
      BY <1>1, <2>1 DEF Upheld
    <2>7. \A o \in sold', row \in OwnRows(u)' :
            o.key = row.key => o.by \in beside'[u] \/ Hidden(o)' \/ o.key \in imports'[u].known
      BY <1>1, <2>1, <2>2 DEF Upheld, Hidden
    <2> QED
      BY <1>1, <2>4, <2>5, <2>6, <2>7 DEF Upheld
  <1> QED
    BY <1>2, <1>5, <1>6, <1>7, <1>8, SameSales DEF CsvInv

(* A request moves on with the rows it has, and gives nothing up.                  *)
LEMMA TurnKeeps ==
  ASSUME CsvInv, NEW u \in Uploads, UNCHANGED <<sold, saleClaims, beside, loose, edits>>,
         \/ imports[u].at = "creating" /\ Reaches(u, "undoing")
         \/ imports[u].at = "rows" /\ imports[u].rows = <<>> /\ Reaches(u, "done")
  PROVE  CsvInv'
  <1> CsvShapes
    BY DEF CsvInv
  <1>1. PICK at \in {"undoing", "done"} : /\ Reaches(u, at)
                                          /\ at = "undoing" => imports[u].at = "creating"
                                          /\ at = "done" => imports[u].at = "rows" /\ imports[u].rows = <<>>
    OBVIOUS
  <1>2. /\ imports' \in [Uploads -> UploadRow] /\ Others(u) /\ imports'[u].at = at
        /\ imports'[u].layout = imports[u].layout /\ imports'[u].file = imports[u].file
        /\ imports'[u].rows = imports[u].rows /\ imports'[u].known = imports[u].known
    BY <1>1, ReachesIs
  <1>3. CsvShapes'
    BY <1>2 DEF CsvShapes
  <1>4. \A v \in Uploads : /\ Holding(v) <=> Holding(v)'
                           /\ imports'[v].at = "creating" => imports[v].at = "creating"
    BY <1>1, <1>2 DEF Others, Holding, Identified, InProgress, OnRow
  <1>5. \A v \in Uploads : (InProgress(v)' => InProgress(v)) /\ OnRow(v)' = OnRow(v)
    BY <1>1, <1>2 DEF Others, InProgress, OnRow
  <1>6. \A id : Kept(id) <=> Kept(id)'
    BY <1>4, <1>5, SameSales DEF Kept
  <1>7. Claimed'
    BY <1>4, <1>5, <1>6 DEF CsvInv, Claimed
  <1>8. Together'
    BY <1>5 DEF CsvInv, Together
  <1>9. ASSUME NEW v \in Uploads, v # u
        PROVE  Upheld(v)'
    BY <1>2, <1>6, <1>9, SameSales, Upholds DEF Others
  <1>10. Upheld(u)'
    <2>1. Upheld(u) /\ imports[u].at \in {"creating", "rows"}
      BY <1>1 DEF CsvInv
    <2>2. OwnRows(u)' = OwnRows(u) /\ Rest(u)' = Rest(u) /\ (Identified(u) <=> Identified(u)')
      BY <1>2 DEF OwnRows, Rest, Identified
    <2>3. \A row : Dealt(u, row) => Dealt(u, row)'
      BY <1>6, <2>2, SameSales DEF Dealt
    <2>4. Rest(u)' \subseteq OwnRows(u)' /\ \A row \in OwnRows(u)' \ Rest(u)' : Dealt(u, row)'
      BY <2>1, <2>2, <2>3 DEF Upheld
    <2>5. \A row \in OwnRows(u)' : row.key \in imports'[u].known => OrderOf(row)'
      BY <1>2, <2>1, <2>2, SameSales DEF Upheld
    <2>6. /\ imports'[u].layout \in Layouts /\ imports'[u].file \in Files /\ ~Unreadable(imports'[u].file)
      BY <1>2, <2>1 DEF Upheld
    <2>7. imports[u].rows = <<>> => Rest(u)' = {}
      <3>1. DOMAIN <<>> = {}
        OBVIOUS
      <3>2. imports[u].rows = <<>> => Rest(u) = {}
        BY <3>1, Zenon DEF Rest
      <3> QED
        BY <2>2, <3>2
    <2>8. imports[u].at = "creating" => imports[u].rows # <<>>
      BY <2>1 DEF Upheld
    <2> QED
      BY <1>1, <1>2, <2>4, <2>5, <2>6, <2>7, <2>8 DEF Upheld
  <1> QED
    BY <1>3, <1>7, <1>8, <1>9, <1>10, SameSales DEF CsvInv

(* An upload ends: the claim it held may go, and then it has no order.             *)
LEMMA EndKeeps ==
  ASSUME CsvInv, NEW u \in Uploads, InProgress(u), Reaches(u, "failed"), UNCHANGED <<sold, beside, edits>>,
         loose' = LooseOf(u),
         \/ saleClaims' = saleClaims
         \/ /\ Holding(u) /\ ~saleClaims[OnRow(u).id]
            /\ saleClaims' = [i \in DOMAIN saleClaims \ {OnRow(u).id} |-> saleClaims[i]]
  PROVE  CsvInv'
  <1> CsvShapes /\ Claimed
    BY DEF CsvInv
  <1>1. /\ imports' \in [Uploads -> UploadRow] /\ Others(u) /\ imports'[u].at = "failed"
        /\ imports'[u].layout = imports[u].layout /\ imports'[u].file = imports[u].file
    BY ReachesIs
  <1>2. /\ DOMAIN saleClaims' \subseteq DOMAIN saleClaims
        /\ \A id \in DOMAIN saleClaims' : saleClaims'[id] = saleClaims[id]
        /\ \A id \in DOMAIN saleClaims : /\ saleClaims[id] => id \in DOMAIN saleClaims'
                                         /\ ~Holding(u) \/ OnRow(u).id # id => id \in DOMAIN saleClaims'
    OBVIOUS
  <1>3. CsvShapes'
    BY <1>1, <1>2 DEF CsvShapes
  <1>4. \A v \in Uploads : /\ Holding(v)' => Holding(v) /\ v # u
                           /\ Holding(v) /\ v # u => Holding(v)'
                           /\ v # u => OnRow(v)' = OnRow(v) /\ imports'[v] = imports[v]
                           /\ InProgress(v)' => InProgress(v)
    BY <1>1 DEF Others, Holding, Identified, InProgress, OnRow
  <1>5. loose \subseteq loose' /\ (Holding(u) => OnRow(u).id \in loose')
    BY DEF LooseOf, Holding
  <1>6. \A id : Kept(id) => Kept(id)'
    BY <1>4, <1>5, SameSales DEF Kept
  <1>7. Claimed'
    <2>1. \A id \in DOMAIN saleClaims' : Kept(id)'
      BY <1>2, <1>6 DEF Claimed
    <2>2. \A o \in sold' : o.key[1] = "PAGBANK" => o.id \in DOMAIN saleClaims' /\ saleClaims'[o.id]
      BY <1>2 DEF Claimed
    <2>3. ASSUME NEW v \in Uploads, Holding(v)'
          PROVE  OnRow(v)'.id \in DOMAIN saleClaims' /\ (imports'[v].at = "creating" => ~saleClaims'[OnRow(v)'.id])
      <3>1. v # u /\ Holding(v) /\ OnRow(v)' = OnRow(v) /\ imports'[v] = imports[v]
        BY <1>4, <2>3
      <3>2. OnRow(v).id \in DOMAIN saleClaims /\ (imports[v].at = "creating" => ~saleClaims[OnRow(v).id])
        BY <3>1 DEF Claimed
      <3>3. ~Holding(u) \/ OnRow(u).id # OnRow(v).id
        BY <3>1 DEF Claimed
      <3> QED
        BY <1>2, <3>1, <3>2, <3>3
    <2>4. \A v, w \in Uploads : Holding(v)' /\ Holding(w)' /\ OnRow(v)'.id = OnRow(w)'.id => v = w
      BY <1>4 DEF Claimed
    <2> QED
      BY <2>1, <2>2, <2>3, <2>4 DEF Claimed
  <1>8. Together'
    BY <1>4 DEF CsvInv, Together
  <1>9. ASSUME NEW v \in Uploads, v # u
        PROVE  Upheld(v)'
    BY <1>4, <1>6, <1>9, SameSales, Upholds
  <1>10. Upheld(u)'
    <2>1. Upheld(u) /\ imports[u].at \in {"creating", "undoing", "rows"}
      BY DEF CsvInv, InProgress
    <2>2. imports'[u].layout \in Layouts /\ imports'[u].file \in Files /\ ~Unreadable(imports'[u].file)
      BY <1>1, <2>1 DEF Upheld
    <2> QED
      BY <1>1, <2>2 DEF Upheld
  <1> QED
    BY <1>3, <1>7, <1>8, <1>9, <1>10, SameSales DEF CsvInv

(* The row that an upload is on, and what its layout says of it.                   *)
LEMMA RowIs ==
  ASSUME CsvInv, NEW u \in Uploads, imports[u].at \in {"rows", "creating", "undoing"}, imports[u].rows # <<>>
  PROVE  /\ OnRow(u) \in AllRows /\ OnRow(u) \in OwnRows(u) /\ OnRow(u) \in Rest(u)
         /\ \A row \in OwnRows(u) : Keyed(row) /\ (row.key[1] = "PAGBANK" <=> Identified(u))
         /\ imports[u].layout \in Layouts /\ imports[u].file \in Files
  <1>1. Upheld(u)
    BY DEF CsvInv
  <1>2. imports[u].layout \in Layouts /\ imports[u].file \in Files /\ Rest(u) \subseteq OwnRows(u)
    BY <1>1 DEF Upheld
  <1>3. \A row \in OwnRows(u) : Keyed(row) /\ (row.key[1] = "PAGBANK" <=> Identified(u))
    BY <1>2, RowsOfFile DEF OwnRows, Identified
  <1>4. imports[u].rows \in Seq(AllRows)
    BY DEF CsvInv, CsvShapes, UploadRow
  <1>5. OnRow(u) \in AllRows /\ OnRow(u) \in Rest(u)
    BY <1>4, Heads DEF OnRow, Rest
  <1> QED
    BY <1>2, <1>3, <1>5

(* Rows are claimed under one id at most once.                                     *)
LEMMA ClaimKeeps ==
  ASSUME CsvInv, NEW u \in Uploads, ClaimRow(u), ~(Identified(u) /\ OnRow(u).id \in DOMAIN saleClaims)
  PROVE  CsvInv'
  <1> CsvShapes /\ Claimed
    BY DEF CsvInv
  <1>1. PICK id : id = OnRow(u).id
    OBVIOUS
  <1>2. /\ imports[u].at = "rows" /\ imports[u].rows # <<>> /\ OnRow(u).key \notin imports[u].known
        /\ Reaches(u, "creating") /\ UNCHANGED <<sold, beside, loose, edits>>
        /\ \/ ~Identified(u) /\ saleClaims' = saleClaims
           \/ /\ Identified(u) /\ id \notin DOMAIN saleClaims
              /\ saleClaims' = [i \in DOMAIN saleClaims \cup {id} |-> i # id /\ saleClaims[i]]
    BY <1>1 DEF ClaimRow
  <1>3. /\ imports' \in [Uploads -> UploadRow] /\ Others(u) /\ imports'[u].at = "creating"
        /\ imports'[u].layout = imports[u].layout /\ imports'[u].file = imports[u].file
        /\ imports'[u].rows = imports[u].rows /\ imports'[u].known = imports[u].known
    BY <1>2, ReachesIs
  <1>4. /\ \A i \in DOMAIN saleClaims : i \in DOMAIN saleClaims' /\ saleClaims'[i] = saleClaims[i]
        /\ \A i \in DOMAIN saleClaims' : i \in DOMAIN saleClaims \/ (Identified(u) /\ i = id /\ saleClaims'[i] = FALSE)
        /\ Identified(u) => id \in DOMAIN saleClaims' /\ saleClaims'[id] = FALSE /\ id \notin DOMAIN saleClaims
    <2>1. \A i \in DOMAIN saleClaims : saleClaims[i] \in BOOLEAN
      BY DEF CsvShapes
    <2> QED
      BY <1>2, <2>1
  <1>5. CsvShapes'
    BY <1>2, <1>3, <1>4 DEF CsvShapes
  <1>6. \A v \in Uploads : /\ v # u => (Holding(v) <=> Holding(v)') /\ imports'[v] = imports[v]
                           /\ OnRow(v)' = OnRow(v) /\ (InProgress(v) <=> InProgress(v)')
    BY <1>2, <1>3 DEF Others, Holding, Identified, InProgress, OnRow
  <1>7. ~Holding(u) /\ (Holding(u)' <=> Identified(u))
    BY <1>2, <1>3 DEF Holding, Identified
  <1>8. \A i : Kept(i) => Kept(i)'
    BY <1>2, <1>6, <1>7, SameSales DEF Kept
  <1>9. Claimed'
    <2>1. Identified(u) => Kept(id)'
      BY <1>1, <1>6, <1>7 DEF Kept
    <2>2. \A i \in DOMAIN saleClaims' : Kept(i)'
      BY <1>4, <1>8, <2>1 DEF Claimed
    <2>3. \A o \in sold' : o.key[1] = "PAGBANK" => o.id \in DOMAIN saleClaims' /\ saleClaims'[o.id]
      BY <1>2, <1>4 DEF Claimed
    <2>4. ASSUME NEW v \in Uploads, Holding(v)'
          PROVE  /\ OnRow(v)'.id \in DOMAIN saleClaims' /\ (imports'[v].at = "creating" => ~saleClaims'[OnRow(v)'.id])
                 /\ v # u => OnRow(v).id \in DOMAIN saleClaims
      BY <1>1, <1>4, <1>6, <1>7, <2>4 DEF Claimed
    <2>5. ASSUME NEW v \in Uploads, NEW w \in Uploads, Holding(v)', Holding(w)', OnRow(v)'.id = OnRow(w)'.id, v # w
          PROVE  FALSE
      BY <1>1, <1>4, <1>6, <1>7, <2>4, <2>5 DEF Claimed
    <2> QED
      BY <2>2, <2>3, <2>4, <2>5 DEF Claimed
  <1>10. Together'
    BY <1>2, <1>6 DEF CsvInv, Together
  <1>11. ASSUME NEW v \in Uploads, v # u
         PROVE  Upheld(v)'
    BY <1>2, <1>6, <1>8, <1>11, SameSales, Upholds
  <1>12. Upheld(u)'
    <2>1. Upheld(u)
      BY DEF CsvInv
    <2>2. OwnRows(u)' = OwnRows(u) /\ Rest(u)' = Rest(u) /\ (Identified(u) <=> Identified(u)')
      BY <1>3 DEF OwnRows, Rest, Identified
    <2>3. \A row : Dealt(u, row) => Dealt(u, row)'
      BY <1>2, <1>8, <2>2, SameSales DEF Dealt
    <2>4. Rest(u)' \subseteq OwnRows(u)' /\ \A row \in OwnRows(u)' \ Rest(u)' : Dealt(u, row)'
      BY <1>2, <2>1, <2>2, <2>3 DEF Upheld
    <2>5. \A row \in OwnRows(u)' : row.key \in imports'[u].known => OrderOf(row)'
      BY <1>2, <1>3, <2>1, <2>2, SameSales DEF Upheld
    <2>6. imports'[u].layout \in Layouts /\ imports'[u].file \in Files /\ ~Unreadable(imports'[u].file)
      BY <1>2, <1>3, <2>1 DEF Upheld
    <2>7. \A o \in sold', row \in OwnRows(u)' :
            o.key = row.key => o.by \in beside'[u] \/ Hidden(o)' \/ o.key \in imports'[u].known
      BY <1>2, <1>3, <2>1, <2>2 DEF Upheld, Hidden
    <2>8. imports'[u].rows # <<>> /\ OnRow(u)'.key \notin imports'[u].known
      BY <1>2, <1>3, <1>6
    <2> QED
      BY <1>3, <2>4, <2>5, <2>6, <2>7, <2>8 DEF Upheld
  <1> QED
    BY <1>2, <1>5, <1>9, <1>10, <1>11, <1>12, SameSales DEF CsvInv

LEMMA KeyIds ==
  ASSUME NEW a, NEW b, Keyed(a), Keyed(b), a.key = b.key
  PROVE  a.id = b.id
  <1>1. CASE a.key[1] \in {"MERCADO_PAGO", "PAGBANK"}
    <2>1. a.key = <<a.key[1], a.id>> /\ a.key = <<a.key[1], b.id>>
      BY <1>1 DEF Keyed
    <2>2. a.key[2] = a.id /\ a.key[2] = b.id
      BY <2>1
    <2> QED
      BY <2>2
  <1>2. CASE a.key[1] \notin {"MERCADO_PAGO", "PAGBANK"}
    BY <1>2 DEF Keyed
  <1> QED
    BY <1>1, <1>2

(* A row becomes an order: a second one of its key is hidden, or came of an upload *)
(* beside this one.                                                                *)
LEMMA CreateKeeps ==
  ASSUME CsvInv, NEW u \in Uploads, CreateSale(u)
  PROVE  CsvInv'
  <1> CsvShapes /\ Claimed /\ Together
    BY DEF CsvInv
  <1>1. imports[u].at = "creating" /\ Upheld(u) /\ imports[u].rows # <<>> /\ OnRow(u).key \notin imports[u].known
    BY DEF CreateSale, CsvInv, Upheld
  <1>2. PICK row \in AllRows : row = OnRow(u)
    BY <1>1, RowIs
  <1>3. /\ row \in OwnRows(u) /\ Keyed(row) /\ (row.key[1] = "PAGBANK" <=> Identified(u))
        /\ imports[u].layout \in Layouts /\ imports[u].file \in Files
    BY <1>1, <1>2, RowIs
  <1>4. PICK new : new = [by |-> u, key |-> row.key, id |-> row.id, noted |-> TRUE, idNow |-> row.id, live |-> TRUE]
    OBVIOUS
  <1>5. new \in RowOrder /\ Keyed(new) /\ new.by = u /\ new.key = row.key /\ new.id = row.id /\ new.idNow = row.id
    <2>1. row.key \in RowKeys /\ row.id \in RowIds
      BY DEF RowKeys, RowIds
    <2>2. new.by = u /\ new.key = row.key /\ new.id = row.id /\ new.idNow = row.id
      BY <1>4
    <2> QED
      BY <1>3, <1>4, <2>1, <2>2 DEF RowOrder, Keyed
  <1>6. /\ sold' = sold \cup {new} /\ UNCHANGED <<beside, loose, edits>>
        /\ saleClaims' = IF Identified(u) THEN [saleClaims EXCEPT ![row.id] = TRUE] ELSE saleClaims
        /\ NextRow(u, {row.key}) \/ Reaches(u, "undoing")
    BY <1>2, <1>4 DEF CreateSale
  <1>7. /\ imports' \in [Uploads -> UploadRow] /\ Others(u) /\ imports'[u].at \in {"rows", "undoing"}
        /\ imports'[u].layout = imports[u].layout /\ imports'[u].file = imports[u].file
        /\ \/ /\ imports'[u].at = "rows" /\ imports'[u].known = imports[u].known \cup {row.key}
              /\ Rest(u) = {row} \cup Rest(u)'
           \/ /\ imports'[u].at = "undoing" /\ imports'[u].known = imports[u].known
              /\ imports'[u].rows = imports[u].rows
    <2>1. CASE NextRow(u, {row.key})
      <3>1. {row.key} \in SUBSET RowKeys
        BY DEF RowKeys
      <3> QED
        BY <1>1, <1>2, <2>1, <3>1, NextRowIs
    <2>2. CASE Reaches(u, "undoing")
      BY <2>2, ReachesIs
    <2> QED
      BY <1>6, <2>1, <2>2
  <1>8. /\ DOMAIN saleClaims' = DOMAIN saleClaims
        /\ \A i \in DOMAIN saleClaims : saleClaims'[i] = IF Identified(u) /\ i = row.id THEN TRUE ELSE saleClaims[i]
    BY <1>6
  <1>9. CsvShapes'
    <2>1. \A i \in DOMAIN saleClaims' : saleClaims'[i] \in BOOLEAN
      BY <1>8 DEF CsvShapes
    <2>2. sold' \subseteq RowOrder /\ \A o \in sold' : Keyed(o) /\ o.idNow \in {NoId, o.id}
      BY <1>5, <1>6 DEF CsvShapes
    <2> QED
      BY <1>6, <1>7, <2>1, <2>2 DEF CsvShapes, Keyed
  <1>10. \A v \in Uploads : /\ Holding(v)' => Holding(v) /\ OnRow(v)' = OnRow(v)
                            /\ v # u => (Holding(v) <=> Holding(v)') /\ imports'[v] = imports[v] /\ OnRow(v)' = OnRow(v)
                            /\ InProgress(v)' => InProgress(v)
                            /\ imports'[v].at = "creating" => v # u
    BY <1>1, <1>7 DEF Others, Holding, Identified, InProgress, OnRow
  <1>11. Identified(u) => Holding(u)
    BY <1>1 DEF Holding
  <1>12. \A id : Kept(id) => Kept(id)'
    <2>1. \A id : PagSale(id) => PagSale(id)'
      BY <1>6 DEF PagSale
    <2>2. Identified(u) => PagSale(row.id)'
      BY <1>3, <1>5, <1>6 DEF PagSale
    <2>3. Holding(u) => Identified(u)
      BY DEF Holding
    <2> QED
      BY <1>2, <1>6, <1>10, <2>1, <2>2, <2>3 DEF Kept
  <1>13. \A other : OrderOf(other) => OrderOf(other)'
    BY <1>6 DEF OrderOf
  <1>14. Claimed'
    <2>1. \A id \in DOMAIN saleClaims' : Kept(id)'
      BY <1>8, <1>12 DEF Claimed
    <2>2. ASSUME NEW o \in sold', o.key[1] = "PAGBANK"
          PROVE  o.id \in DOMAIN saleClaims' /\ saleClaims'[o.id]
      <3>1. CASE o \in sold
        BY <1>8, <2>2, <3>1 DEF Claimed
      <3>2. CASE o = new
        BY <1>2, <1>3, <1>5, <1>8, <1>11, <2>2, <3>2 DEF Claimed
      <3> QED
        BY <1>6, <3>1, <3>2
    <2>3. \A v \in Uploads : Holding(v)' => OnRow(v)'.id \in DOMAIN saleClaims'
      BY <1>8, <1>10 DEF Claimed
    <2>4. ASSUME NEW v \in Uploads, Holding(v)', imports'[v].at = "creating"
          PROVE  ~saleClaims'[OnRow(v)'.id]
      <3>1. v # u /\ Holding(v) /\ OnRow(v)' = OnRow(v) /\ imports[v].at = "creating"
        BY <1>10, <2>4
      <3>2. Identified(u) => OnRow(v).id # row.id
        BY <1>2, <1>11, <3>1 DEF Claimed
      <3> QED
        BY <1>8, <3>1, <3>2 DEF Claimed
    <2>5. \A v, w \in Uploads : Holding(v)' /\ Holding(w)' /\ OnRow(v)'.id = OnRow(w)'.id => v = w
      BY <1>10 DEF Claimed
    <2> QED
      BY <2>1, <2>2, <2>3, <2>4, <2>5 DEF Claimed
  <1>15. Together'
    BY <1>6, <1>10 DEF Together
  <1>16. ASSUME NEW p \in sold, p.key = row.key
         PROVE  /\ row.key[1] # "PAGBANK"
                /\ (p.by \in beside[u] /\ u \in beside[p.by]) \/ Hidden(p)
    <2>1. Keyed(p) /\ p.by \in Uploads
      BY DEF CsvShapes, RowOrder
    <2>2. p.id = row.id
      BY <1>3, <1>16, <2>1, KeyIds
    <2>3. row.key[1] # "PAGBANK"
      <3>1. SUFFICES ASSUME row.key[1] = "PAGBANK" PROVE FALSE
        OBVIOUS
      <3>2. saleClaims[row.id]
        BY <1>16, <2>2, <3>1 DEF Claimed
      <3>3. ~saleClaims[row.id]
        BY <1>1, <1>2, <1>3, <1>11, <3>1 DEF Claimed
      <3> QED
        BY <3>2, <3>3
    <2>4. p.by \in beside[u] \/ Hidden(p)
      BY <1>1, <1>2, <1>3, <1>16 DEF Upheld
    <2>5. p.by \in beside[u] => u \in beside[p.by]
      BY <2>1 DEF Together
    <2> QED
      BY <2>3, <2>4, <2>5
  <1>17. ImportedOnce'
    <2>1. ASSUME NEW o \in sold', NEW p \in sold', o # p, o.key = p.key
          PROVE  /\ o.key[1] # "PAGBANK"
                 /\ p.by \in beside[o.by] \/ Hidden(o) \/ Hidden(p)
      <3>1. CASE o \in sold /\ p \in sold
        BY <2>1, <3>1 DEF CsvInv, ImportedOnce, Hidden
      <3>2. CASE o = new /\ p \in sold
        BY <1>5, <1>16, <2>1, <3>2
      <3>3. CASE o \in sold /\ p = new
        BY <1>5, <1>16, <2>1, <3>3
      <3> QED
        BY <1>6, <2>1, <3>1, <3>2, <3>3
    <2> QED
      BY <1>6, <2>1 DEF ImportedOnce, Hidden
  <1>18. ASSUME NEW v \in Uploads, v # u
         PROVE  Upheld(v)'
    <2>1. ASSUME NEW p \in sold'
          PROVE  \/ \E o \in sold : o.by = p.by /\ o.key = p.key /\ (Hidden(o) => Hidden(p))
                 \/ p.by \in Uploads \ {v} /\ InProgress(p.by)
      <3>1. CASE p \in sold
        BY <3>1
      <3>2. CASE p = new
        BY <1>1, <1>5, <1>18, <3>2 DEF InProgress
      <3> QED
        BY <1>6, <3>1, <3>2
    <2>2. beside'[v] = beside[v] /\ imports'[v] = imports[v]
      BY <1>6, <1>10, <1>18
    <2> QED
      BY <1>12, <1>13, <2>1, <2>2, Upholds
  <1>19. Upheld(u)'
    <2>1. OwnRows(u)' = OwnRows(u) /\ (Identified(u) <=> Identified(u)')
      BY <1>7 DEF OwnRows, Identified
    <2>2. \A other : Dealt(u, other) => Dealt(u, other)'
      BY <1>12, <1>13, <2>1 DEF Dealt
    <2>3. Dealt(u, row)' /\ \A other : other.key = row.key => OrderOf(other)'
      BY <1>5, <1>6 DEF Dealt, OrderOf
    <2>4. /\ imports'[u].layout \in Layouts /\ imports'[u].file \in Files /\ ~Unreadable(imports'[u].file)
      BY <1>1, <1>7 DEF Upheld
    <2>5. /\ Rest(u) \subseteq OwnRows(u) /\ \A other \in OwnRows(u) \ Rest(u) : Dealt(u, other)
          /\ \A other \in OwnRows(u) : other.key \in imports[u].known => OrderOf(other)
      BY <1>1 DEF Upheld
    <2>6. CASE imports'[u].at = "rows"
      <3>1. imports'[u].known = imports[u].known \cup {row.key} /\ Rest(u) = {row} \cup Rest(u)'
        BY <1>7, <2>6
      <3>2. Rest(u)' \subseteq OwnRows(u)' /\ \A other \in OwnRows(u)' \ Rest(u)' : Dealt(u, other)'
        BY <2>1, <2>2, <2>3, <2>5, <3>1
      <3>3. \A other \in OwnRows(u)' : other.key \in imports'[u].known => OrderOf(other)'
        BY <1>13, <2>1, <2>3, <2>5, <3>1
      <3>4. \A o \in sold', other \in OwnRows(u)' :
              o.key = other.key => o.by \in beside'[u] \/ Hidden(o)' \/ o.key \in imports'[u].known
        <4>1. \A o \in sold, other \in OwnRows(u) :
                o.key = other.key => o.by \in beside[u] \/ Hidden(o) \/ o.key \in imports[u].known
          BY <1>1 DEF Upheld
        <4> QED
          BY <1>5, <1>6, <2>1, <3>1, <4>1 DEF Hidden
      <3> QED
        BY <2>4, <2>6, <3>2, <3>3, <3>4 DEF Upheld
    <2>7. CASE imports'[u].at = "undoing"
      <3>1. imports'[u].known = imports[u].known /\ imports'[u].rows = imports[u].rows
        BY <1>7, <2>7
      <3>2. Rest(u)' = Rest(u)
        BY <3>1 DEF Rest
      <3>3. Rest(u)' \subseteq OwnRows(u)' /\ \A other \in OwnRows(u)' \ Rest(u)' : Dealt(u, other)'
        BY <2>1, <2>2, <2>5, <3>2
      <3>4. \A other \in OwnRows(u)' : other.key \in imports'[u].known => OrderOf(other)'
        BY <1>13, <2>1, <2>5, <3>1
      <3> QED
        BY <1>1, <2>4, <2>7, <3>1, <3>3, <3>4 DEF Upheld
    <2> QED
      BY <1>7, <2>6, <2>7
  <1> QED
    BY <1>9, <1>14, <1>15, <1>17, <1>18, <1>19 DEF CsvInv

(* A request begins: it knows the orders of its rows that are not hidden.          *)
LEMMA UploadKeeps ==
  ASSUME CsvInv, NEW u \in Uploads, NEW layout \in Layouts, NEW file \in Files, Upload(u, layout, file)
  PROVE  CsvInv'
  <1> CsvShapes /\ Claimed /\ Together
    BY DEF CsvInv
  <1>1. PICK lines : lines = ParseCsv(layout, file)
    OBVIOUS
  <1>2. PICK own : own = FileRows(layout, file)
    OBVIOUS
  <1>3. /\ lines \in Seq(own) /\ own \subseteq AllRows /\ own = {lines[i] : i \in DOMAIN lines}
        /\ \A row \in own : Keyed(row)
    BY <1>1, <1>2, RowsOfFile DEF FileRows
  <1>4. lines \in Seq(AllRows)
    BY <1>3, SeqMonotonic
  <1>5. PICK known : known = Existing(own)
    OBVIOUS
  <1>6. known \subseteq RowKeys
    BY <1>3, <1>5 DEF Existing, RowKeys
  <1>7. PICK at \in {"refused", "rows"} : at = IF Unreadable(file) \/ lines = <<>> THEN "refused" ELSE "rows"
    OBVIOUS
  <1>8. PICK row : row = [at |-> at, layout |-> layout, file |-> file, rows |-> lines, known |-> known]
    OBVIOUS
  <1>9. row \in UploadRow
    BY <1>4, <1>6, <1>8 DEF UploadRow
  <1>10. PICK others : others = {v \in Uploads : InProgress(v)}
    OBVIOUS
  <1>11. /\ imports[u] = Waiting /\ imports' = [imports EXCEPT ![u] = row] /\ UNCHANGED <<sold, saleClaims, loose, edits>>
         /\ beside' = [v \in Uploads |-> IF v = u THEN others ELSE IF v \in others THEN beside[v] \cup {u} ELSE beside[v]]
    BY <1>1, <1>2, <1>3, <1>5, <1>7, <1>8, <1>10 DEF Upload
  <1>12. /\ imports' \in [Uploads -> UploadRow] /\ Others(u) /\ imports'[u] = row
         /\ imports'[u].at = at /\ imports'[u].layout = layout /\ imports'[u].file = file
         /\ imports'[u].rows = lines /\ imports'[u].known = known
    BY <1>8, <1>9, <1>11 DEF CsvShapes, Others
  <1>13. imports[u].at = "new" /\ beside[u] = {} /\ \A o \in sold : o.by # u
    BY <1>11 DEF Waiting, CsvInv, Upheld
  <1>14. /\ u \notin others /\ others \subseteq Uploads
         /\ beside' \in [Uploads -> SUBSET Uploads] /\ beside'[u] = others
         /\ \A v \in Uploads \ {u} : beside'[v] = IF v \in others THEN beside[v] \cup {u} ELSE beside[v]
    BY <1>10, <1>11, <1>13 DEF CsvShapes, InProgress
  <1>15. CsvShapes'
    BY <1>11, <1>12, <1>14 DEF CsvShapes, Keyed
  <1>16. \A v \in Uploads : /\ Holding(v) <=> Holding(v)'
                            /\ Holding(v) => imports'[v] = imports[v] /\ OnRow(v)' = OnRow(v)
                            /\ v # u => imports'[v] = imports[v] /\ (InProgress(v) <=> InProgress(v)')
    BY <1>12, <1>13 DEF Others, Holding, Identified, InProgress, OnRow
  <1>17. \A id : Kept(id) <=> Kept(id)'
    <2>1. \A id : PagSale(id) <=> PagSale(id)'
      BY <1>11 DEF PagSale
    <2> QED
      BY <1>11, <1>16, <2>1 DEF Kept
  <1>18. Claimed'
    BY <1>11, <1>16, <1>17 DEF Claimed
  <1>19. Together'
    <2>1. \A v \in Uploads : u \notin beside[v]
      BY <1>13 DEF Together
    <2>2. ASSUME NEW v \in Uploads, NEW w \in Uploads, w \in beside'[v]
          PROVE  v \in beside'[w] /\ v # w
      <3>1. CASE v = u
        BY <1>14, <2>2, <3>1
      <3>2. CASE v # u /\ w = u
        BY <1>14, <2>1, <2>2, <3>2
      <3>3. CASE v # u /\ w # u
        BY <1>14, <2>2, <3>3 DEF Together
      <3> QED
        BY <3>1, <3>2, <3>3
    <2>3. ASSUME NEW v \in Uploads, NEW w \in Uploads, InProgress(v)', InProgress(w)', v # w
          PROVE  w \in beside'[v]
      <3>1. CASE v = u
        BY <1>10, <1>14, <1>16, <2>3, <3>1
      <3>2. CASE v # u /\ w = u
        BY <1>10, <1>14, <1>16, <2>3, <3>2
      <3>3. CASE v # u /\ w # u
        BY <1>14, <1>16, <2>3, <3>3 DEF Together
      <3> QED
        BY <3>1, <3>2, <3>3
    <2> QED
      BY <2>2, <2>3 DEF Together
  <1>20. \A v \in Uploads : beside[v] \subseteq beside'[v]
    BY <1>13, <1>14
  <1>21. ImportedOnce'
    <2>1. \A o \in sold : o.by \in Uploads
      BY DEF CsvShapes, RowOrder
    <2> QED
      BY <1>11, <1>20, <2>1 DEF CsvInv, ImportedOnce
  <1>22. \A other : OrderOf(other) <=> OrderOf(other)'
    BY <1>11 DEF OrderOf
  <1>23. ASSUME NEW v \in Uploads, v # u
         PROVE  Upheld(v)'
    <2>1. imports[v].at = "new" => beside'[v] = beside[v]
      BY <1>10, <1>14, <1>23 DEF InProgress
    <2>2. \A p \in sold' : \E o \in sold : o.by = p.by /\ o.key = p.key /\ (Hidden(o) => Hidden(p))
      BY <1>11
    <2> QED
      BY <1>16, <1>17, <1>20, <1>22, <1>23, <2>1, <2>2, Upholds
  <1>24. Upheld(u)'
    <2>1. OwnRows(u)' = own /\ Rest(u)' = own
      BY <1>2, <1>3, <1>12 DEF OwnRows, Rest
    <2>2. ASSUME NEW other \in own, other.key \in known
          PROVE  OrderOf(other)'
      <3>1. PICK r \in own : /\ r.key = other.key
                             /\ \E o \in sold : (o.noted /\ o.key = r.key) \/ (r.id # NoId /\ o.idNow = r.id)
        BY <1>5, <2>2 DEF Existing
      <3>2. PICK o \in sold : (o.noted /\ o.key = r.key) \/ (r.id # NoId /\ o.idNow = r.id)
        BY <3>1
      <3>3. r.id = other.id
        BY <1>3, <3>1, KeyIds
      <3>4. o.idNow \in {NoId, o.id}
        BY DEF CsvShapes
      <3>5. o.key = other.key \/ (other.id # NoId /\ o.id = other.id)
        BY <3>1, <3>2, <3>3, <3>4
      <3>6. OrderOf(other)
        BY <3>5 DEF OrderOf
      <3> QED
        BY <1>22, <3>6
    <2>3. ASSUME NEW o \in sold, NEW other \in own, o.key = other.key, ~Hidden(o)
          PROVE  o.key \in known
      <3>1. Keyed(o) /\ Keyed(other)
        BY <1>3 DEF CsvShapes
      <3>2. o.id = other.id
        BY <2>3, <3>1, KeyIds
      <3>3. o.noted \/ (o.id # NoId /\ o.idNow = o.id)
        BY <2>3 DEF Hidden
      <3>4. (o.noted /\ o.key = other.key) \/ (other.id # NoId /\ o.idNow = other.id)
        BY <2>3, <3>2, <3>3
      <3>5. other.key \in Existing(own)
        BY <3>4 DEF Existing
      <3> QED
        BY <1>5, <2>3, <3>5
    <2>4. \A o \in sold', other \in OwnRows(u)' :
            o.key = other.key => o.by \in beside'[u] \/ Hidden(o)' \/ o.key \in imports'[u].known
      BY <1>11, <1>12, <2>1, <2>3 DEF Hidden
    <2>5. \A other \in OwnRows(u)' : other.key \in imports'[u].known => OrderOf(other)'
      BY <1>12, <2>1, <2>2
    <2>6. at = "rows" => ~Unreadable(file)
      BY <1>7
    <2> QED
      BY <1>11, <1>12, <1>13, <2>1, <2>4, <2>5, <2>6 DEF Upheld
  <1> QED
    BY <1>15, <1>18, <1>19, <1>21, <1>23, <1>24 DEF CsvInv

(* A correction or a removal leaves an order that stands for the same row.         *)
LEMMA EditKeeps ==
  ASSUME CsvInv, NEW o \in sold, NEW p \in RowOrder, p.by = o.by, p.key = o.key, p.id = o.id, p.idNow \in {NoId, p.id},
         Hidden(o) => Hidden(p), sold' = (sold \ {o}) \cup {p}, edits' \in 0..EditBound,
         UNCHANGED <<imports, saleClaims, beside, loose>>
  PROVE  CsvInv'
  <1> CsvShapes
    BY DEF CsvInv
  <1>1. Keyed(p)
    BY DEF CsvShapes, Keyed
  <1>2. CsvShapes'
    BY <1>1 DEF CsvShapes, Keyed
  <1>3. \A id : PagSale(id) => PagSale(id)'
    BY DEF PagSale
  <1>4. \A v \in Uploads : /\ Holding(v) <=> Holding(v)'
                           /\ OnRow(v)' = OnRow(v)
                           /\ InProgress(v) <=> InProgress(v)'
    BY DEF Holding, Identified, OnRow, InProgress
  <1>5. \A id : Kept(id) => Kept(id)'
    BY <1>3, <1>4 DEF Kept
  <1>6. \A row : OrderOf(row) => OrderOf(row)'
    BY DEF OrderOf
  <1>7. Claimed'
    BY <1>4, <1>5 DEF CsvInv, Claimed
  <1>8. Together'
    BY <1>4 DEF CsvInv, Together
  <1>9. ASSUME NEW a \in sold'
        PROVE  \E b \in sold : /\ b.by = a.by /\ b.key = a.key /\ (Hidden(b) => Hidden(a))
                               /\ b = IF a = p THEN o ELSE a
    <2>1. CASE a = p
      BY <2>1
    <2>2. CASE a # p
      BY <1>9, <2>2
    <2> QED
      BY <2>1, <2>2
  <1>10. ImportedOnce'
    <2>1. ASSUME NEW a \in sold', NEW c \in sold', a # c, a.key = c.key
          PROVE  a.key[1] # "PAGBANK" /\ (c.by \in beside'[a.by] \/ Hidden(a)' \/ Hidden(c)')
      <3>1. PICK b \in sold : b.by = a.by /\ b.key = a.key /\ (Hidden(b) => Hidden(a)) /\ b = IF a = p THEN o ELSE a
        BY <1>9
      <3>2. PICK d \in sold : d.by = c.by /\ d.key = c.key /\ (Hidden(d) => Hidden(c)) /\ d = IF c = p THEN o ELSE c
        BY <1>9
      <3>3. b # d
        <4>1. \A e \in sold' : e # p => e # o
          OBVIOUS
        <4> QED
          BY <2>1, <3>1, <3>2, <4>1
      <3>4. b.key[1] # "PAGBANK" /\ (d.by \in beside[b.by] \/ Hidden(b) \/ Hidden(d))
        BY <2>1, <3>1, <3>2, <3>3 DEF CsvInv, ImportedOnce, Hidden
      <3>5. (Hidden(a) <=> Hidden(a)') /\ (Hidden(c) <=> Hidden(c)')
        BY DEF Hidden
      <3> QED
        BY <3>1, <3>2, <3>4, <3>5
    <2> QED
      BY <2>1 DEF ImportedOnce, Hidden
  <1>11. ASSUME NEW v \in Uploads
         PROVE  Upheld(v)'
    <2>1. \A a \in sold' : \E b \in sold : b.by = a.by /\ b.key = a.key /\ (Hidden(b) => Hidden(a))
      BY <1>9
    <2> QED
      BY <1>5, <1>6, <2>1, Upholds
  <1> QED
    BY <1>2, <1>7, <1>8, <1>10, <1>11 DEF CsvInv

LEMMA SaleEdited ==
  ASSUME CsvInv, NEW o \in sold, EditSale(o) \/ RemoveSale(o)
  PROVE  CsvInv'
  <1>1. o \in RowOrder /\ o.idNow \in {NoId, o.id}
    BY DEF CsvInv, CsvShapes
  <1>2. edits' \in 0..EditBound
    <2>1. edits \in 0..EditBound /\ edits < EditBound /\ edits' = edits + 1 /\ EditBound \in Nat
      BY CsvAssumption DEF CsvInv, CsvShapes, EditSale, RemoveSale
    <2> QED
      BY <2>1
  <1>3. CASE EditSale(o)
    <2>1. PICK noted \in {FALSE, o.noted}, id \in {NoId, o.idNow} :
            sold' = (sold \ {o}) \cup {[o EXCEPT !.noted = noted, !.idNow = id]}
      BY <1>3 DEF EditSale
    <2>2. PICK p : p = [o EXCEPT !.noted = noted, !.idNow = id]
      OBVIOUS
    <2>3. noted \in BOOLEAN /\ id \in RowIds \cup {NoId} /\ id \in {NoId, o.id}
      BY <1>1, <2>1 DEF RowOrder
    <2>4. /\ p.by = o.by /\ p.key = o.key /\ p.id = o.id /\ p.noted = noted /\ p.idNow = id
      BY <1>1, <2>2 DEF RowOrder
    <2>5. p \in RowOrder
      BY <1>1, <2>2, <2>3 DEF RowOrder
    <2>6. Hidden(o) => Hidden(p)
      BY <1>1, <2>1, <2>4 DEF Hidden
    <2>7. sold' = (sold \ {o}) \cup {p} /\ UNCHANGED <<imports, saleClaims, beside, loose>>
      BY <1>3, <2>1, <2>2 DEF EditSale
    <2>8. p.idNow \in {NoId, p.id}
      BY <2>3, <2>4
    <2> QED
      BY <1>2, <2>4, <2>5, <2>6, <2>7, <2>8, EditKeeps
  <1>4. CASE RemoveSale(o)
    <2>1. PICK p : p = [o EXCEPT !.live = FALSE]
      OBVIOUS
    <2>2. p.by = o.by /\ p.key = o.key /\ p.id = o.id /\ p.noted = o.noted /\ p.idNow = o.idNow
      BY <1>1, <2>1 DEF RowOrder
    <2>3. p \in RowOrder
      BY <1>1, <2>1 DEF RowOrder
    <2>4. (Hidden(o) => Hidden(p)) /\ p.idNow \in {NoId, p.id}
      BY <1>1, <2>2 DEF Hidden
    <2>5. sold' = (sold \ {o}) \cup {p} /\ UNCHANGED <<imports, saleClaims, beside, loose>>
      BY <1>4, <2>1 DEF RemoveSale
    <2> QED
      BY <1>2, <2>2, <2>3, <2>4, <2>5, EditKeeps
  <1> QED
    BY <1>3, <1>4

LEMMA CsvStep == CsvInv /\ [CsvNext]_csvVars => CsvInv'
  <1> SUFFICES ASSUME CsvInv, [CsvNext]_csvVars PROVE CsvInv'
    OBVIOUS
  <1>1. CASE \E u \in Uploads, layout \in Layouts, file \in Files : Upload(u, layout, file)
    BY <1>1, UploadKeeps
  <1>2. ASSUME NEW u \in Uploads, SkipRow(u)
        PROVE  CsvInv'
    <2>1. /\ imports[u].at = "rows" /\ imports[u].rows # <<>> /\ OnRow(u).key \in imports[u].known
          /\ NextRow(u, {}) /\ UNCHANGED <<sold, saleClaims, beside, loose, edits>>
      BY <1>2 DEF SkipRow
    <2>2. OrderOf(OnRow(u))
      BY <2>1, RowIs DEF CsvInv, Upheld
    <2>3. Dealt(u, OnRow(u))
      BY <2>2 DEF Dealt
    <2> QED
      BY <2>1, <2>3, AdvanceKeeps
  <1>3. ASSUME NEW u \in Uploads, ClaimRow(u)
        PROVE  CsvInv'
    <2>1. CASE Identified(u) /\ OnRow(u).id \in DOMAIN saleClaims
      <3>1. /\ imports[u].at = "rows" /\ imports[u].rows # <<>>
            /\ NextRow(u, {}) /\ UNCHANGED <<sold, saleClaims, beside, loose, edits>>
        BY <1>3, <2>1 DEF ClaimRow
      <3>2. Dealt(u, OnRow(u))
        BY <2>1 DEF Dealt, CsvInv, Claimed
      <3> QED
        BY <3>1, <3>2, AdvanceKeeps
    <2> QED
      BY <1>3, <2>1, ClaimKeeps
  <1>4. CASE \E u \in Uploads : CreateSale(u)
    BY <1>4, CreateKeeps
  <1>5. CASE \E u \in Uploads : CreateSaleFails(u) \/ UploadDone(u)
    BY <1>5, TurnKeeps DEF CreateSaleFails, UploadDone
  <1>6. ASSUME NEW u \in Uploads, UndoClaim(u)
        PROVE  CsvInv'
    <2>1. /\ InProgress(u) /\ Reaches(u, "failed") /\ UNCHANGED <<sold, beside, edits>> /\ loose' = LooseOf(u)
          /\ Identified(u) => Holding(u)
      BY <1>6 DEF UndoClaim, InProgress, Holding
    <2>2. \/ saleClaims' = saleClaims
          \/ /\ Identified(u) /\ ~saleClaims[OnRow(u).id]
             /\ saleClaims' = [i \in DOMAIN saleClaims \ {OnRow(u).id} |-> saleClaims[i]]
      BY <1>6 DEF UndoClaim
    <2> QED
      BY <2>1, <2>2, EndKeeps
  <1>7. CASE \E u \in Uploads : UploadDies(u)
    BY <1>7, EndKeeps DEF UploadDies
  <1>8. CASE \E o \in sold : EditSale(o) \/ RemoveSale(o)
    BY <1>8, SaleEdited
  <1>9. CASE UNCHANGED csvVars
    <2>1. UNCHANGED <<imports, sold, saleClaims, beside, loose, edits>>
      BY <1>9 DEF csvVars
    <2>2. CsvShapes' /\ Together' /\ ImportedOnce'
      BY <2>1 DEF CsvInv, CsvShapes, Together, ImportedOnce, InProgress, Keyed
    <2>3. \A v \in Uploads : (Holding(v) <=> Holding(v)') /\ OnRow(v)' = OnRow(v)
      BY <2>1 DEF Holding, Identified, OnRow
    <2>4. (\A id : Kept(id) <=> Kept(id)') /\ \A row : OrderOf(row) => OrderOf(row)'
      BY <2>1, <2>3 DEF Kept, PagSale, OrderOf
    <2>5. Claimed'
      BY <2>1, <2>3, <2>4 DEF CsvInv, Claimed
    <2>6. ASSUME NEW v \in Uploads
          PROVE  Upheld(v)'
      BY <2>1, <2>4, Upholds
    <2> QED
      BY <2>2, <2>5, <2>6 DEF CsvInv
  <1> QED
    BY <1>1, <1>2, <1>3, <1>4, <1>5, <1>6, <1>7, <1>8, <1>9 DEF CsvNext

(* A file brings in each of its sales, and each once, whatever other uploads of it *)
(* do meanwhile, except those whose claim was given back or is held, and except    *)
(* beside another upload or where a correction hides what was imported.            *)
THEOREM FilesCorrect == CsvSpec => []FilesSafe
  <1>1. CsvInv => FilesSafe
    <2> SUFFICES ASSUME CsvInv PROVE FilesSafe
      OBVIOUS
    <2> CsvShapes
      BY DEF CsvInv
    <2>1. \A u \in Uploads : imports[u] \in UploadRow /\ Upheld(u)
      BY DEF CsvInv, CsvShapes
    <2>2. CsvTypeOK
      <3>1. \A u \in Uploads : imports[u].at \in {"creating", "undoing"} => imports[u].rows # <<>>
        BY <2>1 DEF Upheld
      <3>2. \A o \in sold : o.by \in Uploads /\ o.noted \in BOOLEAN /\ o.live \in BOOLEAN
        BY DEF CsvShapes, RowOrder
      <3> QED
        BY <2>1, <3>1, <3>2 DEF CsvTypeOK, CsvShapes, UploadRow
    <2>3. ASSUME NEW u \in Uploads, imports[u].at = "done",
                 NEW i \in DOMAIN ParseCsv(imports[u].layout, imports[u].file)
          PROVE  LET row == ParseCsv(imports[u].layout, imports[u].file)[i] IN
                 \/ \E o \in sold : o.key = row.key \/ (row.id # NoId /\ o.id = row.id)
                 \/ Identified(u) /\ \/ row.id \in loose
                                     \/ \E v \in Uploads \ {u} : /\ imports[v].at \in {"creating", "undoing"}
                                                                 /\ OnRow(v).id = row.id
      <3>1. PICK row : row = ParseCsv(imports[u].layout, imports[u].file)[i]
        OBVIOUS
      <3>2. row \in OwnRows(u)
        BY <3>1 DEF OwnRows, FileRows
      <3>3. Dealt(u, row) /\ imports[u].layout \in Layouts /\ imports[u].file \in Files
        BY <2>1, <2>3, <3>2 DEF Upheld
      <3>4. Keyed(row) /\ (row.key[1] = "PAGBANK" <=> Identified(u))
        BY <3>2, <3>3, RowsOfFile DEF OwnRows, Identified
      <3>5. ASSUME Identified(u), PagSale(row.id)
            PROVE  OrderOf(row)
        <4>1. PICK o \in sold : o.key[1] = "PAGBANK" /\ o.id = row.id
          BY <3>5 DEF PagSale
        <4>2. Keyed(o)
          BY DEF CsvShapes
        <4>3. o.key = <<"PAGBANK", o.id>> /\ row.key = <<"PAGBANK", row.id>>
          BY <3>4, <3>5, <4>1, <4>2 DEF Keyed
        <4> QED
          BY <4>1, <4>3 DEF OrderOf
      <3>6. ~Holding(u)
        BY <2>3 DEF Holding
      <3>7. \/ OrderOf(row)
            \/ Identified(u) /\ (row.id \in loose \/ \E v \in Uploads : Holding(v) /\ OnRow(v).id = row.id)
        BY <3>3, <3>5 DEF Dealt, Kept
      <3>8. \/ OrderOf(row)
            \/ Identified(u) /\ \/ row.id \in loose
                                \/ \E v \in Uploads \ {u} : imports[v].at \in {"creating", "undoing"} /\ OnRow(v).id = row.id
        BY <3>6, <3>7 DEF Holding
      <3> QED
        BY <3>1, <3>8 DEF OrderOf
    <2>4. ASSUME NEW u \in Uploads, \E i \in DOMAIN imports[u].file : imports[u].file[i].what = "bad"
          PROVE  \A o \in sold : o.by # u
      <3>1. Unreadable(imports[u].file)
        BY <2>4 DEF Unreadable
      <3> QED
        BY <2>1, <3>1 DEF Upheld
    <2>5. FileImported
      BY <2>3, <2>4 DEF FileImported
    <2> QED
      BY <2>2, <2>5 DEF FilesSafe, CsvInv
  <1> QED
    BY <1>1, CsvStart, CsvStep, PTL DEF CsvSpec
=================================================================================
