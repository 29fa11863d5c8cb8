------------------------------ MODULE OrderStock ------------------------------
(***************************************************************************)
(* The life of an order of the public menu and the stock it moves: the     *)
(* status commands of apps/api/src/ordering (OrderingService), corrections *)
(* and deletions (OrderMaintenanceService), the stock movements they cause *)
(* (operations/inventory) and the profitability snapshots of delivered     *)
(* orders (OrderProfitabilityService).                                     *)
(*                                                                         *)
(* A request is a sequence of statements that commit one by one; requests  *)
(* on one order interleave between them, and any of them may die.  Stock   *)
(* is one ingredient; the movements of an order are added up by kind, and  *)
(* apart for those that still name the current item of the order.          *)
(***************************************************************************)
EXTENDS Integers, FiniteSets

CONSTANTS
  Users,       \* staff: each has at most one request in progress
  Orders,
  MaxNeed,     \* bound: the greatest quantity an order needs
  MaxVersion,  \* bound: status changes of an order
  MaxItem,     \* bound: corrections of an order, plus one
  None

Active   == {"PENDING", "PREPARING", "READY", "SHIPPED"}
Statuses == Active \cup {"DELIVERED", "CANCELLED"}

(* canTransitionOrderStatus: only a delivery is shipped.                   *)
Transitions(status, delivery) ==
  CASE status = "PENDING"   -> {"PREPARING", "CANCELLED"}
    [] status = "PREPARING" -> {"READY", "CANCELLED"}
    [] status = "READY"     -> {"DELIVERED", "CANCELLED"} \cup (IF delivery THEN {"SHIPPED"} ELSE {})
    [] status = "SHIPPED"   -> {"DELIVERED", "CANCELLED"}
    [] OTHER                -> {}

ASSUME ParametersAssumption ==
  /\ MaxNeed \in Nat \ {0} /\ MaxVersion \in Nat /\ MaxItem \in Nat \ {0}
  /\ None \notin Users \cup Statuses \cup {"read", "write", "done"} \cup Nat

VARIABLES
  order,  \* [Orders -> [status, version, delivery, item, need, deleted]]
  moved,  \* [Orders -> [res, rel, oldRes, oldRel, cons]]: reserved and released for the
          \* current item and for none, and consumed
  snaps,  \* [Orders -> Nat]: profitability snapshots of the order
  lock,   \* [Orders -> Users \cup {None}]: the maintenance that has locked the row
  by,     \* [Orders -> {"board", "desk"}]: commands with a version only, or all of them
  create, \* [Orders -> {None, "read", "write", "done"}]: what createPublicOrder does next
  req,    \* [Users -> [at, what, to, saw, how, item, held]]: the request of a user
  died    \* Orders of which a request died

stockVars == <<order, moved, snaps, lock, by, create, req, died>>

Nothing == [res |-> 0, rel |-> 0, oldRes |-> 0, oldRel |-> 0, cons |-> 0]
Idle    == [at |-> "idle", what |-> None, to |-> None, saw |-> None, how |-> FALSE, item |-> 0, held |-> Nothing]

Init ==
  /\ order = [o \in Orders |-> [status |-> None, version |-> 0, delivery |-> FALSE, item |-> 0, need |-> 0, deleted |-> FALSE]]
  /\ moved = [o \in Orders |-> Nothing] /\ snaps = [o \in Orders |-> 0]
  /\ lock = [o \in Orders |-> None] /\ by \in [Orders -> {"board", "desk"}]
  /\ create = [o \in Orders |-> None] /\ req = [u \in Users |-> Idle] /\ died = {}

(* neutralizeOrderEffect, listBalances: what the movements take from stock. *)
Net(m) == m.res + m.oldRes + m.cons - m.rel - m.oldRel
Positive(n)    == IF n > 0 THEN n ELSE 0

(* getActiveReservationMovements: what is reserved and not released, per   *)
(* item; a consumption does not count.                                     *)
Reserved(m) == [Nothing EXCEPT !.res = Positive(m.res - m.rel), !.oldRes = Positive(m.oldRes - m.oldRel)]

(* createMany refuses a movement of an item that was deleted.              *)
ItemExists(o, item, held) == held.res = 0 \/ order[o].item = item

Go(u, at) == req' = [req EXCEPT ![u].at = at]
End(u)    == req' = [req EXCEPT ![u] = Idle]

----------------------------------------------------------------------------
(* createPublicOrder, then reserveForOrder in statements of its own.       *)
Place(o) ==
  /\ order[o].status = None
  /\ \E n \in 1..MaxNeed, d \in BOOLEAN :
       order' = [order EXCEPT ![o] = [status |-> "PENDING", version |-> 0, delivery |-> d, item |-> 1, need |-> n,
                                      deleted |-> FALSE]]
  /\ create' = [create EXCEPT ![o] = "read"]
  /\ UNCHANGED <<moved, snaps, lock, by, req, died>>

ReserveRead(o) ==
  /\ create[o] = "read"
  /\ create' = [create EXCEPT ![o] = IF moved[o].res + moved[o].oldRes = 0 THEN "write" ELSE "done"]
  /\ UNCHANGED <<order, moved, snaps, lock, by, req, died>>

(* The order in hand is the one that was created: its first item.          *)
ReserveWrite(o) ==
  /\ create[o] = "write"
  /\ create' = [create EXCEPT ![o] = "done"]
  /\ moved' = IF order[o].item = 1 THEN [moved EXCEPT ![o].res = moved[o].res + order[o].need] ELSE moved
  /\ UNCHANGED <<order, snaps, lock, by, req, died>>

----------------------------------------------------------------------------
(* updateOrderStatus: reads the order, checks version and transition, ...  *)
StartStatus(u, o, to) ==
  /\ req[u] = Idle /\ order[o].status # None /\ ~order[o].deleted
  /\ to \in Transitions(order[o].status, order[o].delivery)
  /\ \E saw \in {order[o].version} \cup (IF by[o] = "desk" THEN {None} ELSE {}) :
       req' = [req EXCEPT ![u] = [Idle EXCEPT !.at = "status", !.what = o, !.to = to, !.saw = saw,
                                              !.how = order[o].delivery]]
  /\ UNCHANGED <<order, moved, snaps, lock, by, create, died>>

(* ... then compares and sets the version, or sets the status whatever it  *)
(* has become; a maintenance that holds the row is waited for.             *)
MatchesMut(o, saw) == TRUE
Matches(o, saw)    == saw = None \/ (order[o].version = saw /\ ~order[o].deleted)

SetStatus(o, to)    == [order EXCEPT ![o].status = to, ![o].version = order[o].version + 1]

FinishStatus(u) ==
  LET o == req[u].what  to == req[u].to IN
  /\ req[u].at = "status" /\ lock[o] = None /\ order[o].version < MaxVersion
  /\ IF Matches(o, req[u].saw)
     THEN /\ order' = SetStatus(o, to)
          /\ CASE to = "CANCELLED" -> Go(u, "release")
               [] to = "DELIVERED" -> Go(u, "consume")
               [] OTHER            -> End(u)
     ELSE order' = order /\ End(u)
  /\ UNCHANGED <<moved, snaps, lock, by, create, died>>

(* releaseOrderReservation and consumeOrderReservation read what is        *)
(* reserved and write their movements later.                               *)
ReadReserved(u) ==
  LET o == req[u].what  held == Reserved(moved[o]) IN
  /\ req[u].at \in {"release", "consume"}
  /\ IF held # Nothing
     THEN req' = [req EXCEPT ![u].at = IF req[u].at = "release" THEN "releasing" ELSE "consuming",
                             ![u].item = order[o].item, ![u].held = held]
     ELSE IF req[u].at = "release" THEN End(u) ELSE Go(u, "snapshot")
  /\ UNCHANGED <<order, moved, snaps, lock, by, create, died>>

Released(m, held) == [m EXCEPT !.rel = m.rel + held.res, !.oldRel = m.oldRel + held.oldRes]

Release(u) ==
  LET o == req[u].what  held == req[u].held IN
  /\ req[u].at = "releasing" /\ End(u)
  /\ moved' = IF ItemExists(o, req[u].item, held) THEN [moved EXCEPT ![o] = Released(moved[o], held)] ELSE moved
  /\ UNCHANGED <<order, snaps, lock, by, create, died>>

ConsumedMut(m, held) == Released(m, held)
Consumed(m, held)    == [Released(m, held) EXCEPT !.cons = m.cons + held.res + held.oldRes]

Consume(u) ==
  LET o == req[u].what  held == req[u].held IN
  /\ req[u].at = "consuming"
  /\ IF ItemExists(o, req[u].item, held)
     THEN moved' = [moved EXCEPT ![o] = Consumed(moved[o], held)] /\ Go(u, "snapshot")
     ELSE moved' = moved /\ End(u)
  /\ UNCHANGED <<order, snaps, lock, by, create, died>>

(* createDeliveredOrderSnapshots: none yet, and the order is delivered.    *)
ReadSnapshots(u) ==
  LET o == req[u].what IN
  /\ req[u].at = "snapshot"
  /\ IF snaps[o] = 0 /\ order[o].status = "DELIVERED"
     THEN req' = [req EXCEPT ![u].at = "snapping", ![u].item = order[o].item]
     ELSE End(u)
  /\ UNCHANGED <<order, moved, snaps, lock, by, create, died>>

Snapshot(u) ==
  LET o == req[u].what IN
  /\ req[u].at = "snapping" /\ End(u)
  /\ snaps' = IF order[o].item = req[u].item THEN [snaps EXCEPT ![o] = snaps[o] + 1] ELSE snaps
  /\ UNCHANGED <<order, moved, lock, by, create, died>>

----------------------------------------------------------------------------
(* edit and remove: one transaction that first locks the row as the user   *)
(* saw it.  Movements commit under it, status changes wait.                *)
LockOrder(u, o, at) ==
  /\ req[u] = Idle /\ by[o] = "desk" /\ lock[o] = None
  /\ order[o].status # None /\ ~order[o].deleted /\ (at = "edit" => order[o].item < MaxItem)
  /\ lock' = [lock EXCEPT ![o] = u]
  /\ req' = [req EXCEPT ![u] = [Idle EXCEPT !.at = at, !.what = o,
                                            !.held = [Nothing EXCEPT !.oldRes = Positive(Net(moved[o]))]]]
  /\ UNCHANGED <<order, moved, snaps, by, create, died>>

(* neutralizeOrderEffect releases for no item; deleting the items leaves   *)
(* their movements without one; applyOrderEffect knows no READY order.     *)
(* An edit may change how the order is handed over, whatever its status;   *)
(* the version stays.                                                      *)
Neutralized(m, held) == [m EXCEPT !.oldRel = m.oldRel + held.oldRes]
WithoutItem(m)       == [m EXCEPT !.res = 0, !.rel = 0, !.oldRes = m.oldRes + m.res, !.oldRel = m.oldRel + m.rel]
Applied(m, status, need) ==
  [m EXCEPT !.res = m.res + (IF status \in {"PENDING", "PREPARING", "SHIPPED"} THEN need ELSE 0),
            !.cons = m.cons + (IF status = "DELIVERED" THEN need ELSE 0)]

Edit(u) ==
  LET o == req[u].what  status == order[o].status IN
  /\ req[u].at = "edit" /\ End(u)
  /\ lock' = [lock EXCEPT ![o] = None]
  /\ \E n \in 1..MaxNeed, d \in BOOLEAN :
       /\ order' = [order EXCEPT ![o].item = order[o].item + 1, ![o].need = n, ![o].delivery = d]
       /\ moved' = [moved EXCEPT ![o] = Applied(WithoutItem(Neutralized(moved[o], req[u].held)), status, n)]
  /\ snaps' = IF status = "DELIVERED" THEN [snaps EXCEPT ![o] = 1] ELSE snaps
  /\ UNCHANGED <<by, create, died>>

Remove(u) ==
  LET o == req[u].what IN
  /\ req[u].at = "remove" /\ End(u)
  /\ lock' = [lock EXCEPT ![o] = None]
  /\ order' = [order EXCEPT ![o].deleted = TRUE]
  /\ moved' = [moved EXCEPT ![o] = Neutralized(moved[o], req[u].held)]
  /\ snaps' = [snaps EXCEPT ![o] = 0]
  /\ UNCHANGED <<by, create, died>>

(* A request dies, with the process or with a statement that fails; a      *)
(* transaction is rolled back.                                             *)
Die(u) ==
  LET o == req[u].what IN
  /\ req[u] # Idle /\ End(u)
  /\ lock' = [lock EXCEPT ![o] = IF lock[o] = u THEN None ELSE lock[o]]
  /\ died' = died \cup {o}
  /\ UNCHANGED <<order, moved, snaps, by, create>>

CreatorDies(o) ==
  /\ create[o] \in {"read", "write"}
  /\ create' = [create EXCEPT ![o] = "done"] /\ died' = died \cup {o}
  /\ UNCHANGED <<order, moved, snaps, lock, by, req>>

Next ==
  \/ \E o \in Orders : Place(o) \/ ReserveRead(o) \/ ReserveWrite(o) \/ CreatorDies(o)
  \/ \E u \in Users, o \in Orders : \/ \E to \in Statuses : StartStatus(u, o, to)
                                    \/ \E at \in {"edit", "remove"} : LockOrder(u, o, at)
  \/ \E u \in Users : \/ FinishStatus(u) \/ ReadReserved(u) \/ Release(u) \/ Consume(u)
                      \/ ReadSnapshots(u) \/ Snapshot(u) \/ Edit(u) \/ Remove(u) \/ Die(u)

Spec == Init /\ [][Next]_stockVars

----------------------------------------------------------------------------
(* Types; a locked row has a maintenance in progress.                      *)
Movements == [res : Nat, rel : Nat, oldRes : Nat, oldRel : Nat, cons : Nat]

TypeOK ==
  /\ order \in [Orders -> [status : Statuses \cup {None}, version : Nat, delivery : BOOLEAN, item : Nat, need : Nat,
                           deleted : BOOLEAN]]
  /\ moved \in [Orders -> Movements] /\ snaps \in [Orders -> Nat] /\ died \subseteq Orders
  /\ by \in [Orders -> {"board", "desk"}] /\ create \in [Orders -> {None, "read", "write", "done"}]
  /\ \A u \in Users : req[u].held \in Movements /\ req[u].item \in Nat /\ req[u].how \in BOOLEAN
  /\ \A o \in Orders : lock[o] # None => req[lock[o]].at \in {"edit", "remove"} /\ req[lock[o]].what = o

(* No request is between its first and its last statement.                 *)
Resting(o) == create[o] = "done" /\ \A u \in Users : req[u].what # o

(* The board's commands: a command that carries a version only makes moves *)
(* that the transition table has from the status the order has by then,    *)
(* whatever happened since its check, for the delivery method that check   *)
(* saw: an edit since raises no version and may have changed the method.   *)
LegalMoves ==
  [][\A u \in Users, o \in Orders :
       req[u].what = o /\ req[u].at = "status" /\ req[u].saw # None /\ req'[u].at # "status" /\ order' # order
         => order'[o].status \in Transitions(order[o].status, req[u].how)]_stockVars

(* As long as an order is only commanded from the board, its reservation   *)
(* is given back once at most, although releases are written from an       *)
(* earlier unprotected read and requests may die.                          *)
NoOverRelease ==
  \A o \in Orders : by[o] = "board" => Net(moved[o]) >= 0

(* At rest an order of the board that lost no request has taken its need   *)
(* from stock exactly once, reserved or consumed; a cancelled one may      *)
(* still hold it, when its reservation was written late.                   *)
StockMatchesOrder ==
  \A o \in Orders : by[o] = "board" /\ Resting(o) /\ o \notin died =>
    IF order[o].status = "CANCELLED" THEN Net(moved[o]) \in {0, order[o].need} ELSE Net(moved[o]) = order[o].need

(* A delivered order of the board has one set of profitability snapshots,  *)
(* and none before.                                                        *)
SnapshotOnce ==
  \A o \in Orders : by[o] = "board" =>
    /\ snaps[o] <= IF order[o].status = "DELIVERED" THEN 1 ELSE 0
    /\ order[o].status = "DELIVERED" /\ Resting(o) /\ o \notin died => snaps[o] = 1

(* The stock of an order of the board is what the order says.              *)
StockSafe == TypeOK /\ NoOverRelease /\ StockMatchesOrder /\ SnapshotOnce
================================================================================
