-------------------------------- MODULE Kitchen --------------------------------
(***************************************************************************)
(* One screen of the kitchen (useKdsOrders, AdaptivePoller, OrdersClient,  *)
(* useOrderQueueShortcuts) beside the orders of its store (KdsQueryService, *)
(* KdsCommandService) and the messages of the OrdersGateway.               *)
(*                                                                         *)
(* The screen polls; a message only makes it ask again.  One request is in *)
(* flight at most and whoever asks meanwhile shares it.  A change of the   *)
(* connection replaces the poller, which aborts the request it had made.  *)
(* How long a timer waits is left out.                                     *)
(***************************************************************************)
EXTENDS Naturals, FiniteSets

CONSTANTS
  Orders,       \* numbers, in the order of creation
  ByCourier,    \* the orders with fulfillmentMethod DELIVERY
  Starts,       \* the statuses the orders may have at first: a set of [Orders -> Statuses]
  OthersBound,  \* bound: what others do to the orders
  FaultBound,   \* bound: lost messages, failed requests and cut connections
  Nobody

OnBoard   == {"PENDING", "PREPARING", "READY", "SHIPPED"}
OffBoard    == {"DELIVERED", "CANCELLED"}
Statuses == OnBoard \cup OffBoard \cup {"NONE", "DELETED"}

ASSUME KitchenAssumption ==
  /\ Orders \subseteq Nat /\ IsFiniteSet(Orders) /\ Nobody \notin Orders
  /\ ByCourier \subseteq Orders /\ Starts \subseteq [Orders -> Statuses]
  /\ OthersBound \in Nat /\ FaultBound \in Nat

VARIABLES
  kept,     \* [Orders -> [status, version]]: the orders of the store
  link,     \* the socket: "off", "verifying" its token, "joined" to the room of the store
  wire,     \* messages on their way to the screen
  shown,    \* the cards of the screen: a function of some orders to [status, version]
  fetch,    \* the request for the board: [at, by, answer]
  poller,   \* [started, timer, running]
  command,  \* the change of a status the screen is waiting for
  selected, \* the card the keyboard acts on, or Nobody
  armed,    \* the order the next F3 cancels, or Nobody
  asked,    \* history: the order of the last key, when that was F3
  others, faults \* counters

kitchenVars == <<kept, link, wire, shown, fetch, poller, command, selected, armed, asked, others, faults>>
hands == <<command, selected, armed, asked>>

Nothing     == [o \in {} |-> Nobody]
NoAsking    == [at |-> "none", by |-> "poller", answer |-> Nothing]
Asking(who) == [at |-> "sent", by |-> who, answer |-> Nothing]
Stopped     == [started |-> FALSE, timer |-> FALSE, running |-> FALSE]
Waiting     == [started |-> TRUE, timer |-> TRUE, running |-> FALSE]
Idle        == [at |-> "idle", order |-> Nobody, to |-> "NONE", saw |-> Nobody, over |-> Nobody,
                keys |-> FALSE, asked |-> Nobody, next |-> Nobody]

Board == [o \in {x \in Orders : kept[x].status \in OnBoard} |-> kept[o]]

KitchenInit ==
  /\ \E start \in Starts : kept = [o \in Orders |-> [status |-> start[o], version |-> 0]]
  /\ link = "off" /\ wire = 0 /\ shown = Board
  /\ fetch = NoAsking /\ poller = Stopped
  /\ command = Idle /\ selected = Nobody /\ armed = Nobody /\ asked = Nobody
  /\ others = 0 /\ faults = 0

--------------------------------------------------------------------------------
(* What can follow a status (nextStatuses).                                  *)
NextStatuses(o, status) ==
  CASE status = "PENDING"   -> {"PREPARING", "CANCELLED"}
    [] status = "PREPARING" -> {"READY", "CANCELLED"}
    [] status = "READY"     -> {IF o \in ByCourier THEN "SHIPPED" ELSE "DELIVERED", "CANCELLED"}
    [] status = "SHIPPED"   -> {"DELIVERED", "CANCELLED"}
    [] OTHER                -> {}

Moved(o, to) == [kept EXCEPT ![o] = [status |-> to, version |-> @.version + 1]]

Fault == faults < FaultBound /\ faults' = faults + 1

(* A message reaches who is in the room; what fails before it loses it.      *)
Emit ==
  \/ link = "joined" /\ wire' = wire + 1 /\ UNCHANGED faults
  \/ link # "joined" /\ UNCHANGED <<wire, faults>>
  \/ link = "joined" /\ Fault /\ UNCHANGED wire

--------------------------------------------------------------------------------
(* What others do.  Claims and deletions are told to nobody.                 *)
Others == others < OthersBound /\ others' = others + 1

OtherCreates(o) ==
  /\ Others /\ kept[o].status = "NONE"
  /\ kept' = [kept EXCEPT ![o].status = "PENDING"]
  /\ Emit /\ UNCHANGED <<link, shown, fetch, poller, hands>>

OtherMoves(o) ==
  /\ Others
  /\ \E to \in NextStatuses(o, kept[o].status) : kept' = Moved(o, to)
  /\ Emit /\ UNCHANGED <<link, shown, fetch, poller, hands>>

OtherClaims(o) ==
  /\ Others /\ kept[o].status \in OnBoard
  /\ kept' = Moved(o, kept[o].status)
  /\ UNCHANGED <<link, wire, shown, fetch, poller, hands, faults>>

OtherDeletes(o) ==
  /\ Others /\ kept[o].status \in OnBoard
  /\ kept' = [kept EXCEPT ![o].status = "DELETED"]
  /\ UNCHANGED <<link, wire, shown, fetch, poller, hands, faults>>

--------------------------------------------------------------------------------
(* The list of the screen changes: the selection stays, or falls back to the *)
(* card that now has its place, and a pending cancellation of a card that is *)
(* gone is dropped.                                                          *)
Place(S, o) == IF o \in S THEN Cardinality({x \in S : x < o}) ELSE 0
CardAt(S, n) == CHOOSE o \in S : Place(S, o) = n
FallBack(old, new, card) ==
  IF card = Nobody \/ card \in new THEN card
  ELSE IF new = {} THEN Nobody
  ELSE LET n == Place(old, card)
       IN  CardAt(new, IF n < Cardinality(new) THEN n ELSE Cardinality(new) - 1)

Shows(board, card) ==
  /\ shown' = board
  /\ selected' = FallBack(DOMAIN shown, DOMAIN board, card)
  /\ armed' = IF armed \in DOMAIN board THEN armed ELSE Nobody

(* refresh(): ask for the board, unless somebody is already asking.          *)
Ask(who) == fetch' = IF fetch.at = "none" THEN Asking(who) ELSE fetch

TimerFires ==
  /\ poller.timer /\ ~poller.running
  /\ poller' = [poller EXCEPT !.timer = FALSE, !.running = TRUE]
  /\ Ask("poller")
  /\ UNCHANGED <<others, kept, link, wire, shown, hands, faults>>

ReadBoard ==
  /\ fetch.at = "sent"
  /\ fetch' = [fetch EXCEPT !.at = "read", !.answer = Board]
  /\ UNCHANGED <<others, kept, link, wire, shown, poller, hands, faults>>

(* The end of a request: a poller that waits for it sets its timer again.    *)
AfterRunMut == IF poller.running /\ fetch.at = "read" THEN Waiting ELSE poller
AfterRun    == IF poller.running THEN Waiting ELSE poller

ShowBoard ==
  /\ fetch.at = "read"
  /\ Shows(fetch.answer, selected)
  /\ fetch' = NoAsking /\ poller' = AfterRun
  /\ UNCHANGED <<others, kept, link, wire, command, asked, faults>>

RequestFails ==
  /\ fetch.at = "sent" /\ Fault
  /\ fetch' = NoAsking /\ poller' = AfterRun
  /\ UNCHANGED <<others, kept, link, wire, shown, hands>>

Invalidate ==
  /\ wire > 0 /\ wire' = wire - 1
  /\ Ask("message")
  /\ UNCHANGED <<others, kept, link, shown, poller, hands, faults>>

(* The page, made with the orders of that moment, starts its poller.         *)
Mount ==
  /\ ~poller.started /\ poller' = Waiting
  /\ UNCHANGED <<others, kept, link, wire, shown, fetch, hands, faults>>

(* Another poller with another interval: the old one aborts what it asked.   *)
Replaced ==
  /\ poller' = Waiting
  /\ fetch' = CASE fetch.at # "none" /\ fetch.by = "poller" -> NoAsking
                  [] fetch.at = "none" /\ link' # "off"           -> Asking("message")
                  [] OTHER                                          -> fetch

Connect ==
  /\ poller.started /\ link = "off" /\ link' = "verifying"
  /\ Replaced
  /\ UNCHANGED <<others, kept, wire, shown, hands, faults>>

Join ==
  /\ link = "verifying" /\ link' = "joined"
  /\ UNCHANGED <<others, kept, wire, shown, fetch, poller, hands, faults>>

Disconnect ==
  /\ link # "off" /\ link' = "off" /\ wire' = 0
  /\ Fault /\ Replaced
  /\ UNCHANGED <<others, kept, shown, hands>>

--------------------------------------------------------------------------------
(* The keys.  Whatever selects a card disarms F3.                            *)
Select(o) == selected' = o /\ armed' = Nobody

Tab ==
  /\ poller.started /\ \E o \in DOMAIN shown : Select(o)
  /\ asked' = Nobody
  /\ UNCHANGED <<others, kept, link, wire, shown, fetch, poller, command, faults>>

Escape ==
  /\ selected # Nobody /\ Select(Nobody) /\ asked' = Nobody
  /\ UNCHANGED <<others, kept, link, wire, shown, fetch, poller, command, faults>>

NextOrderAfter(o) ==
  IF Cardinality(DOMAIN shown) <= 1 THEN Nobody
  ELSE CardAt(DOMAIN shown, (Place(DOMAIN shown, o) + 1) % Cardinality(DOMAIN shown))

(* changeStatus: one change at a time, for the version the card shows.       *)
ChangeStatus(o, to, keys, next) ==
  command' = [at |-> "sent", order |-> o, to |-> to, saw |-> shown[o], over |-> Nobody,
              keys |-> keys, asked |-> asked, next |-> next]

Button(o) ==
  /\ poller.started /\ command.at = "idle" /\ o \in DOMAIN shown
  /\ \E to \in NextStatuses(o, shown[o].status) : ChangeStatus(o, to, FALSE, Nobody)
  /\ UNCHANGED <<others, kept, link, wire, shown, fetch, poller, selected, armed, asked, faults>>

F2 ==
  /\ selected # Nobody /\ command.at = "idle"
  /\ armed' = Nobody /\ asked' = Nobody
  /\ \E to \in NextStatuses(selected, shown[selected].status) \ {"CANCELLED"} :
       ChangeStatus(selected, to, TRUE, NextOrderAfter(selected))
  /\ UNCHANGED <<others, kept, link, wire, shown, fetch, poller, selected, faults>>

Arm ==
  /\ selected # Nobody /\ armed # selected
  /\ armed' = selected /\ asked' = selected
  /\ UNCHANGED <<others, kept, link, wire, shown, fetch, poller, command, selected, faults>>

SecondF3 ==
  /\ selected # Nobody /\ armed = selected
  /\ armed' = Nobody /\ asked' = Nobody
  /\ IF command.at = "idle" THEN ChangeStatus(selected, "CANCELLED", TRUE, Nobody) ELSE UNCHANGED command
  /\ UNCHANGED <<others, kept, link, wire, shown, fetch, poller, selected, faults>>

WindowCloses ==
  /\ armed # Nobody /\ armed' = Nobody
  /\ UNCHANGED <<others, kept, link, wire, shown, fetch, poller, command, selected, asked, faults>>

--------------------------------------------------------------------------------
(* The change of a status at the server: the order is read and checked, then *)
(* claimed by its version, told, and recorded.                               *)
VersionIsMut(o, saw) == kept[o].status # "DELETED"
VersionIs(o, saw)    == kept[o].version = saw.version /\ kept[o].status # "DELETED"

UpdateReads ==
  /\ command.at = "sent"
  /\ command' = [command EXCEPT !.at =
       IF VersionIs(command.order, command.saw) /\ command.to \in NextStatuses(command.order, kept[command.order].status)
       THEN "checked" ELSE "refused"]
  /\ UNCHANGED <<others, kept, link, wire, shown, fetch, poller, selected, armed, asked, faults>>

UpdateClaims ==
  /\ command.at = "checked"
  /\ IF VersionIs(command.order, command.saw)
     THEN /\ kept' = Moved(command.order, command.to)
          /\ command' = [command EXCEPT !.at = "claimed", !.over = kept[command.order]]
     ELSE /\ command' = [command EXCEPT !.at = "refused"]
          /\ UNCHANGED kept
  /\ UNCHANGED <<others, link, wire, shown, fetch, poller, selected, armed, asked, faults>>

UpdateTells ==
  /\ command.at = "claimed" /\ Emit
  /\ command' = [command EXCEPT !.at = IF faults' = faults THEN "told" ELSE "refused"]
  /\ UNCHANGED <<others, kept, link, shown, fetch, poller, selected, armed, asked>>

(* The answer is read after the record of the event, which may fail.         *)
UpdateAnswers ==
  /\ command.at = "told"
  /\ \/ /\ command' = [command EXCEPT !.at = IF kept[command.order].status = "DELETED" THEN "refused" ELSE "answered",
                                        !.saw = kept[command.order]]
        /\ UNCHANGED faults
     \/ Fault /\ command' = [command EXCEPT !.at = "refused"]
  /\ UNCHANGED <<others, kept, link, wire, shown, fetch, poller, selected, armed, asked>>

(* The answer replaces the card, if it is still there; after F2 the next     *)
(* card is selected.                                                         *)
CommandDone ==
  LET o    == command.order
      left == IF command.to \in OffBoard THEN DOMAIN shown \ {o} ELSE DOMAIN shown
      new  == [x \in left |-> IF x = o THEN command.saw ELSE shown[x]]
      goes == command.keys /\ command.to # "CANCELLED"
  IN /\ command.at = "answered"
     /\ shown' = new
     /\ selected' = FallBack(DOMAIN shown, left, IF goes THEN command.next ELSE selected)
     /\ armed' = IF goes \/ armed \notin left THEN Nobody ELSE armed
     /\ command' = Idle
     /\ UNCHANGED <<others, kept, link, wire, fetch, poller, asked, faults>>

CommandFails ==
  /\ command.at = "refused" /\ command' = Idle
  /\ UNCHANGED <<others, kept, link, wire, shown, fetch, poller, selected, armed, asked, faults>>

Steps == UpdateReads \/ UpdateClaims \/ UpdateTells \/ UpdateAnswers \/ CommandDone \/ CommandFails
Asks  == TimerFires \/ ReadBoard \/ ShowBoard \/ Invalidate

KitchenNext ==
  \/ \E o \in Orders : OtherCreates(o) \/ OtherMoves(o) \/ OtherClaims(o) \/ OtherDeletes(o) \/ Button(o)
  \/ Steps
  \/ Asks \/ RequestFails \/ Mount \/ Connect \/ Join \/ Disconnect
  \/ Tab \/ Escape \/ F2 \/ Arm \/ SecondF3 \/ WindowCloses

(* Timers fire, the server answers, and the screen handles its answers.      *)
KitchenFairness ==
  /\ WF_kitchenVars(TimerFires) /\ WF_kitchenVars(ReadBoard) /\ WF_kitchenVars(ShowBoard)
  /\ WF_kitchenVars(Invalidate) /\ WF_kitchenVars(Steps)

KitchenSpec == KitchenInit /\ [][KitchenNext]_kitchenVars /\ KitchenFairness

--------------------------------------------------------------------------------
Cards  == [status : Statuses, version : Nat]

(* The variables hold values of their types; the keyboard only ever acts on  *)
(* a card that is shown.                                                     *)
KitchenTypeOK ==
  /\ kept \in [Orders -> Cards] /\ link \in {"off", "verifying", "joined"} /\ wire \in Nat
  /\ DOMAIN shown \subseteq Orders /\ \A o \in DOMAIN shown : shown[o] \in Cards
  /\ fetch.at \in {"none", "sent", "read"} /\ fetch.by \in {"poller", "message"}
  /\ poller \in [started : BOOLEAN, timer : BOOLEAN, running : BOOLEAN]
  /\ command.at \in {"idle", "sent", "checked", "claimed", "told", "answered", "refused"}
  /\ {selected, armed} \subseteq DOMAIN shown \cup {Nobody} /\ faults \in 0..FaultBound /\ others \in 0..OthersBound

(* The order a command changed was as the card showed it that was pressed,   *)
(* whatever other screens did while the board was old (expectedVersion).     *)
AppliedAsSeen == command.at \in {"claimed", "told"} => command.over = command.saw

(* The keyboard cancels an order only by a second F3 on the very order of    *)
(* the first one, also when the list has moved under the hands or an answer  *)
(* has moved the selection.                                                  *)
CancelAskedTwice ==
  command.at # "idle" /\ command.keys /\ command.to = "CANCELLED" => command.asked = command.order

(* A started poller always has its timer or waits for a request that is there.     *)
PollerLives == poller.started => IF poller.running THEN fetch.at # "none" ELSE poller.timer

KitchenSafe == KitchenTypeOK /\ AppliedAsSeen /\ CancelAskedTwice /\ PollerLives

(* Once the store rests, the screen shows its orders, whatever messages were *)
(* lost and however often the connection was cut; and a command ends.        *)
BoardCatchesUp == <>[](poller.started => shown = Board) /\ (command.at # "idle" ~> command.at = "idle")
================================================================================
