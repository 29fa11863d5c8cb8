----------------------------- MODULE PlatformOrders -----------------------------
(***************************************************************************)
(* Orders of the iFood platform (management/integrations/ifood,            *)
(* ordering/external-order-ingestion): polls that take the provider's      *)
(* events, create orders from them and acknowledge them, and operators     *)
(* who confirm, refuse and advance those orders and answer disputes, each  *)
(* of which is reported to the provider.  The provider delivers an event   *)
(* until it is acknowledged, in any order, to every poll that asks.        *)
(***************************************************************************)
EXTENDS Naturals, FiniteSets

CONSTANTS
  Events, Orders, Pollers, Operators, None,
  Kind,       \* [Events -> {"order", "dispute", "result"}]
  Of,         \* [Events -> Orders]
  Says,       \* [Events -> {"PENDING", "ACCEPTED", "REJECTED"}]: the status a dispute's event names
  Worlds      \* set of [pollers, events, commands, faults, begun]: what a behaviour may meet

ASSUME PlatformAssumption ==
  /\ Kind \in [Events -> {"order", "dispute", "result"}] /\ Of \in [Events -> Orders]
  /\ Says \in [Events -> {"PENDING", "ACCEPTED", "REJECTED"}]
  /\ Worlds \subseteq [pollers : SUBSET Pollers, events : SUBSET Events, commands : Nat, faults : Nat, begun : {None, "PENDING", "READY"}]
  /\ None \notin Events \cup Orders \cup {"PENDING", "PREPARING", "READY", "SHIPPED", "DELIVERED", "CANCELLED",
                                           "RECEIVED", "PROCESSING", "ACK_PENDING", "ACKED", "FAILED",
                                           "ACCEPTED", "REJECTED",
                                           "CONFIRM", "DISPATCH", "DELIVER", "REQUEST_CANCELLATION"}
  /\ IsFiniteSet(Operators)

VARIABLES
  world,    \* bounds: the polls that may run at once, the provider's events, the commands of
            \* operators, and the faults; and what the orders were when the behaviour begins
  emitted, unacked, \* the provider's events, and those it still delivers
  told,     \* [Orders -> the last action the provider accepted]
  answers,  \* [Orders -> SUBSET {"ACCEPTED", "REJECTED"}]: what it got for a dispute
  row,      \* [Events -> status of the delivery_platform_events row]
  order,    \* [Orders -> [status, version]], with its platform_order_link
  synced,   \* [Orders -> internalStatusAtLastSync of the link]
  dispute,  \* [Orders -> status of the platform_disputes row]
  poll,     \* [Pollers -> [at, batch, event]]
  command,  \* [Operators -> [at, kind, of, to, action, seen, sync, versioned]]
  commands, faults,
  flagged,  \* orders with a RETRYABLE attempt
  raced,    \* history: orders of which two commands were in progress at once
  cut,      \* history: orders of which a command was cut off by a fault
  unlinked, \* history: events handled when their order was not there
  summed,   \* dispute events whose row has lost the metadata it came with
  strays    \* dispute events with a dispute of their own, which the provider does not know

provider == <<emitted, unacked, told, answers>>
orders   == <<order, synced, dispute>>
disputed == <<summed, strays>>
operator == <<command, commands, flagged, raced, cut>>
vars == <<world, provider, row, orders, poll, operator, faults, unlinked, disputed>>

NoOrder  == [status |-> None, version |-> 0]
Resting  == [at |-> "idle", batch |-> {}, event |-> None]
NoWork   == [at |-> "idle", kind |-> None, of |-> None, to |-> None, action |-> None,
             seen |-> NoOrder, sync |-> None, versioned |-> FALSE]
Exists(o) == order[o].status # None
Answers   == {"ACCEPTED", "REJECTED"}

(* An order that has been here for a while was created from its event and  *)
(* confirmed.                                                              *)
Init ==
  /\ world \in Worlds
  /\ emitted = IF world.begun = None THEN {} ELSE {e \in Events : Kind[e] = "order"}
  /\ unacked = {}
  /\ row = [e \in Events |-> IF e \in emitted THEN "ACKED" ELSE None]
  /\ order = [o \in Orders |-> [status |-> world.begun, version |-> 0]]
  /\ told = [o \in Orders |-> IF world.begun = "READY" THEN "CONFIRM" ELSE None]
  /\ synced = [o \in Orders |-> IF world.begun = "READY" THEN "PREPARING" ELSE None]
  /\ answers = [o \in Orders |-> {}] /\ dispute = [o \in Orders |-> None]
  /\ poll = [p \in Pollers |-> Resting]
  /\ command = [u \in Operators |-> NoWork] /\ commands = 0
  /\ faults = 0 /\ flagged = {} /\ raced = {} /\ cut = {} /\ unlinked = {}
  /\ summed = {} /\ strays = {}

Fault == faults < world.faults /\ faults' = faults + 1

(* External: a dispute or the result of a cancellation follows the order.  *)
Emit(e) ==
  /\ e \in world.events \ emitted
  /\ Kind[e] # "order" => \E f \in emitted : Kind[f] = "order" /\ Of[f] = Of[e]
  /\ emitted' = emitted \cup {e} /\ unacked' = unacked \cup {e}
  /\ UNCHANGED <<world, told, answers, row, orders, poll, operator, faults, unlinked, disputed>>

----------------------------------------------------------------------------
(* IfoodEventPollerService.pollIntegration.                                *)

Event(p)       == poll[p].event
Steps(p, where) == poll' = [poll EXCEPT ![p].at = where]
Drops(p)  == poll' = [poll EXCEPT ![p] = [at |-> "next", batch |-> poll[p].batch \ {Event(p)}, event |-> None]]
Stops(p)  == poll' = [poll EXCEPT ![p] = Resting]
Sets(p, status) == row' = [row EXCEPT ![Event(p)] = status]

FetchMut(p) ==
  /\ poll[p] = Resting /\ p \in world.pollers /\ unacked # {}
  /\ poll' = [poll EXCEPT ![p] = [at |-> "next", batch |-> unacked, event |-> None]]
  /\ unacked' = {}
  /\ UNCHANGED <<world, emitted, told, answers, row, orders, operator, faults, unlinked, disputed>>
Fetch(p) ==
  /\ poll[p] = Resting /\ p \in world.pollers /\ unacked # {}
  /\ poll' = [poll EXCEPT ![p] = [at |-> "next", batch |-> unacked, event |-> None]]
  /\ UNCHANGED <<world, provider, row, orders, operator, faults, unlinked, disputed>>

(* The upsert of the row; an event that is ACKED is not looked at again.   *)
Persist(p, e) ==
  /\ poll[p].at = "next" /\ e \in poll[p].batch
  /\ row' = IF row[e] = None THEN [row EXCEPT ![e] = "RECEIVED"] ELSE row
  /\ poll' = IF row[e] = "ACKED" THEN [poll EXCEPT ![p].batch = @ \ {e}]
                                 ELSE [poll EXCEPT ![p].at = "marking", ![p].event = e]
  /\ UNCHANGED <<world, provider, orders, operator, faults, unlinked, disputed>>

MarkProcessing(p) ==
  /\ poll[p].at = "marking" /\ Sets(p, "PROCESSING")
  /\ Steps(p, IF Kind[Event(p)] = "order" THEN "details" ELSE Kind[Event(p)])
  /\ UNCHANGED <<world, provider, orders, operator, faults, unlinked, disputed>>

(* deferEventRetry, if the details are not there yet: nobody waits for     *)
(* nextRetryAt, and a row that is FAILED is processed again as well.       *)
Defer(p) ==
  /\ poll[p].at = "details" /\ Fault
  /\ \E status \in {"RECEIVED", "FAILED"} : Sets(p, status)
  /\ Drops(p)
  /\ UNCHANGED <<world, provider, orders, operator, unlinked, disputed>>

(* ExternalOrderIngestionService.ingest, for every event that is not of    *)
(* the other kinds: an order that is there is left as it is.               *)
FindLink(p) ==
  /\ poll[p].at = "details"
  /\ Steps(p, IF Exists(Of[Event(p)]) THEN "handled" ELSE "creating")
  /\ UNCHANGED <<world, provider, row, orders, operator, faults, unlinked, disputed>>

(* One statement creates the order and its link, which is unique: if       *)
(* another poll was faster, it throws.                                     *)
CreateOrder(p) ==
  LET o == Of[Event(p)] IN
  /\ poll[p].at = "creating"
  /\ IF Exists(o) THEN Stops(p) /\ UNCHANGED order
     ELSE order' = [order EXCEPT ![o].status = "PENDING"] /\ Steps(p, "handled")
  /\ UNCHANGED <<world, provider, row, synced, dispute, operator, faults, unlinked, disputed>>

(* handleDisputeEvent.  The status and the dispute are those in the payload *)
(* or in the metadata of the event, whatever the row of the dispute says;  *)
(* but what the event leaves on its own row replaces that metadata, so     *)
(* that a poll which read the row after it may find neither: the status is *)
(* PENDING then, and the dispute one named after the event.                *)
HandleDispute(p) ==
  LET e == Event(p)
      o == Of[e] IN
  /\ poll[p].at = "dispute"
  /\ IF ~Exists(o) THEN unlinked' = unlinked \cup {e} /\ UNCHANGED <<dispute, strays>>
     ELSE /\ UNCHANGED unlinked
          /\ \/ dispute' = [dispute EXCEPT ![o] = Says[e]] /\ UNCHANGED strays
             \/ e \in summed /\ dispute' = [dispute EXCEPT ![o] = "PENDING"] /\ UNCHANGED strays
             \/ e \in summed /\ strays' = strays \cup {e} /\ UNCHANGED dispute
  /\ \/ summed' = summed \cup {e} /\ Steps(p, "handled") /\ UNCHANGED faults
     \/ UNCHANGED summed /\ Stops(p) /\ Fault
  /\ UNCHANGED <<world, provider, row, order, synced, operator>>

(* The result of a cancellation is noted on the link and the event only.   *)
HandleResult(p) ==
  /\ poll[p].at = "result" /\ Steps(p, "handled")
  /\ unlinked' = IF Exists(Of[Event(p)]) THEN unlinked ELSE unlinked \cup {Event(p)}
  /\ UNCHANGED <<world, provider, row, orders, operator, faults, disputed>>

(* markProcessedAndAck.                                                    *)
MarkAckPending(p) ==
  /\ poll[p].at = "handled" /\ Sets(p, "ACK_PENDING") /\ Steps(p, "acking")
  /\ UNCHANGED <<world, provider, orders, operator, faults, unlinked, disputed>>

Acknowledge(p) ==
  /\ poll[p].at = "acking" /\ unacked' = unacked \ {Event(p)}
  /\ \/ Steps(p, "acked") /\ UNCHANGED faults
     \/ Stops(p) /\ Fault
  /\ UNCHANGED <<world, emitted, told, answers, row, orders, operator, unlinked, disputed>>

MarkAckedMut(p) ==
  /\ poll[p].at \in {"acking", "acked"} /\ Sets(p, "ACKED") /\ Drops(p)
  /\ UNCHANGED <<world, provider, orders, operator, faults, unlinked, disputed>>
MarkAcked(p) ==
  /\ poll[p].at = "acked" /\ Sets(p, "ACKED") /\ Drops(p)
  /\ UNCHANGED <<world, provider, orders, operator, faults, unlinked, disputed>>

FinishPoll(p) ==
  /\ poll[p].at = "next" /\ poll[p].batch = {} /\ Stops(p)
  /\ UNCHANGED <<world, provider, row, orders, operator, faults, unlinked, disputed>>

(* Whatever throws ends the poll, with the rest of its batch.              *)
PollFails(p) ==
  /\ poll[p] # Resting /\ Fault /\ Stops(p)
  /\ UNCHANGED <<world, provider, row, orders, operator, unlinked, disputed>>

----------------------------------------------------------------------------
(* The commands of operators.                                              *)

Work(u)   == command[u]
Does(u, where) == command' = [command EXCEPT ![u].at = where]
Done(u)        == command' = [command EXCEPT ![u] = NoWork]
Busy(o)   == {u \in Operators : command[u].of = o}

Begin(u, work) ==
  /\ Work(u) = NoWork /\ commands < world.commands /\ commands' = commands + 1
  /\ command' = [command EXCEPT ![u] = work]
  /\ raced' = IF Busy(work.of) = {} THEN raced ELSE raced \cup {work.of}
  /\ UNCHANGED <<world, provider, row, orders, poll, faults, flagged, cut, unlinked, disputed>>

(* confirmOrder and refuseOrder: a pending order, then the provider, and   *)
(* then updateOrderStatus.                                                 *)
Decide(u, o) ==
  /\ order[o].status = "PENDING"
  /\ \E kind \in {"CONFIRM", "REFUSE"} :
       Begin(u, [NoWork EXCEPT !.at = "calling", !.kind = "decide", !.of = o,
                   !.to = IF kind = "CONFIRM" THEN "PREPARING" ELSE "CANCELLED",
                   !.action = IF kind = "CONFIRM" THEN "CONFIRM" ELSE "REQUEST_CANCELLATION"])

Advance(u, o, status, versioned) ==
  /\ Exists(o)
  /\ Begin(u, [NoWork EXCEPT !.at = "reading", !.kind = "status", !.of = o, !.to = status, !.versioned = versioned])

(* No condition on the status or the deadline of the dispute.              *)
Respond(u, o, answer) ==
  /\ dispute[o] # None
  /\ Begin(u, [NoWork EXCEPT !.at = "calling", !.kind = "dispute", !.of = o, !.to = answer, !.action = "RESPOND_DISPUTE"])

Transitions(status) ==
  CASE status = "PENDING"   -> {"PREPARING", "CANCELLED"}
    [] status = "PREPARING" -> {"READY", "CANCELLED"}
    [] status = "READY"     -> {"SHIPPED", "DELIVERED", "CANCELLED"}
    [] status = "SHIPPED"   -> {"DELIVERED", "CANCELLED"}
    [] OTHER -> {}

(* updateOrderStatus: the order and its link are read, and then written.   *)
ReadOrder(u) ==
  LET o == Work(u).of IN
  /\ Work(u).at = "reading"
  /\ IF Work(u).to \in Transitions(order[o].status)
     THEN command' = [command EXCEPT ![u] = [@ EXCEPT !.at = "writing", !.seen = order[o], !.sync = synced[o]]]
     ELSE Done(u)
  /\ UNCHANGED <<world, provider, row, orders, poll, commands, faults, flagged, raced, cut, unlinked, disputed>>

(* syncInternalStatus, with the link as it was read.                       *)
ActionOf(status) ==
  CASE status = "SHIPPED" -> "DISPATCH" [] status = "DELIVERED" -> "DELIVER"
    [] status = "CANCELLED" -> "REQUEST_CANCELLATION" [] OTHER -> None
NeedsCallMut(w) == w.sync = None /\ ActionOf(w.to) # None
NeedsCall(w) == w.sync # w.to /\ ActionOf(w.to) # None

WriteStatus(u) ==
  LET w == Work(u)
      o == w.of IN
  /\ w.at = "writing"
  /\ IF w.versioned /\ order[o].version # w.seen.version
     THEN Done(u) /\ UNCHANGED order
     ELSE /\ order' = [order EXCEPT ![o] = [status |-> w.to, version |-> @.version + 1]]
          /\ IF NeedsCall(w) THEN command' = [command EXCEPT ![u] = [@ EXCEPT !.at = "calling", !.kind = "sync", !.action = ActionOf(w.to)]]
                             ELSE Done(u)
  /\ UNCHANGED <<world, provider, row, synced, dispute, poll, commands, faults, flagged, raced, cut, unlinked, disputed>>

(* The call; its answer may be lost.                                       *)
Reaches(w) ==
  /\ answers' = IF w.kind = "dispute" THEN [answers EXCEPT ![w.of] = @ \cup {w.to}] ELSE answers
  /\ told' = IF w.kind = "dispute" THEN told ELSE [told EXCEPT ![w.of] = w.action]

Call(u) ==
  /\ Work(u).at = "calling" /\ Reaches(Work(u))
  /\ \/ Does(u, "recording") /\ UNCHANGED faults
     \/ Does(u, "flagging") /\ Fault
  /\ UNCHANGED <<world, emitted, unacked, row, orders, poll, commands, flagged, raced, cut, unlinked, disputed>>

CallFails(u) ==
  /\ Work(u).at \in {"calling", "recording"} /\ Fault /\ Does(u, "flagging")
  /\ UNCHANGED <<world, provider, row, orders, poll, commands, flagged, raced, cut, unlinked, disputed>>

(* The attempt is CONFIRMED and the link, or the dispute, updated.         *)
Outcome(w)    == w.to

RecordCall(u) ==
  LET w == Work(u) IN
  /\ w.at = "recording"
  /\ IF w.kind = "dispute" THEN dispute' = [dispute EXCEPT ![w.of] = Outcome(w)] /\ UNCHANGED synced
                           ELSE synced' = [synced EXCEPT ![w.of] = Outcome(w)] /\ UNCHANGED dispute
  /\ IF w.kind = "decide" THEN Does(u, "reading") ELSE Done(u)
  /\ UNCHANGED <<world, provider, row, order, poll, commands, faults, flagged, raced, cut, unlinked, disputed>>

(* The attempt is left RETRYABLE; nobody retries it.                       *)
Flag(u) ==
  /\ Work(u).at = "flagging" /\ flagged' = flagged \cup {Work(u).of} /\ Done(u)
  /\ UNCHANGED <<world, provider, row, orders, poll, commands, faults, raced, cut, unlinked, disputed>>

(* The process dies, or a statement outside the try block throws.          *)
CommandCut(u) ==
  /\ Work(u) # NoWork /\ Fault /\ Done(u) /\ cut' = cut \cup {Work(u).of}
  /\ UNCHANGED <<world, provider, row, orders, poll, commands, flagged, raced, unlinked, disputed>>

----------------------------------------------------------------------------
Process(p) ==
  \/ \E e \in Events : Persist(p, e)
  \/ Fetch(p) \/ MarkProcessing(p) \/ FindLink(p) \/ CreateOrder(p) \/ HandleDispute(p) \/ HandleResult(p)
  \/ MarkAckPending(p) \/ Acknowledge(p) \/ MarkAcked(p) \/ FinishPoll(p)

Start(u) ==
  \E o \in Orders :
    \/ Decide(u, o)
    \/ \E answer \in Answers : Respond(u, o, answer)
    \/ \E status \in {"PREPARING", "READY", "SHIPPED", "DELIVERED", "CANCELLED"}, versioned \in BOOLEAN :
         Advance(u, o, status, versioned)

Handle(u) == ReadOrder(u) \/ WriteStatus(u) \/ Call(u) \/ RecordCall(u) \/ Flag(u)

Next ==
  \/ \E e \in Events : Emit(e)
  \/ \E p \in Pollers : Process(p) \/ Defer(p) \/ PollFails(p)
  \/ \E u \in Operators : Start(u) \/ Handle(u) \/ CallFails(u) \/ CommandCut(u)

(* The scheduler polls again and again, and a poll or a request that runs  *)
(* goes on.                                                                *)
Fairness == (\A p \in Pollers : WF_vars(Process(p))) /\ (\A u \in Operators : WF_vars(Handle(u)))

Spec     == Init /\ [][Next]_vars
FairSpec == Spec /\ Fairness

----------------------------------------------------------------------------
Statuses == {None, "PENDING", "PREPARING", "READY", "SHIPPED", "DELIVERED", "CANCELLED"}

TypeOK ==
  /\ world \in Worlds
  /\ unacked \subseteq emitted /\ emitted \subseteq Events
  /\ told \in [Orders -> {None, "CONFIRM", "DISPATCH", "DELIVER", "REQUEST_CANCELLATION"}]
  /\ answers \in [Orders -> SUBSET Answers]
  /\ row \in [Events -> {None, "RECEIVED", "PROCESSING", "ACK_PENDING", "ACKED", "FAILED"}]
  /\ order \in [Orders -> [status : Statuses, version : 0..world.commands]]
  /\ synced \in [Orders -> Statuses] /\ dispute \in [Orders -> {None, "PENDING"} \cup Answers]
  /\ poll \in [Pollers -> [at : {"idle", "next", "marking", "details", "creating", "dispute", "result", "handled", "acking", "acked"},
                           batch : SUBSET Events, event : Events \cup {None}]]
  /\ commands \in 0..world.commands /\ faults \in 0..world.faults
  /\ flagged \cup raced \cup cut \subseteq Orders /\ unlinked \cup summed \cup strays \subseteq Events

(* What the provider no longer delivers has left its trace: the order, or  *)
(* the dispute of an order that was there when the event was handled.      *)
AckedRecorded ==
  \A e \in emitted \ unacked :
    CASE Kind[e] = "order"   -> Exists(Of[e])
      [] Kind[e] = "dispute" -> dispute[Of[e]] # None \/ e \in unlinked
      [] OTHER -> row[e] # None

(* A row is ACKED only if the provider knows: such an event is skipped, so *)
(* that one the provider still delivers would come again for ever.         *)
AckedIsKnown == \A e \in Events : row[e] = "ACKED" => e \notin unacked

(* An event is acknowledged after its effect, and a row says so after that.*)
EventsKept == TypeOK /\ AckedRecorded /\ AckedIsKnown

(* When no command is under way, the provider was last told what the order *)
(* is in, unless an attempt is flagged, a command was cut off, or two ran  *)
(* at once.                                                                *)
Reflected(action) ==
  CASE action = None       -> {"PENDING", "PREPARING", "READY"}
    [] action = "CONFIRM"  -> {"PREPARING", "READY"}
    [] action = "DISPATCH" -> {"SHIPPED"}
    [] action = "DELIVER"  -> {"DELIVERED"}
    [] OTHER -> {"CANCELLED"}
ProviderFollows ==
  \A o \in Orders : Exists(o) /\ Busy(o) = {} /\ o \notin flagged \cup raced \cup cut
                    => order[o].status \in Reflected(told[o])

(* The answer a dispute shows is one the provider got from the store, or   *)
(* one it named itself in an event of that order.                          *)
Named(o) == {Says[e] : e \in {e \in emitted : Kind[e] = "dispute" /\ Of[e] = o}}
AnswerGiven == \A o \in Orders : dispute[o] \in Answers => dispute[o] \in answers[o] \cup Named(o)

(* Where no command is under way, store and provider tell the same.        *)
ProviderTold == ProviderFollows /\ AnswerGiven

(* Every event is acknowledged in the end, whatever fails on the way and   *)
(* however polls overlap, once failures stop.                              *)
EventsEnd == \A e \in Events : e \in emitted ~> e \notin unacked
================================================================================
