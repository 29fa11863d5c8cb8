-------------------------- MODULE PlatformOrdersProofs --------------------------
(* Proofs about PlatformOrders: that no event of the provider is acknowledged *)
(* before it has left its trace, and that the provider is told what becomes   *)
(* of an order, for any number of events, orders, polls and operators.        *)
EXTENDS PlatformOrders, FiniteSetTheorems, TLAPS

Advances == {"PREPARING", "READY", "SHIPPED", "DELIVERED", "CANCELLED"}
Actions  == {None, "CONFIRM", "DISPATCH", "DELIVER", "REQUEST_CANCELLATION"}
OrderRow == [status : Statuses, version : Nat]
PollRow  == [at : {"idle", "next", "marking", "details", "creating", "dispute", "result", "handled", "acking", "acked"},
             batch : SUBSET Events, event : Events \cup {None}]
WorkRow  == [at : {"calling", "recording", "reading", "writing", "flagging"},
             kind : {"decide", "status", "sync", "dispute"}, of : Orders, to : Advances \cup Answers,
             action : Actions \cup {"RESPOND_DISPUTE"}, seen : OrderRow, sync : Statuses, versioned : BOOLEAN]

----------------------------------------------------------------------------
(* The trace of an event.                                                     *)
Trace(e) ==
  CASE Kind[e] = "order"   -> Exists(Of[e])
    [] Kind[e] = "dispute" -> dispute[Of[e]] # None \/ e \in unlinked
    [] OTHER -> row[e] # None

(* A poll holds events the provider delivered, and an event that it is about  *)
(* to acknowledge has left its trace.                                         *)
PollFits(p) ==
  /\ poll[p].batch \subseteq emitted
  /\ poll[p].at \in {"idle", "next"} \/ (poll[p].event \in emitted /\ row[poll[p].event] # None)
  /\ poll[p].at \in {"details", "creating"} => Kind[poll[p].event] = "order"
  /\ poll[p].at \in {"dispute", "result"} => Kind[poll[p].event] = poll[p].at
  /\ poll[p].at \in {"handled", "acking", "acked"} => Trace(poll[p].event)
  /\ poll[p].at = "acked" => poll[p].event \notin unacked
EventTypes ==
  /\ unacked \subseteq emitted /\ emitted \subseteq Events /\ unlinked \subseteq Events
  /\ row \in [Events -> {None, "RECEIVED", "PROCESSING", "ACK_PENDING", "ACKED", "FAILED"}]
  /\ poll \in [Pollers -> PollRow]
EventsInv ==
  /\ EventTypes
  /\ \A p \in Pollers : PollFits(p)
  /\ \A e \in Events : row[e] # None => e \in emitted
  /\ \A e \in emitted \ unacked : Trace(e)
  /\ AckedIsKnown

----------------------------------------------------------------------------
(* What a command is about, by its kind and step.                             *)
WorkFits(w) ==
  /\ Exists(w.of)
  /\ w.kind = "dispute" => /\ w.at \in {"calling", "recording", "flagging"} /\ w.to \in Answers /\ dispute[w.of] # None
                           /\ w.at = "recording" => w.to \in answers[w.of]
  /\ w.kind = "decide"  => /\ ~w.versioned
                           /\ \/ w.to = "PREPARING" /\ w.action = "CONFIRM"
                              \/ w.to = "CANCELLED" /\ w.action = "REQUEST_CANCELLATION"
  /\ w.kind = "status"  => w.at \in {"reading", "writing"} /\ w.to \in Advances
  /\ w.kind = "sync"    => /\ w.at \in {"calling", "recording", "flagging"}
                           /\ w.to \in {"SHIPPED", "DELIVERED", "CANCELLED"} /\ w.action = ActionOf(w.to)

(* The provider was told what the order is in, and what the link says it was  *)
(* told last is so.                                                           *)
Follows(o) ==
  /\ order[o].status \in Reflected(told[o])
  /\ synced[o] \in {"SHIPPED", "DELIVERED", "CANCELLED"} => order[o].status = synced[o]

(* What a command leaves to do before the provider knows, while it is alone   *)
(* with its order.                                                            *)
InStep(w) ==
  /\ w.kind = "dispute" => Follows(w.of)
  /\ w.kind = "decide" /\ w.at # "flagging" =>
       /\ order[w.of].status = "PENDING"
       /\ w.at = "calling" => Follows(w.of)
       /\ w.at # "calling" => told[w.of] = w.action
       /\ w.at \in {"reading", "writing"} => synced[w.of] = w.to
       /\ w.at = "writing" => w.sync = w.to
  /\ w.kind = "status" =>
       /\ Follows(w.of)
       /\ w.at = "writing" => w.to \in Transitions(order[w.of].status) /\ w.sync = synced[w.of]
  /\ w.kind = "sync" /\ w.at # "flagging" =>
       /\ order[w.of].status = w.to
       /\ w.at = "recording" => told[w.of] = w.action

Spoilt == flagged \cup raced \cup cut
InTouch(o) == IF Busy(o) = {} THEN Follows(o) ELSE \A u \in Busy(o) : InStep(command[u])

(* A command writes its order once, so that versions count commands.          *)
MayWrite(w) == w.kind \in {"decide", "status"} /\ w.at # "flagging"
Writers(o)  == {u \in Operators : command[u] # NoWork /\ command[u].of = o /\ MayWrite(command[u])}

StoreTypes ==
  /\ world \in Worlds
  /\ order \in [Orders -> OrderRow] /\ synced \in [Orders -> Statuses]
  /\ told \in [Orders -> Actions] /\ answers \in [Orders -> SUBSET Answers]
  /\ dispute \in [Orders -> {None, "PENDING"} \cup Answers]
  /\ commands \in 0..world.commands /\ faults \in 0..world.faults
  /\ Spoilt \subseteq Orders
  /\ command \in [Operators -> WorkRow \cup {NoWork}]
StoreInv ==
  /\ StoreTypes
  /\ \A u \in Operators : command[u] # NoWork => WorkFits(command[u])
  /\ \A o \in Orders : /\ dispute[o] # None => Exists(o)
                       /\ ~Exists(o) => told[o] = None /\ synced[o] = None
  /\ \A o \in Orders, u, v \in Operators : {u, v} \subseteq Busy(o) /\ u # v => o \in raced
  /\ \A o \in Orders : Exists(o) /\ o \notin Spoilt => InTouch(o)
  /\ \A o \in Orders : order[o].version + Cardinality(Writers(o)) <= commands
  /\ AnswerGiven

(* What has lost its metadata was handled, and has left its trace.            *)
DisputesInv ==
  /\ summed \subseteq Events /\ strays \subseteq summed
  /\ \A e \in summed : Kind[e] = "dispute" /\ Trace(e)

PlatformInv == EventsInv /\ StoreInv /\ DisputesInv

----------------------------------------------------------------------------
(* The polls.                                                                 *)

(* Orders and disputes that are there stay.                                   *)
Lasting == \A o \in Orders : (Exists(o) => Exists(o)') /\ (dispute[o] # None => dispute'[o] # None)

LEMMA TraceStays ==
  ASSUME NEW e \in Events, Lasting, row[e] # None => row'[e] # None, unlinked \subseteq unlinked', Trace(e)
  PROVE  Trace(e)'
  <1>1. Of[e] \in Orders
    BY PlatformAssumption
  <1> QED
    BY <1>1 DEF Trace, Lasting

LEMMA EventsKeep ==
  ASSUME EventsInv, Lasting, UNCHANGED <<emitted, unacked, row, poll, unlinked>>
  PROVE  EventsInv'
  <1>1. \A e \in Events : Trace(e) => Trace(e)'
    BY TraceStays
  <1>2. \A p \in Pollers : poll[p].at \in {"idle", "next"} \/ poll[p].event \in Events
    BY DEF EventsInv, EventTypes, PollFits
  <1>3. \A p \in Pollers : PollFits(p)'
    BY <1>1, <1>2 DEF EventsInv, PollFits
  <1>4. \A e \in emitted' \ unacked' : Trace(e)'
    BY <1>1 DEF EventsInv, EventTypes
  <1> QED
    BY <1>3, <1>4 DEF EventsInv, EventTypes, AckedIsKnown

(* A poll goes on to another step.                                            *)
LEMMA PollMoves ==
  ASSUME EventsInv, Lasting, NEW p \in Pollers, NEW new \in PollRow, poll' = [poll EXCEPT ![p] = new],
         emitted' = emitted, unacked' \subseteq unacked, unlinked \subseteq unlinked', unlinked' \subseteq Events,
         row' \in [Events -> {None, "RECEIVED", "PROCESSING", "ACK_PENDING", "ACKED", "FAILED"}],
         \A e \in Events : (row[e] # None => row'[e] # None) /\ (row'[e] # None => e \in emitted)
                           /\ (row'[e] = "ACKED" => e \notin unacked'),
         new.batch \subseteq emitted,
         new.at \in {"idle", "next"} \/ (new.event \in emitted /\ row'[new.event] # None),
         new.at \in {"details", "creating"} => Kind[new.event] = "order",
         new.at \in {"dispute", "result"} => Kind[new.event] = new.at,
         new.at \in {"handled", "acking", "acked"} => Trace(new.event)',
         new.at = "acked" => new.event \notin unacked',
         \A e \in unacked \ unacked' : Trace(e)'
  PROVE  EventsInv'
  <1> EventTypes
    BY DEF EventsInv
  <1>1. poll' \in [Pollers -> PollRow] /\ poll'[p] = new /\ \A q \in Pollers \ {p} : poll'[q] = poll[q]
    BY DEF EventTypes
  <1>2. \A e \in Events : Trace(e) => Trace(e)'
    BY TraceStays
  <1>3. PollFits(p)'
    BY <1>1 DEF PollFits
  <1>4. ASSUME NEW q \in Pollers \ {p}
        PROVE  PollFits(q)'
    <2>1. PollFits(q) /\ poll'[q] = poll[q] /\ (poll[q].at \in {"idle", "next"} \/ poll[q].event \in Events)
      BY <1>1 DEF EventsInv, EventTypes, PollFits
    <2> QED
      BY <1>2, <2>1 DEF PollFits
  <1>5. \A e \in emitted' \ unacked' : Trace(e)'
    BY <1>2 DEF EventsInv, EventTypes
  <1>6. EventTypes'
    BY <1>1 DEF EventTypes
  <1> QED
    BY <1>1, <1>3, <1>4, <1>5, <1>6 DEF EventsInv, AckedIsKnown

LEMMA EventOf ==
  ASSUME EventsInv, NEW p \in Pollers, poll[p].at \notin {"idle", "next"}
  PROVE  /\ poll[p] \in PollRow /\ Event(p) = poll[p].event /\ Event(p) \in Events /\ Event(p) \in emitted /\ row[Event(p)] # None
         /\ Of[Event(p)] \in Orders /\ poll[p].batch \subseteq emitted
  BY PlatformAssumption DEF EventsInv, EventTypes, PollFits, Event

(* The records of a poll that takes a step, drops its event, or stops.        *)
LEMMA Stepping ==
  ASSUME EventsInv, NEW p \in Pollers, NEW at \in {"marking", "details", "creating", "dispute", "result", "handled", "acking", "acked"},
         Steps(p, at)
  PROVE  \E new \in PollRow : /\ poll' = [poll EXCEPT ![p] = new]
                              /\ new.at = at /\ new.batch = poll[p].batch /\ new.event = poll[p].event
  <1>1. PICK old \in PollRow : old = poll[p]
    BY DEF EventsInv, EventTypes
  <1>2. PICK new : new = [old EXCEPT !.at = at]
    OBVIOUS
  <1>3. new \in PollRow /\ new.at = at /\ new.batch = old.batch /\ new.event = old.event
    BY <1>1, <1>2 DEF PollRow
  <1>4. poll' = [poll EXCEPT ![p] = new]
    BY <1>1, <1>2 DEF Steps
  <1> QED
    BY <1>1, <1>3, <1>4

LEMMA Dropping ==
  ASSUME EventsInv, NEW p \in Pollers, Drops(p) \/ Stops(p)
  PROVE  \E new \in PollRow : /\ poll' = [poll EXCEPT ![p] = new]
                              /\ new.at \in {"idle", "next"} /\ new.batch \subseteq poll[p].batch
  <1>1. poll[p].batch \in SUBSET Events
    BY DEF EventsInv, EventTypes, PollRow
  <1>2. PICK new : new = [at |-> "next", batch |-> poll[p].batch \ {Event(p)}, event |-> None]
    OBVIOUS
  <1>3. new \in PollRow /\ new.at = "next" /\ new.batch \subseteq poll[p].batch
    BY <1>1, <1>2 DEF PollRow
  <1>4. Resting \in PollRow /\ Resting.at = "idle" /\ Resting.batch \subseteq poll[p].batch
    BY DEF Resting, PollRow
  <1>5. CASE Drops(p)
    BY <1>2, <1>3, <1>5 DEF Drops
  <1>6. CASE Stops(p)
    BY <1>4, <1>6 DEF Stops
  <1> QED
    BY <1>5, <1>6

(* A poll that drops its event, or stops, whatever it writes into the row.    *)
LEMMA PollDrops ==
  ASSUME EventsInv, Lasting, NEW p \in Pollers, Drops(p) \/ Stops(p), UNCHANGED <<emitted, unacked, unlinked>>,
         row' \in [Events -> {None, "RECEIVED", "PROCESSING", "ACK_PENDING", "ACKED", "FAILED"}],
         \A e \in Events : (row[e] # None => row'[e] # None) /\ (row'[e] # None => e \in emitted)
                           /\ (row'[e] = "ACKED" => e \notin unacked)
  PROVE  EventsInv'
  <1>1. PICK new \in PollRow : /\ poll' = [poll EXCEPT ![p] = new]
                               /\ new.at \in {"idle", "next"} /\ new.batch \subseteq poll[p].batch
    BY Dropping
  <1>2. new.batch \subseteq emitted
    BY <1>1 DEF EventsInv, PollFits
  <1>3. unlinked' \subseteq Events
    BY DEF EventsInv, EventTypes
  <1> QED
    BY <1>1, <1>2, <1>3, PollMoves

LEMMA RowsStay ==
  ASSUME EventsInv, row' = row
  PROVE  /\ row' \in [Events -> {None, "RECEIVED", "PROCESSING", "ACK_PENDING", "ACKED", "FAILED"}]
         /\ \A e \in Events : (row[e] # None => row'[e] # None) /\ (row'[e] # None => e \in emitted)
                              /\ (row'[e] = "ACKED" => e \notin unacked)
  BY DEF EventsInv, EventTypes, AckedIsKnown

LEMMA RowSet ==
  ASSUME EventsInv, NEW p \in Pollers, poll[p].at \notin {"idle", "next"},
         NEW status \in {"RECEIVED", "PROCESSING", "ACK_PENDING", "ACKED", "FAILED"}, Sets(p, status),
         status = "ACKED" => Event(p) \notin unacked
  PROVE  /\ row' \in [Events -> {None, "RECEIVED", "PROCESSING", "ACK_PENDING", "ACKED", "FAILED"}]
         /\ \A e \in Events : (row[e] # None => row'[e] # None) /\ (row'[e] # None => e \in emitted)
                              /\ (row'[e] = "ACKED" => e \notin unacked)
  <1>1. Event(p) \in Events /\ Event(p) \in emitted
    BY EventOf
  <1>2. row \in [Events -> {None, "RECEIVED", "PROCESSING", "ACK_PENDING", "ACKED", "FAILED"}]
    BY DEF EventsInv, EventTypes
  <1>3. row' = [row EXCEPT ![Event(p)] = status]
    BY DEF Sets
  <1>4. row'[Event(p)] = status /\ \A e \in Events \ {Event(p)} : row'[e] = row[e]
    BY <1>1, <1>2, <1>3
  <1>5. status # None
    BY PlatformAssumption
  <1>6. \A e \in Events : (row[e] # None => e \in emitted) /\ (row[e] = "ACKED" => e \notin unacked)
    BY DEF EventsInv, AckedIsKnown
  <1> QED
    BY <1>1, <1>2, <1>3, <1>4, <1>5, <1>6

(* A poll that goes on with its event.                                        *)
LEMMA PollSteps ==
  ASSUME EventsInv, Lasting, NEW p \in Pollers, poll[p].at \notin {"idle", "next"},
         NEW at \in {"marking", "details", "creating", "dispute", "result", "handled", "acking"}, Steps(p, at),
         UNCHANGED <<emitted, unacked>>, unlinked \subseteq unlinked', unlinked' \subseteq Events,
         row' \in [Events -> {None, "RECEIVED", "PROCESSING", "ACK_PENDING", "ACKED", "FAILED"}],
         \A e \in Events : (row[e] # None => row'[e] # None) /\ (row'[e] # None => e \in emitted)
                           /\ (row'[e] = "ACKED" => e \notin unacked),
         at \in {"details", "creating"} => Kind[poll[p].event] = "order",
         at \in {"dispute", "result"} => Kind[poll[p].event] = at,
         NEW e0 \in Events, e0 = poll[p].event, at \in {"handled", "acking"} => Trace(e0)'
  PROVE  EventsInv'
  <1>1. PICK new \in PollRow : /\ poll' = [poll EXCEPT ![p] = new]
                               /\ new.at = at /\ new.batch = poll[p].batch /\ new.event = e0
    BY Stepping
  <1>2. new.batch \subseteq emitted /\ e0 \in emitted /\ row'[e0] # None
    BY <1>1, EventOf
  <1>3. new.at \in {"handled", "acking", "acked"} => Trace(new.event)'
    BY <1>1
  <1>4. /\ new.at \in {"details", "creating"} => Kind[new.event] = "order"
        /\ new.at \in {"dispute", "result"} => Kind[new.event] = new.at
        /\ new.at # "acked"
    BY <1>1
  <1> QED
    BY <1>1, <1>2, <1>3, <1>4, PollMoves

LEMMA Lasts ==
  ASSUME UNCHANGED <<order, dispute>>
  PROVE  Lasting
  BY DEF Lasting, Exists

LEMMA FetchKeeps ==
  ASSUME EventsInv, NEW p \in Pollers, Fetch(p)
  PROVE  EventsInv'
  <1>1. UNCHANGED <<emitted, unacked, row, order, dispute, unlinked>> /\ Lasting
    BY Lasts DEF Fetch, provider, orders
  <1>2. unacked \in SUBSET Events /\ unacked \subseteq emitted /\ unlinked \subseteq Events
    BY DEF EventsInv, EventTypes
  <1>3. PICK new : new = [at |-> "next", batch |-> unacked, event |-> None]
    OBVIOUS
  <1>4. new \in PollRow /\ new.at = "next" /\ new.batch \subseteq emitted
    BY <1>2, <1>3 DEF PollRow
  <1>5. poll' = [poll EXCEPT ![p] = new]
    BY <1>3 DEF Fetch
  <1> QED
    BY <1>1, <1>2, <1>4, <1>5, RowsStay, PollMoves

LEMMA PersistKeeps ==
  ASSUME EventsInv, NEW p \in Pollers, NEW e \in Events, Persist(p, e)
  PROVE  EventsInv'
  <1>1. UNCHANGED <<emitted, unacked, order, dispute, unlinked>> /\ Lasting
    BY Lasts DEF Persist, provider, orders
  <1>2. PICK old \in PollRow : old = poll[p] /\ old.batch \subseteq emitted /\ old.at = "next" /\ e \in old.batch
    BY DEF Persist, EventsInv, EventTypes, PollFits
  <1>3. e \in emitted /\ unlinked \subseteq Events
    BY <1>2 DEF EventsInv, EventTypes
  <1>4. /\ row' \in [Events -> {None, "RECEIVED", "PROCESSING", "ACK_PENDING", "ACKED", "FAILED"}] /\ row'[e] # None
        /\ \A f \in Events : (row[f] # None => row'[f] # None) /\ (row'[f] # None => f \in emitted)
                             /\ (row'[f] = "ACKED" => f \notin unacked)
    <2>1. row \in [Events -> {None, "RECEIVED", "PROCESSING", "ACK_PENDING", "ACKED", "FAILED"}]
      BY DEF EventsInv, EventTypes
    <2>2. row' = IF row[e] = None THEN [row EXCEPT ![e] = "RECEIVED"] ELSE row
      BY DEF Persist
    <2>3. \A f \in Events \ {e} : row'[f] = row[f]
      BY <2>1, <2>2
    <2>4. row'[e] = IF row[e] = None THEN "RECEIVED" ELSE row[e]
      BY <2>1, <2>2
    <2>5. row' \in [Events -> {None, "RECEIVED", "PROCESSING", "ACK_PENDING", "ACKED", "FAILED"}]
      BY <2>1, <2>2
    <2>6. row'[e] # None /\ (row'[e] = "ACKED" => row[e] = "ACKED")
      BY <2>4, PlatformAssumption
    <2>7. \A f \in Events : (row[f] # None => f \in emitted) /\ (row[f] = "ACKED" => f \notin unacked)
      BY DEF EventsInv, AckedIsKnown
    <2> QED
      BY <1>3, <2>3, <2>5, <2>6, <2>7
  <1>5. CASE row[e] = "ACKED"
    <2>1. PICK new : new = [old EXCEPT !.batch = old.batch \ {e}]
      OBVIOUS
    <2>2. new \in PollRow /\ new.at = "next" /\ new.batch \subseteq old.batch
      BY <1>2, <2>1 DEF PollRow
    <2>3. poll' = [poll EXCEPT ![p] = new]
      <3>1. poll' = [poll EXCEPT ![p] = [poll[p] EXCEPT !.batch = poll[p].batch \ {e}]]
        BY <1>5 DEF Persist
      <3> QED
        BY <1>2, <2>1, <3>1
    <2> QED
      BY <1>1, <1>2, <1>3, <1>4, <2>2, <2>3, PollMoves
  <1>6. CASE row[e] # "ACKED"
    <2>1. PICK new : new = [old EXCEPT !.at = "marking", !.event = e]
      OBVIOUS
    <2>2. new \in PollRow /\ new.at = "marking" /\ new.batch = old.batch /\ new.event = e
      BY <1>2, <2>1 DEF PollRow
    <2>3. poll' = [poll EXCEPT ![p] = new]
      BY <1>2, <1>6, <2>1 DEF Persist
    <2> QED
      BY <1>1, <1>2, <1>3, <1>4, <2>2, <2>3, PollMoves
  <1> QED
    BY <1>5, <1>6

LEMMA MarkProcessingKeeps ==
  ASSUME EventsInv, NEW p \in Pollers, MarkProcessing(p)
  PROVE  EventsInv'
  <1>1. UNCHANGED <<emitted, unacked, order, dispute, unlinked>> /\ Lasting /\ unlinked \subseteq Events
    BY Lasts DEF MarkProcessing, provider, orders, EventsInv, EventTypes
  <1>2. poll[p].at \notin {"idle", "next"} /\ Sets(p, "PROCESSING")
    BY DEF MarkProcessing
  <1>3. PICK e \in Events : e = Event(p)
    BY <1>2, EventOf
  <1>4. PICK at \in {"details", "dispute", "result"} : /\ Steps(p, at)
                                                       /\ at = "details" => Kind[e] = "order"
                                                       /\ at \in {"dispute", "result"} => Kind[e] = at
    <2>1. Kind[e] \in {"order", "dispute", "result"}
      BY PlatformAssumption
    <2> QED
      BY <1>3, <2>1 DEF MarkProcessing
  <1>5. e = poll[p].event
    BY <1>3 DEF Event
  <1> QED
    BY <1>1, <1>2, <1>4, <1>5, RowSet, PollSteps

LEMMA DeferKeeps ==
  ASSUME EventsInv, NEW p \in Pollers, Defer(p)
  PROVE  EventsInv'
  <1>1. UNCHANGED <<emitted, unacked, order, dispute, unlinked>> /\ Lasting
    BY Lasts DEF Defer, provider, orders
  <1>2. poll[p].at \notin {"idle", "next"} /\ Drops(p)
    BY DEF Defer
  <1>3. PICK status \in {"RECEIVED", "FAILED"} : Sets(p, status)
    BY DEF Defer
  <1> QED
    BY <1>1, <1>2, <1>3, RowSet, PollDrops

LEMMA FindLinkKeeps ==
  ASSUME EventsInv, NEW p \in Pollers, FindLink(p)
  PROVE  EventsInv'
  <1>1. UNCHANGED <<emitted, unacked, row, order, dispute, unlinked>> /\ Lasting /\ unlinked \subseteq Events
    BY Lasts DEF FindLink, provider, orders, EventsInv, EventTypes
  <1>2. poll[p].at = "details" /\ poll[p].at \notin {"idle", "next"}
    BY DEF FindLink
  <1>3. PICK e \in Events : e = poll[p].event /\ e = Event(p)
    BY <1>2, EventOf
  <1>4. Kind[e] = "order"
    BY <1>2, <1>3 DEF EventsInv, PollFits
  <1>5. CASE Exists(Of[e])
    <2>1. Steps(p, "handled")
      BY <1>3, <1>5 DEF FindLink
    <2>2. Trace(e)'
      BY <1>1, <1>4, <1>5 DEF Trace, Exists
    <2> QED
      BY <1>1, <1>2, <1>3, <2>1, <2>2, RowsStay, PollSteps
  <1>6. CASE ~Exists(Of[e])
    <2>1. Steps(p, "creating")
      BY <1>3, <1>6 DEF FindLink
    <2> QED
      BY <1>1, <1>2, <1>3, <1>4, <2>1, RowsStay, PollSteps
  <1> QED
    BY <1>5, <1>6

(* An order, once created, exists for good.                                   *)
LEMMA Created ==
  ASSUME StoreTypes, NEW o \in Orders, ~Exists(o), order' = [order EXCEPT ![o].status = "PENDING"], dispute' = dispute
  PROVE  /\ order' \in [Orders -> OrderRow]
         /\ order'[o].status = "PENDING" /\ order'[o].version = order[o].version
         /\ \A q \in Orders \ {o} : order'[q] = order[q]
         /\ Exists(o)' /\ Lasting
  <1>1. order \in [Orders -> OrderRow] /\ order[o] \in OrderRow
    BY DEF StoreTypes
  <1>2. PICK new : new = [order[o] EXCEPT !.status = "PENDING"]
    OBVIOUS
  <1>3. new \in OrderRow /\ new.status = "PENDING" /\ new.version = order[o].version
    BY <1>1, <1>2 DEF OrderRow, Statuses
  <1>4. order' = [order EXCEPT ![o] = new]
    BY <1>2
  <1>5. /\ order' \in [Orders -> OrderRow] /\ order'[o] = new /\ \A q \in Orders \ {o} : order'[q] = order[q]
    BY <1>1, <1>3, <1>4
  <1>6. Exists(o)'
    BY <1>3, <1>5, PlatformAssumption DEF Exists
  <1>7. Lasting
    BY <1>5, <1>6 DEF Lasting, Exists
  <1> QED
    BY <1>3, <1>5, <1>6, <1>7

LEMMA CreateOrderKeeps ==
  ASSUME EventsInv, StoreTypes, NEW p \in Pollers, CreateOrder(p)
  PROVE  EventsInv' /\ Lasting
  <1>1. UNCHANGED <<emitted, unacked, row, dispute, unlinked>> /\ unlinked \subseteq Events
    BY DEF CreateOrder, provider, EventsInv, EventTypes
  <1>2. poll[p].at = "creating" /\ poll[p].at \notin {"idle", "next"}
    BY DEF CreateOrder
  <1>3. PICK e \in Events : e = poll[p].event /\ e = Event(p)
    BY <1>2, EventOf
  <1>4. Kind[e] = "order" /\ Of[e] \in Orders
    BY <1>2, <1>3, PlatformAssumption DEF EventsInv, PollFits
  <1>5. CASE Exists(Of[e])
    <2>1. Stops(p) /\ order' = order
      BY <1>3, <1>5 DEF CreateOrder
    <2>2. Lasting
      BY <1>1, <2>1, Lasts
    <2> QED
      BY <1>1, <2>1, <2>2, RowsStay, PollDrops
  <1>6. CASE ~Exists(Of[e])
    <2>1. Steps(p, "handled") /\ order' = [order EXCEPT ![Of[e]].status = "PENDING"]
      BY <1>3, <1>6 DEF CreateOrder
    <2>2. Exists(Of[e])' /\ Lasting
      BY <1>1, <1>4, <1>6, <2>1, Created
    <2>3. Trace(e)'
      BY <1>4, <2>2 DEF Trace
    <2> QED
      BY <1>1, <1>2, <1>3, <2>1, <2>2, <2>3, RowsStay, PollSteps
  <1> QED
    BY <1>5, <1>6

LEMMA HandleDisputeKeeps ==
  ASSUME EventsInv, StoreTypes, DisputesInv, NEW p \in Pollers, HandleDispute(p)
  PROVE  EventsInv' /\ Lasting /\ DisputesInv'
  <1>1. UNCHANGED <<emitted, unacked, row, order>>
    BY DEF HandleDispute, provider
  <1>2. poll[p].at = "dispute" /\ poll[p].at \notin {"idle", "next"} /\ (Steps(p, "handled") \/ Stops(p))
    BY DEF HandleDispute
  <1>3. PICK e \in Events : e = poll[p].event /\ e = Event(p)
    BY <1>2, EventOf
  <1>4. Kind[e] = "dispute" /\ Of[e] \in Orders /\ Says[e] # None /\ unlinked \subseteq Events
    BY <1>2, <1>3, PlatformAssumption DEF EventsInv, PollFits, EventTypes
  <1>5. \/ /\ Exists(Of[e]) /\ unlinked' = unlinked
           /\ \/ dispute' = [dispute EXCEPT ![Of[e]] = Says[e]]
              \/ dispute' = [dispute EXCEPT ![Of[e]] = "PENDING"]
              \/ dispute' = dispute /\ e \in summed
        \/ dispute' = dispute /\ unlinked' = unlinked \cup {e}
    BY <1>3 DEF HandleDispute
  <1>6. e \in summed => Trace(e)
    BY DEF DisputesInv
  <1>7. (dispute'[Of[e]] # None \/ e \in unlinked') /\ unlinked \subseteq unlinked' /\ unlinked' \subseteq Events
        /\ \A o \in Orders : dispute[o] # None => dispute'[o] # None
    BY <1>4, <1>5, <1>6, PlatformAssumption DEF StoreTypes, Trace
  <1>8. Lasting
    BY <1>1, <1>7 DEF Lasting, Exists
  <1>9. Trace(e)'
    BY <1>4, <1>7 DEF Trace
  <1>10. ASSUME Steps(p, "handled")
         PROVE  EventsInv'
    BY <1>1, <1>2, <1>3, <1>7, <1>8, <1>9, <1>10, RowsStay, PollSteps
  <1>11. ASSUME Stops(p)
         PROVE  EventsInv'
    <2>1. PICK new \in PollRow : /\ poll' = [poll EXCEPT ![p] = new]
                                 /\ new.at \in {"idle", "next"} /\ new.batch \subseteq poll[p].batch
      BY <1>11, Dropping
    <2>2. new.batch \subseteq emitted
      BY <2>1 DEF EventsInv, PollFits
    <2> QED
      BY <1>1, <1>7, <1>8, <2>1, <2>2, RowsStay, PollMoves
  <1>12. summed' \in {summed, summed \cup {e}} /\ strays' \in {strays, strays \cup {e}} /\ (strays' # strays => e \in summed)
    BY <1>3 DEF HandleDispute
  <1>13. \A f \in summed : Trace(f)'
    BY <1>1, <1>7, <1>8, TraceStays DEF DisputesInv
  <1>14. DisputesInv'
    BY <1>4, <1>9, <1>12, <1>13 DEF DisputesInv
  <1> QED
    BY <1>2, <1>8, <1>10, <1>11, <1>14

LEMMA HandleResultKeeps ==
  ASSUME EventsInv, NEW p \in Pollers, HandleResult(p)
  PROVE  EventsInv'
  <1>1. UNCHANGED <<emitted, unacked, row, order, dispute>> /\ Lasting
    BY Lasts DEF HandleResult, provider, orders
  <1>2. poll[p].at = "result" /\ poll[p].at \notin {"idle", "next"} /\ Steps(p, "handled")
    BY DEF HandleResult
  <1>3. PICK e \in Events : e = poll[p].event /\ e = Event(p) /\ row[e] # None
    BY <1>2, EventOf
  <1>4. unlinked \subseteq unlinked' /\ unlinked' \subseteq Events
    BY <1>3 DEF HandleResult, EventsInv, EventTypes
  <1>5. Kind[e] = "result"
    BY <1>2, <1>3 DEF EventsInv, PollFits
  <1>6. Trace(e)'
    BY <1>1, <1>3, <1>5 DEF Trace
  <1> QED
    BY <1>1, <1>2, <1>3, <1>4, <1>6, RowsStay, PollSteps

LEMMA MarkAckPendingKeeps ==
  ASSUME EventsInv, NEW p \in Pollers, MarkAckPending(p)
  PROVE  EventsInv'
  <1>1. UNCHANGED <<emitted, unacked, order, dispute, unlinked>> /\ Lasting /\ unlinked \subseteq Events
    BY Lasts DEF MarkAckPending, provider, orders, EventsInv, EventTypes
  <1>2. poll[p].at = "handled" /\ poll[p].at \notin {"idle", "next"} /\ Sets(p, "ACK_PENDING") /\ Steps(p, "acking")
    BY DEF MarkAckPending
  <1>3. PICK e \in Events : e = poll[p].event /\ e = Event(p)
    BY <1>2, EventOf
  <1>4. Trace(e) /\ (row[e] # None => row'[e] # None)
    BY <1>2, <1>3, RowSet DEF EventsInv, PollFits
  <1>5. Trace(e)'
    BY <1>1, <1>4, TraceStays
  <1> QED
    BY <1>1, <1>2, <1>3, <1>5, RowSet, PollSteps

LEMMA AcknowledgeKeeps ==
  ASSUME EventsInv, NEW p \in Pollers, Acknowledge(p)
  PROVE  EventsInv'
  <1>1. UNCHANGED <<emitted, row, order, dispute, unlinked>> /\ Lasting /\ unlinked \subseteq Events
    BY Lasts DEF Acknowledge, orders, EventsInv, EventTypes
  <1>2. poll[p].at = "acking" /\ poll[p].at \notin {"idle", "next"} /\ (Steps(p, "acked") \/ Stops(p))
    BY DEF Acknowledge
  <1>3. PICK e \in Events : e = poll[p].event /\ e = Event(p) /\ e \in emitted /\ row[e] # None
    BY <1>2, EventOf
  <1>4. unacked' = unacked \ {e}
    BY <1>3 DEF Acknowledge
  <1>5. Trace(e)'
    BY <1>1, <1>2, <1>3, TraceStays DEF EventsInv, PollFits
  <1>6. /\ row' \in [Events -> {None, "RECEIVED", "PROCESSING", "ACK_PENDING", "ACKED", "FAILED"}]
        /\ \A f \in Events : (row[f] # None => row'[f] # None) /\ (row'[f] # None => f \in emitted)
                             /\ (row'[f] = "ACKED" => f \notin unacked')
    BY <1>1, <1>4, RowsStay
  <1>7. \A f \in unacked \ unacked' : Trace(f)'
    BY <1>4, <1>5
  <1>8. poll[p].batch \subseteq emitted
    BY <1>2, EventOf
  <1>9. CASE Steps(p, "acked")
    <2>1. PICK new \in PollRow : /\ poll' = [poll EXCEPT ![p] = new]
                                 /\ new.at = "acked" /\ new.batch = poll[p].batch /\ new.event = e
      <3>1. \E new \in PollRow : /\ poll' = [poll EXCEPT ![p] = new]
                                 /\ new.at = "acked" /\ new.batch = poll[p].batch /\ new.event = poll[p].event
        BY <1>9, Stepping
      <3> QED
        BY <1>3, <3>1
    <2> QED
      BY <1>1, <1>3, <1>4, <1>5, <1>6, <1>7, <1>8, <2>1, PollMoves
  <1>10. CASE Stops(p)
    <2>1. PICK new \in PollRow : /\ poll' = [poll EXCEPT ![p] = new]
                                 /\ new.at \in {"idle", "next"} /\ new.batch \subseteq poll[p].batch
      BY <1>10, Dropping
    <2> QED
      BY <1>1, <1>4, <1>6, <1>7, <1>8, <2>1, PollMoves
  <1> QED
    BY <1>2, <1>9, <1>10

LEMMA MarkAckedKeeps ==
  ASSUME EventsInv, NEW p \in Pollers, MarkAcked(p)
  PROVE  EventsInv'
  <1>1. UNCHANGED <<emitted, unacked, order, dispute, unlinked>> /\ Lasting
    BY Lasts DEF MarkAcked, provider, orders
  <1>2. poll[p].at = "acked" /\ poll[p].at \notin {"idle", "next"} /\ Sets(p, "ACKED") /\ Drops(p)
    BY DEF MarkAcked
  <1>3. Event(p) \notin unacked
    BY <1>2 DEF EventsInv, PollFits, Event
  <1> QED
    BY <1>1, <1>2, <1>3, RowSet, PollDrops

LEMMA StopKeeps ==
  ASSUME EventsInv, NEW p \in Pollers, FinishPoll(p) \/ PollFails(p)
  PROVE  EventsInv'
  <1>1. UNCHANGED <<emitted, unacked, row, order, dispute, unlinked>> /\ Lasting /\ Stops(p)
    BY Lasts DEF FinishPoll, PollFails, provider, orders
  <1> QED
    BY <1>1, RowsStay, PollDrops

LEMMA EmitKeeps ==
  ASSUME EventsInv, StoreTypes, NEW e \in Events, Emit(e)
  PROVE  EventsInv'
  <1>1. /\ e \notin emitted /\ emitted' = emitted \cup {e} /\ unacked' = unacked \cup {e}
        /\ UNCHANGED <<row, order, dispute, poll, unlinked>>
    BY DEF Emit, orders
  <1>2. EventTypes'
    BY <1>1 DEF EventsInv, EventTypes
  <1>3. \A f \in Events : Trace(f)' <=> Trace(f)
    BY <1>1 DEF Trace, Exists
  <1>4. ASSUME NEW p \in Pollers
        PROVE  PollFits(p)'
    <2>1. PollFits(p) /\ (poll[p].at \in {"idle", "next"} \/ poll[p].event \in Events) /\ poll'[p] = poll[p]
      BY <1>1 DEF EventsInv, EventTypes, PollFits
    <2> QED
      BY <1>1, <1>3, <2>1 DEF PollFits
  <1>5. \A f \in emitted' \ unacked' : Trace(f)'
    BY <1>1, <1>3 DEF EventsInv, EventTypes
  <1>6. \A f \in Events : row'[f] # None => f \in emitted'
    BY <1>1 DEF EventsInv
  <1>7. AckedIsKnown'
    BY <1>1, PlatformAssumption DEF EventsInv, AckedIsKnown
  <1> QED
    BY <1>2, <1>4, <1>5, <1>6, <1>7 DEF EventsInv

----------------------------------------------------------------------------
(* The commands.                                                              *)

LEMMA NoWorkIsNone ==
  /\ NoWork \notin WorkRow
  /\ \A w \in WorkRow : w.of \in Orders /\ w.of # None
  /\ NoWork.of = None
  BY PlatformAssumption DEF NoWork, WorkRow

LEMMA BusyWork ==
  ASSUME StoreTypes, NEW o \in Orders
  PROVE  \A u \in Operators : u \in Busy(o) <=> command[u] # NoWork /\ command[u] \in WorkRow /\ command[u].of = o
  <1> SUFFICES ASSUME NEW u \in Operators
               PROVE  u \in Busy(o) <=> command[u] # NoWork /\ command[u] \in WorkRow /\ command[u].of = o
    OBVIOUS
  <1>1. command[u] \in WorkRow \/ command[u] = NoWork
    BY DEF StoreTypes
  <1>2. command[u] = NoWork => command[u].of # o
    BY NoWorkIsNone, PlatformAssumption
  <1> QED
    BY <1>1, <1>2, NoWorkIsNone DEF Busy

(* What a command has to do depends on its order alone.                       *)
LEMMA SameStep ==
  ASSUME NEW w \in WorkRow, NEW o \in Orders, w.of = o, order'[o] = order[o], told'[o] = told[o], synced'[o] = synced[o]
  PROVE  (InStep(w)' <=> InStep(w)) /\ (Follows(o)' <=> Follows(o))
  BY DEF InStep, Follows

(* What the provider has named in its events.                                 *)
LEMMA NamedStays ==
  ASSUME emitted \subseteq emitted'
  PROVE  \A o \in Orders : Named(o) \subseteq Named(o)'
  BY DEF Named

LEMMA FitStays ==
  ASSUME NEW w \in WorkRow, Lasting, answers[w.of] \subseteq answers'[w.of], WorkFits(w)
  PROVE  WorkFits(w)'
  <1>1. w.of \in Orders
    BY DEF WorkRow
  <1> QED
    BY <1>1 DEF WorkFits, Lasting

(* What the polls do to the orders.                                           *)
LEMMA StoreKeeps ==
  ASSUME StoreInv, Lasting, emitted \subseteq emitted', UNCHANGED <<world, told, answers, synced, command, commands, flagged, raced, cut>>,
         faults' \in 0..world.faults, order' \in [Orders -> OrderRow], dispute' \in [Orders -> {None, "PENDING"} \cup Answers],
         \A o \in Orders : order'[o] = order[o]
                           \/ (~Exists(o) /\ order'[o].status = "PENDING" /\ order'[o].version = order[o].version),
         \A o \in Orders : dispute'[o] = dispute[o] \/ (Exists(o) /\ dispute'[o] \in {"PENDING"} \cup Named(o))
  PROVE  StoreInv'
  <1> StoreTypes
    BY DEF StoreInv
  <1>1. StoreTypes'
    BY DEF StoreTypes, Spoilt
  <1>2. ASSUME NEW u \in Operators, command[u] # NoWork
        PROVE  WorkFits(command[u])'
    <2>1. PICK w \in WorkRow : w = command[u] /\ WorkFits(w) /\ w.of \in Orders
      BY <1>2 DEF StoreTypes, StoreInv, WorkRow
    <2>2. WorkFits(w)'
      BY <2>1, FitStays
    <2> QED
      BY <2>1, <2>2
  <1>3. \A o \in Orders : /\ dispute'[o] # None => Exists(o)'
                          /\ ~Exists(o)' => told'[o] = None /\ synced'[o] = None
    BY DEF StoreInv, Lasting
  <1>4. \A o \in Orders : Busy(o)' = Busy(o) /\ Writers(o)' = Writers(o)
    BY DEF Busy, Writers
  <1>5. ASSUME NEW o \in Orders, Exists(o)', o \notin Spoilt'
        PROVE  InTouch(o)'
    <2>1. o \notin Spoilt
      BY <1>5 DEF Spoilt
    <2>2. CASE Exists(o)
      <3>1. order'[o] = order[o] /\ InTouch(o)
        BY <2>1, <2>2 DEF StoreInv
      <3>2. Follows(o)' <=> Follows(o)
        BY <3>1 DEF Follows
      <3>3. \A u \in Busy(o) : InStep(command[u]) => InStep(command[u])'
        <4>1. ASSUME NEW u \in Busy(o), InStep(command[u])
              PROVE  InStep(command[u])'
          <5>1. PICK w \in WorkRow : w = command[u] /\ w.of = o
            BY BusyWork DEF Busy
          <5>2. InStep(w)' <=> InStep(w)
            BY <3>1, <5>1, SameStep
          <5> QED
            BY <4>1, <5>1, <5>2
        <4> QED
          BY <4>1
      <3> QED
        BY <1>4, <3>1, <3>2, <3>3 DEF InTouch
    <2>3. CASE ~Exists(o)
      <3>1. told'[o] = None /\ synced'[o] = None /\ order'[o].status = "PENDING"
        BY <1>5, <2>3 DEF StoreInv, Exists
      <3>2. Busy(o) = {}
        <4>1. ASSUME NEW u \in Busy(o)
              PROVE  FALSE
          <5>1. u \in Operators /\ command[u] # NoWork /\ command[u].of = o
            BY <4>1, BusyWork DEF Busy
          <5> QED
            BY <2>3, <5>1 DEF StoreInv, WorkFits
        <4> QED
          BY <4>1
      <3>3. Follows(o)'
        BY <3>1, PlatformAssumption DEF Follows, Reflected
      <3> QED
        BY <1>4, <3>2, <3>3 DEF InTouch
    <2> QED
      BY <2>2, <2>3
  <1>6. \A o \in Orders, u, v \in Operators : {u, v} \subseteq Busy(o)' /\ u # v => o \in raced'
    BY <1>4 DEF StoreInv
  <1>7. \A o \in Orders : order'[o].version + Cardinality(Writers(o)') <= commands'
    BY <1>4 DEF StoreInv
  <1>8. AnswerGiven'
    BY NamedStays, PlatformAssumption DEF StoreInv, AnswerGiven, Answers
  <1> QED
    BY <1>1, <1>2, <1>3, <1>5, <1>6, <1>7, <1>8 DEF StoreInv

(* A command takes a step with its order, begins, or ends.                    *)
Counted(u, o, w) ==
  \/ /\ order'[o].version = order[o].version /\ commands' = commands
     /\ w # NoWork /\ MayWrite(w) => command[u] # NoWork /\ MayWrite(command[u])
  \/ /\ order'[o].version = order[o].version /\ commands' = commands + 1
  \/ /\ order'[o].version = order[o].version + 1 /\ commands' = commands
     /\ command[u] # NoWork /\ MayWrite(command[u]) /\ (w # NoWork => ~MayWrite(w))

LEMMA WritersCounted ==
  ASSUME StoreInv, NEW u \in Operators, NEW o \in Orders, NEW w \in WorkRow \cup {NoWork},
         command[u] = NoWork \/ command[u].of = o, w = NoWork \/ w.of = o,
         command' = [command EXCEPT ![u] = w], Counted(u, o, w),
         \A q \in Orders \ {o} : order'[q] = order[q]
  PROVE  \A q \in Orders : order'[q].version + Cardinality(Writers(q)') <= commands'
  <1> StoreTypes
    BY DEF StoreInv
  <1>1. command'[u] = w /\ \A v \in Operators \ {u} : command'[v] = command[v]
    BY DEF StoreTypes
  <1>2. \A q \in Orders : IsFiniteSet(Writers(q)) /\ Cardinality(Writers(q)) \in Nat
    <2>1. \A q \in Orders : Writers(q) \subseteq Operators
      BY DEF Writers
    <2> QED
      BY <2>1, PlatformAssumption, FS_Subset, FS_CardinalityType
  <1>3. \A q \in Orders : order[q].version \in Nat /\ order[q].version + Cardinality(Writers(q)) <= commands /\ commands \in Nat
    BY PlatformAssumption DEF StoreInv, StoreTypes, OrderRow
  <1>4. \A q \in Orders \ {o} : Writers(q)' = Writers(q)
    BY <1>1, NoWorkIsNone DEF Writers
  <1>5. commands' = commands \/ commands' = commands + 1
    BY DEF Counted
  <1>6. \A q \in Orders \ {o} : order'[q].version + Cardinality(Writers(q)') <= commands'
    BY <1>2, <1>3, <1>4, <1>5
  <1>7. order'[o].version + Cardinality(Writers(o)') <= commands'
    <2>1. Writers(o)' \subseteq Writers(o) \cup {u}
      BY <1>1 DEF Writers
    <2>2. u \in Writers(o)' <=> w # NoWork /\ w.of = o /\ MayWrite(w)
      BY <1>1 DEF Writers
    <2>3. u \in Writers(o) <=> command[u] # NoWork /\ command[u].of = o /\ MayWrite(command[u])
      BY DEF Writers
    <2>4. CASE /\ order'[o].version = order[o].version /\ commands' = commands
               /\ w # NoWork /\ MayWrite(w) => command[u] # NoWork /\ MayWrite(command[u])
      <3>1. Writers(o)' \subseteq Writers(o)
        BY <2>1, <2>2, <2>3, <2>4
      <3>2. Cardinality(Writers(o)') <= Cardinality(Writers(o)) /\ Cardinality(Writers(o)') \in Nat
        BY <1>2, <3>1, FS_Subset, FS_CardinalityType
      <3> QED
        BY <1>2, <1>3, <2>4, <3>2
    <2>5. CASE order'[o].version = order[o].version /\ commands' = commands + 1
      <3>1. IsFiniteSet(Writers(o) \cup {u}) /\ Cardinality(Writers(o) \cup {u}) <= Cardinality(Writers(o)) + 1
            /\ Cardinality(Writers(o) \cup {u}) \in Nat
        <4>1. Cardinality(Writers(o) \cup {u}) = IF u \in Writers(o) THEN Cardinality(Writers(o)) ELSE Cardinality(Writers(o)) + 1
          BY <1>2, FS_AddElement
        <4>2. IsFiniteSet(Writers(o) \cup {u})
          BY <1>2, FS_AddElement
        <4> QED
          BY <1>2, <4>1, <4>2
      <3>2. Cardinality(Writers(o)') <= Cardinality(Writers(o) \cup {u}) /\ Cardinality(Writers(o)') \in Nat
        BY <2>1, <3>1, FS_Subset, FS_CardinalityType
      <3> QED
        BY <1>2, <1>3, <2>5, <3>1, <3>2
    <2>6. CASE /\ order'[o].version = order[o].version + 1 /\ commands' = commands
               /\ command[u] # NoWork /\ MayWrite(command[u]) /\ (w # NoWork => ~MayWrite(w))
      <3>1. u \in Writers(o) /\ Writers(o)' \subseteq Writers(o) \ {u}
        BY <2>1, <2>2, <2>3, <2>6
      <3>2. IsFiniteSet(Writers(o) \ {u}) /\ Cardinality(Writers(o) \ {u}) = Cardinality(Writers(o)) - 1
        BY <1>2, <3>1, FS_RemoveElement
      <3>3. Cardinality(Writers(o)') <= Cardinality(Writers(o) \ {u}) /\ Cardinality(Writers(o)') \in Nat
        BY <3>1, <3>2, FS_Subset, FS_CardinalityType
      <3> QED
        BY <1>2, <1>3, <2>6, <3>2, <3>3
    <2> QED
      BY <2>4, <2>5, <2>6 DEF Counted
  <1> QED
    BY <1>6, <1>7

LEMMA CommandMoves ==
  ASSUME StoreInv, Lasting, NEW u \in Operators, NEW o \in Orders, NEW w \in WorkRow \cup {NoWork},
         command[u] = NoWork \/ command[u].of = o, w = NoWork \/ w.of = o,
         command' = [command EXCEPT ![u] = w], StoreTypes', Counted(u, o, w),
         \A q \in Orders \ {o} : /\ order'[q] = order[q] /\ told'[q] = told[q] /\ synced'[q] = synced[q]
                                 /\ dispute'[q] = dispute[q] /\ answers'[q] = answers[q],
         Exists(o), answers[o] \subseteq answers'[o], emitted' = emitted,
         dispute'[o] \in Answers => dispute'[o] \in answers'[o] \cup Named(o)',
         w # NoWork => WorkFits(w)',
         flagged \subseteq flagged', raced \subseteq raced', cut \subseteq cut',
         command[u] = NoWork /\ Busy(o) # {} => o \in raced',
         o \notin Spoilt' => IF w = NoWork THEN Follows(o)' ELSE InStep(w)'
  PROVE  StoreInv'
  <1> StoreTypes
    BY DEF StoreInv
  <1>1. command'[u] = w /\ \A v \in Operators \ {u} : command'[v] = command[v]
    BY DEF StoreTypes
  <1>2. \A q \in Orders : answers[q] \subseteq answers'[q]
    OBVIOUS
  <1>3. ASSUME NEW v \in Operators, command'[v] # NoWork
        PROVE  WorkFits(command[v])'
    <2>1. CASE v = u
      BY <1>1, <1>3, <2>1
    <2>2. CASE v # u
      <3>1. PICK x \in WorkRow : x = command[v] /\ WorkFits(x) /\ x.of \in Orders /\ command'[v] = x
        BY <1>1, <1>3, <2>2 DEF StoreTypes, StoreInv, WorkRow
      <3>2. WorkFits(x)'
        BY <1>2, <3>1, FitStays
      <3> QED
        BY <3>1, <3>2
    <2> QED
      BY <2>1, <2>2
  <1>4. \A q \in Orders : /\ dispute'[q] # None => Exists(q)'
                          /\ ~Exists(q)' => told'[q] = None /\ synced'[q] = None
    <2>1. Exists(o)'
      BY DEF Lasting
    <2>2. \A q \in Orders \ {o} : Exists(q)' <=> Exists(q)
      BY DEF Exists
    <2> QED
      BY <2>1, <2>2 DEF StoreInv
  <1>5. \A q \in Orders : Busy(q)' \subseteq Busy(q) \cup (IF q = o /\ w # NoWork THEN {u} ELSE {})
    <2>1. \A q \in Orders : u \in Busy(q)' => q = o /\ w # NoWork
      BY <1>1, NoWorkIsNone, PlatformAssumption DEF Busy
    <2> QED
      BY <1>1, <2>1 DEF Busy
  <1>6. \A v \in Operators \ {u} : \A q \in Orders : v \in Busy(q)' <=> v \in Busy(q)
    BY <1>1 DEF Busy
  <1>7. ASSUME NEW q \in Orders, NEW x \in Operators, NEW y \in Operators, {x, y} \subseteq Busy(q)', x # y
        PROVE  q \in raced'
    <2>1. CASE u \notin {x, y}
      BY <1>6, <1>7, <2>1 DEF StoreInv
    <2>2. CASE u \in {x, y}
      <3>1. u \in Busy(q)'
        BY <1>7, <2>2
      <3>2. q = o
        <4>1. q # o => u \notin Busy(q)'
          BY <1>1, NoWorkIsNone, PlatformAssumption DEF Busy
        <4> QED
          BY <3>1, <4>1
      <3>3. PICK v \in {x, y} : v # u
        BY <1>7, <2>2
      <3>4. v \in Operators \ {u} /\ v \in Busy(q)'
        BY <1>7, <3>3
      <3>5. v # u /\ v \in Busy(o) /\ v \in Operators
        BY <1>6, <3>2, <3>4
      <3>6. CASE command[u] = NoWork
        BY <3>2, <3>5, <3>6
      <3>7. CASE command[u] # NoWork
        <4>1. u \in Busy(o)
          BY <3>7 DEF Busy
        <4>2. o \in raced
          BY <3>5, <4>1 DEF StoreInv
        <4> QED
          BY <3>2, <4>2
      <3> QED
        BY <3>6, <3>7
    <2> QED
      BY <2>1, <2>2
  <1>8. ASSUME NEW q \in Orders, Exists(q)', q \notin Spoilt'
        PROVE  InTouch(q)'
    <2>1. q \notin Spoilt /\ q \notin raced'
      BY <1>8 DEF Spoilt
    <2>2. CASE q # o
      <3>1. Exists(q) /\ InTouch(q)
        BY <1>8, <2>1, <2>2 DEF Exists, StoreInv
      <3>2. Busy(q)' = Busy(q)
        <4>1. u \notin Busy(q) /\ u \notin Busy(q)'
          BY <1>1, <2>2, NoWorkIsNone, PlatformAssumption DEF Busy
        <4> QED
          BY <1>6, <4>1 DEF Busy
      <3>3. Follows(q)' <=> Follows(q)
        BY <2>2 DEF Follows
      <3>4. ASSUME NEW v \in Busy(q), InStep(command[v])
            PROVE  InStep(command[v])'
        <4>1. PICK x \in WorkRow : x = command[v] /\ x.of = q /\ v \in Operators
          BY BusyWork DEF Busy
        <4>2. command'[v] = command[v]
          BY <1>1, <2>2, <4>1, NoWorkIsNone
        <4>3. InStep(x)' <=> InStep(x)
          BY <2>2, <4>1, SameStep
        <4> QED
          BY <3>4, <4>1, <4>2, <4>3
      <3> QED
        BY <3>1, <3>2, <3>3, <3>4 DEF InTouch
    <2>3. CASE q = o
      <3>1. \A v \in Busy(o)' : v = u
        <4>1. ASSUME NEW v \in Busy(o)', v # u
              PROVE  FALSE
          <5>1. v \in Operators /\ v \in Busy(o)
            BY <1>6, <4>1 DEF Busy
          <5>2. CASE command[u] = NoWork
            BY <2>1, <2>3, <5>1, <5>2
          <5>3. CASE command[u] # NoWork
            <6>1. u \in Busy(o)
              BY <5>3 DEF Busy
            <6>2. o \in raced
              BY <4>1, <5>1, <6>1 DEF StoreInv
            <6> QED
              BY <2>1, <2>3, <6>2
          <5> QED
            BY <5>2, <5>3
        <4> QED
          BY <4>1
      <3>2. CASE w = NoWork
        <4>1. Busy(o)' = {}
          BY <1>5, <3>1, <3>2, NoWorkIsNone, PlatformAssumption, <1>1 DEF Busy
        <4>2. Follows(o)'
          BY <1>8, <2>3, <3>2
        <4> QED
          BY <2>3, <4>1, <4>2 DEF InTouch
      <3>3. CASE w # NoWork
        <4>1. InStep(w)'
          BY <1>8, <2>3, <3>3
        <4>2. Busy(o)' # {} /\ \A v \in Busy(o)' : command'[v] = w
          BY <1>1, <3>1, <3>3 DEF Busy
        <4>3. \A v \in Busy(o)' : InStep(command[v])'
          BY <4>1, <4>2
        <4> QED
          BY <2>3, <4>2, <4>3 DEF InTouch
      <3> QED
        BY <3>2, <3>3
    <2> QED
      BY <2>2, <2>3
  <1>9. \A q \in Orders : order'[q].version + Cardinality(Writers(q)') <= commands'
    BY WritersCounted
  <1>10. AnswerGiven'
    BY NamedStays DEF StoreInv, AnswerGiven
  <1> QED
    BY <1>3, <1>4, <1>7, <1>8, <1>9, <1>10 DEF StoreInv

LEMMA AtWork ==
  ASSUME StoreInv, NEW u \in Operators, command[u].at # "idle" \/ command[u] # NoWork
  PROVE  \E w \in WorkRow : /\ w = command[u] /\ w # NoWork /\ WorkFits(w)
                            /\ w.of \in Orders /\ Exists(w.of)
                            /\ w.of \notin Spoilt => InStep(w)
  <1>1. NoWork.at = "idle"
    BY DEF NoWork
  <1>2. PICK w \in WorkRow : w = command[u] /\ w # NoWork
    BY <1>1, NoWorkIsNone DEF StoreInv, StoreTypes
  <1>3. WorkFits(w) /\ w.of \in Orders /\ Exists(w.of)
    BY <1>2 DEF StoreInv, WorkRow, WorkFits
  <1>4. ASSUME w.of \notin Spoilt
        PROVE  InStep(w)
    <2>1. InTouch(w.of) /\ u \in Busy(w.of)
      BY <1>2, <1>3, <1>4 DEF StoreInv, Busy
    <2> QED
      BY <1>2, <2>1 DEF InTouch
  <1> QED
    BY <1>2, <1>3, <1>4

(* A command begins: nothing but the command changes.                         *)
Aside == UNCHANGED <<emitted, unacked, row, poll, unlinked>>

LEMMA BeginKeeps ==
  ASSUME StoreInv, NEW u \in Operators, NEW work \in WorkRow, Begin(u, work), WorkFits(work),
         Follows(work.of) => InStep(work)
  PROVE  StoreInv' /\ Lasting /\ Aside
  <1> StoreTypes
    BY DEF StoreInv
  <1> PICK o \in Orders : o = work.of
    BY DEF WorkRow
  <1>1. /\ UNCHANGED <<world, emitted, unacked, told, answers, row, order, synced, dispute, poll, faults, flagged, cut, unlinked>>
        /\ command[u] = NoWork /\ commands < world.commands /\ commands' = commands + 1
        /\ command' = [command EXCEPT ![u] = work]
        /\ raced' = IF Busy(o) = {} THEN raced ELSE raced \cup {o}
    BY DEF Begin, Work, provider, orders
  <1>2. Lasting /\ Exists(o)
    BY <1>1 DEF Lasting, WorkFits, Exists
  <1>3. commands' \in 0..world'.commands /\ commands' = commands + 1
    BY <1>1, PlatformAssumption DEF StoreTypes
  <1>4. command' \in [Operators -> WorkRow \cup {NoWork}]
    BY <1>1 DEF StoreTypes
  <1>5. Spoilt' \subseteq Orders /\ raced \subseteq raced'
    BY <1>1 DEF StoreTypes, Spoilt
  <1>6. StoreTypes'
    BY <1>1, <1>3, <1>4, <1>5 DEF StoreTypes
  <1>7. Counted(u, o, work)
    BY <1>1 DEF Counted
  <1>8. WorkFits(work)'
    BY <1>1, <1>2, FitStays
  <1>9. ASSUME o \notin Spoilt'
        PROVE  InStep(work)'
    <2>1. Busy(o) = {} /\ o \notin Spoilt
      BY <1>1, <1>9 DEF Spoilt
    <2>2. Follows(o)
      BY <1>2, <2>1 DEF StoreInv, InTouch
    <2>3. InStep(work)' <=> InStep(work)
      BY <1>1, SameStep
    <2> QED
      BY <2>2, <2>3
  <1>10. work # NoWork
    BY NoWorkIsNone
  <1>11. \A q \in Orders \ {o} : /\ order'[q] = order[q] /\ told'[q] = told[q] /\ synced'[q] = synced[q]
                                 /\ dispute'[q] = dispute[q] /\ answers'[q] = answers[q]
    BY <1>1
  <1>12. answers[o] \subseteq answers'[o] /\ (dispute'[o] \in Answers => dispute'[o] \in answers'[o] \cup Named(o)')
    BY <1>1, NamedStays DEF StoreInv, AnswerGiven
  <1>13. command[u] = NoWork /\ Busy(o) # {} => o \in raced'
    BY <1>1
  <1>14. StoreInv'
    BY <1>1, <1>2, <1>5, <1>6, <1>7, <1>8, <1>9, <1>10, <1>11, <1>12, <1>13, CommandMoves
  <1> QED
    BY <1>1, <1>2, <1>14 DEF Aside

LEMMA DecideKeeps ==
  ASSUME StoreInv, NEW u \in Operators, NEW o \in Orders, Decide(u, o)
  PROVE  StoreInv' /\ Lasting /\ Aside
  <1>1. PICK kind \in {"CONFIRM", "REFUSE"} :
          Begin(u, [NoWork EXCEPT !.at = "calling", !.kind = "decide", !.of = o,
                     !.to = IF kind = "CONFIRM" THEN "PREPARING" ELSE "CANCELLED",
                     !.action = IF kind = "CONFIRM" THEN "CONFIRM" ELSE "REQUEST_CANCELLATION"])
    BY DEF Decide
  <1>2. PICK work : work = [NoWork EXCEPT !.at = "calling", !.kind = "decide", !.of = o,
                     !.to = IF kind = "CONFIRM" THEN "PREPARING" ELSE "CANCELLED",
                     !.action = IF kind = "CONFIRM" THEN "CONFIRM" ELSE "REQUEST_CANCELLATION"]
    OBVIOUS
  <1>3. /\ work.at = "calling" /\ work.kind = "decide" /\ work.of = o /\ work.versioned = FALSE
        /\ \/ work.to = "PREPARING" /\ work.action = "CONFIRM"
           \/ work.to = "CANCELLED" /\ work.action = "REQUEST_CANCELLATION"
    BY <1>2 DEF NoWork
  <1>4. work \in WorkRow
    BY <1>2 DEF NoWork, NoOrder, WorkRow, OrderRow, Statuses, Advances, Actions
  <1>5. order[o].status = "PENDING" /\ Exists(o)
    BY PlatformAssumption DEF Decide, Exists
  <1>6. WorkFits(work)
    BY <1>3, <1>5 DEF WorkFits
  <1>7. Follows(work.of) => InStep(work)
    BY <1>3, <1>5 DEF InStep
  <1>8. Begin(u, work)
    BY <1>1, <1>2
  <1> QED
    BY <1>4, <1>6, <1>7, <1>8, BeginKeeps

LEMMA AdvanceKeeps ==
  ASSUME StoreInv, NEW u \in Operators, NEW o \in Orders, NEW status \in Advances, NEW versioned \in BOOLEAN,
         Advance(u, o, status, versioned)
  PROVE  StoreInv' /\ Lasting /\ Aside
  <1>1. PICK work : work = [NoWork EXCEPT !.at = "reading", !.kind = "status", !.of = o, !.to = status, !.versioned = versioned]
    OBVIOUS
  <1>2. work.at = "reading" /\ work.kind = "status" /\ work.of = o /\ work.to = status
    BY <1>1 DEF NoWork
  <1>3. work \in WorkRow
    BY <1>1 DEF NoWork, NoOrder, WorkRow, OrderRow, Statuses, Actions
  <1>4. Exists(o) /\ Begin(u, work)
    BY <1>1 DEF Advance
  <1>5. WorkFits(work)
    BY <1>2, <1>4 DEF WorkFits
  <1>6. Follows(work.of) => InStep(work)
    BY <1>2 DEF InStep
  <1> QED
    BY <1>3, <1>4, <1>5, <1>6, BeginKeeps

LEMMA RespondKeeps ==
  ASSUME StoreInv, NEW u \in Operators, NEW o \in Orders, NEW answer \in Answers, Respond(u, o, answer)
  PROVE  StoreInv' /\ Lasting /\ Aside
  <1>1. PICK work : work = [NoWork EXCEPT !.at = "calling", !.kind = "dispute", !.of = o, !.to = answer, !.action = "RESPOND_DISPUTE"]
    OBVIOUS
  <1>2. work.at = "calling" /\ work.kind = "dispute" /\ work.of = o /\ work.to = answer
    BY <1>1 DEF NoWork
  <1>3. work \in WorkRow
    BY <1>1 DEF NoWork, NoOrder, WorkRow, OrderRow, Statuses, Actions
  <1>4. dispute[o] # None /\ Exists(o) /\ Begin(u, work)
    BY <1>1 DEF Respond, StoreInv
  <1>5. WorkFits(work)
    BY <1>2, <1>4 DEF WorkFits
  <1>6. Follows(work.of) => InStep(work)
    BY <1>2 DEF InStep
  <1> QED
    BY <1>3, <1>4, <1>5, <1>6, BeginKeeps

LEMMA FaultCounted ==
  ASSUME StoreTypes, Fault
  PROVE  faults' \in 0..world.faults
  BY PlatformAssumption DEF StoreTypes, Fault

(* A command goes on, or ends, and nothing else changes.                      *)
LEMMA CommandGoes ==
  ASSUME StoreInv, NEW u \in Operators, NEW old \in WorkRow, old = command[u], NEW w \in WorkRow \cup {NoWork},
         w = NoWork \/ w.of = old.of, command' = [command EXCEPT ![u] = w],
         UNCHANGED <<world, emitted, told, answers, order, synced, dispute, commands, raced>>,
         faults' \in 0..world.faults, flagged \subseteq flagged', cut \subseteq cut', flagged' \cup cut' \subseteq Orders,
         w # NoWork => WorkFits(w), w # NoWork /\ MayWrite(w) => MayWrite(old),
         old.of \notin Spoilt' => IF w = NoWork THEN Follows(old.of) ELSE InStep(w)
  PROVE  StoreInv' /\ Lasting
  <1> StoreTypes
    BY DEF StoreInv
  <1>1. PICK o \in Orders : o = old.of
    BY DEF WorkRow
  <1>2. old # NoWork /\ command[u] # NoWork
    BY NoWorkIsNone
  <1>3. Lasting /\ Exists(o)
    BY <1>1, <1>2 DEF Lasting, Exists, StoreInv, WorkFits
  <1>4. command' \in [Operators -> WorkRow \cup {NoWork}]
    BY DEF StoreTypes
  <1>5. Spoilt' \subseteq Orders
    BY DEF StoreTypes, Spoilt
  <1>6. StoreTypes'
    BY <1>4, <1>5 DEF StoreTypes
  <1>7. Counted(u, o, w)
    BY <1>2 DEF Counted
  <1>8. w # NoWork => WorkFits(w)'
    BY <1>3, FitStays
  <1>9. o \notin Spoilt' => IF w = NoWork THEN Follows(o)' ELSE InStep(w)'
    <2>1. w # NoWork => (InStep(w)' <=> InStep(w))
      <3>1. w # NoWork => w \in WorkRow /\ w.of = o
        BY <1>1
      <3> QED
        BY <1>1, <3>1, SameStep
    <2>2. Follows(o)' <=> Follows(o)
      BY DEF Follows
    <2> QED
      BY <1>1, <2>1, <2>2
  <1>10. answers[o] \subseteq answers'[o] /\ (dispute'[o] \in Answers => dispute'[o] \in answers'[o] \cup Named(o)')
    BY NamedStays DEF StoreInv, AnswerGiven
  <1>11. command[u].of = o /\ (w = NoWork \/ w.of = o)
    BY <1>1
  <1>12. \A q \in Orders \ {o} : /\ order'[q] = order[q] /\ told'[q] = told[q] /\ synced'[q] = synced[q]
                                 /\ dispute'[q] = dispute[q] /\ answers'[q] = answers[q]
    OBVIOUS
  <1>13. raced \subseteq raced' /\ (command[u] = NoWork /\ Busy(o) # {} => o \in raced')
    BY <1>2
  <1>14. StoreInv'
    BY <1>3, <1>6, <1>7, <1>8, <1>9, <1>10, <1>11, <1>12, <1>13, CommandMoves
  <1> QED
    BY <1>3, <1>14

LEMMA ReadOrderKeeps ==
  ASSUME StoreInv, NEW u \in Operators, ReadOrder(u)
  PROVE  StoreInv' /\ Lasting /\ Aside
  <1> StoreTypes
    BY DEF StoreInv
  <1>1. /\ command[u].at = "reading" /\ Aside
        /\ UNCHANGED <<world, emitted, told, answers, order, synced, dispute, commands, faults, flagged, raced, cut>>
    BY DEF ReadOrder, Work, provider, orders, Aside
  <1>2. PICK old \in WorkRow : /\ old = command[u] /\ old # NoWork /\ WorkFits(old) /\ old.of \in Orders /\ Exists(old.of)
                               /\ old.of \notin Spoilt => InStep(old)
    BY <1>1, AtWork
  <1>3. PICK o \in Orders : o = old.of
    BY <1>2
  <1>4. old.at = "reading" /\ old.kind \in {"decide", "status"}
    BY <1>1, <1>2 DEF WorkFits, WorkRow
  <1>5. faults' \in 0..world.faults /\ flagged' \cup cut' \subseteq Orders /\ flagged \subseteq flagged' /\ cut \subseteq cut'
        /\ Spoilt' = Spoilt
    BY <1>1 DEF StoreTypes, Spoilt
  <1>6. CASE old.to \in Transitions(order[o].status)
    <2>1. PICK w : w = [old EXCEPT !.at = "writing", !.seen = order[o], !.sync = synced[o]]
      OBVIOUS
    <2>2. /\ w.at = "writing" /\ w.kind = old.kind /\ w.of = o /\ w.to = old.to /\ w.action = old.action
          /\ w.versioned = old.versioned /\ w.sync = synced[o]
      BY <1>3, <2>1 DEF WorkRow
    <2>3. w \in WorkRow
      BY <2>1 DEF WorkRow, StoreTypes
    <2>4. command' = [command EXCEPT ![u] = w]
      BY <1>2, <1>3, <1>6, <2>1 DEF ReadOrder, Work
    <2>5. WorkFits(w)
      BY <1>2, <1>3, <1>4, <2>2 DEF WorkFits
    <2>6. o \notin Spoilt => InStep(w)
      BY <1>2, <1>3, <1>4, <1>6, <2>2 DEF InStep
    <2>7. MayWrite(old)
      BY <1>4 DEF MayWrite
    <2>8. w # NoWork
      BY <2>3, NoWorkIsNone
    <2>9. StoreInv' /\ Lasting
      BY <1>1, <1>2, <1>3, <1>5, <2>2, <2>3, <2>4, <2>5, <2>6, <2>7, <2>8, CommandGoes
    <2> QED
      BY <1>1, <2>9
  <1>7. CASE old.to \notin Transitions(order[o].status)
    <2>1. command' = [command EXCEPT ![u] = NoWork]
      BY <1>2, <1>3, <1>7 DEF ReadOrder, Work, Done
    <2>2. o \notin Spoilt => Follows(o)
      <3>1. CASE old.kind = "decide"
        <4>1. old.to \in {"PREPARING", "CANCELLED"}
          BY <1>2, <3>1 DEF WorkFits
        <4>2. Transitions("PENDING") = {"PREPARING", "CANCELLED"}
          BY DEF Transitions
        <4>3. o \notin Spoilt => order[o].status = "PENDING"
          BY <1>2, <1>3, <1>4, <3>1 DEF InStep
        <4> QED
          BY <1>7, <4>1, <4>2, <4>3
      <3>2. CASE old.kind = "status"
        BY <1>2, <1>3, <3>2 DEF InStep
      <3> QED
        BY <1>4, <3>1, <3>2
    <2>3. StoreInv' /\ Lasting
      BY <1>1, <1>2, <1>3, <1>5, <2>1, <2>2, CommandGoes
    <2> QED
      BY <1>1, <2>3
  <1> QED
    BY <1>6, <1>7

LEMMA FlagKeeps ==
  ASSUME StoreInv, NEW u \in Operators, Flag(u)
  PROVE  StoreInv' /\ Lasting /\ Aside
  <1> StoreTypes
    BY DEF StoreInv
  <1>1. /\ command[u].at = "flagging" /\ Aside /\ command' = [command EXCEPT ![u] = NoWork]
        /\ flagged' = flagged \cup {command[u].of}
        /\ UNCHANGED <<world, emitted, told, answers, order, synced, dispute, commands, faults, raced, cut>>
    BY DEF Flag, Work, Done, provider, orders, Aside
  <1>2. PICK old \in WorkRow : old = command[u] /\ old.of \in Orders
    BY <1>1, AtWork
  <1>3. faults' \in 0..world.faults /\ flagged' \cup cut' \subseteq Orders /\ flagged \subseteq flagged' /\ cut \subseteq cut'
        /\ old.of \in Spoilt'
    BY <1>1, <1>2 DEF StoreTypes, Spoilt
  <1>4. StoreInv' /\ Lasting
    BY <1>1, <1>2, <1>3, CommandGoes
  <1> QED
    BY <1>1, <1>4

LEMMA CommandCutKeeps ==
  ASSUME StoreInv, NEW u \in Operators, CommandCut(u)
  PROVE  StoreInv' /\ Lasting /\ Aside
  <1> StoreTypes
    BY DEF StoreInv
  <1>1. /\ command[u] # NoWork /\ Aside /\ command' = [command EXCEPT ![u] = NoWork] /\ Fault
        /\ cut' = cut \cup {command[u].of}
        /\ UNCHANGED <<world, emitted, told, answers, order, synced, dispute, commands, flagged, raced>>
    BY DEF CommandCut, Work, Done, provider, orders, Aside
  <1>2. PICK old \in WorkRow : old = command[u] /\ old.of \in Orders
    BY <1>1, AtWork
  <1>3. flagged' \cup cut' \subseteq Orders /\ flagged \subseteq flagged' /\ cut \subseteq cut' /\ old.of \in Spoilt'
    BY <1>1, <1>2 DEF StoreTypes, Spoilt
  <1>4. faults' \in 0..world.faults
    BY <1>1, FaultCounted
  <1>5. StoreInv' /\ Lasting
    BY <1>1, <1>2, <1>3, <1>4, CommandGoes
  <1> QED
    BY <1>1, <1>5

LEMMA CallFailsKeeps ==
  ASSUME StoreInv, NEW u \in Operators, CallFails(u)
  PROVE  StoreInv' /\ Lasting /\ Aside
  <1> StoreTypes
    BY DEF StoreInv
  <1>1. /\ command[u].at \in {"calling", "recording"} /\ Aside /\ Fault
        /\ command' = [command EXCEPT ![u].at = "flagging"]
        /\ UNCHANGED <<world, emitted, told, answers, order, synced, dispute, commands, flagged, raced, cut>>
    BY DEF CallFails, Work, Does, provider, orders, Aside
  <1>2. PICK old \in WorkRow : /\ old = command[u] /\ old # NoWork /\ WorkFits(old) /\ old.of \in Orders /\ Exists(old.of)
                               /\ old.of \notin Spoilt => InStep(old)
    BY <1>1, AtWork
  <1>3. PICK w : w = [old EXCEPT !.at = "flagging"]
    OBVIOUS
  <1>4. w.at = "flagging" /\ w.kind = old.kind /\ w.of = old.of /\ w.to = old.to /\ w.action = old.action /\ w.versioned = old.versioned
    BY <1>3 DEF WorkRow
  <1>5. w \in WorkRow /\ w # NoWork
    <2>1. w \in WorkRow
      BY <1>3 DEF WorkRow
    <2> QED
      BY <2>1, NoWorkIsNone
  <1>6. command' = [command EXCEPT ![u] = w]
    BY <1>1, <1>2, <1>3
  <1>7. old.kind # "status"
    BY <1>1, <1>2 DEF WorkFits
  <1>8. WorkFits(w)
    BY <1>2, <1>4, <1>7 DEF WorkFits
  <1>9. old.of \notin Spoilt => InStep(w)
    BY <1>2, <1>4, <1>7 DEF InStep
  <1>10. ~MayWrite(w)
    BY <1>4 DEF MayWrite
  <1>11. faults' \in 0..world.faults
    BY <1>1, FaultCounted
  <1>12. flagged' \cup cut' \subseteq Orders /\ flagged \subseteq flagged' /\ cut \subseteq cut' /\ Spoilt' = Spoilt
    BY <1>1 DEF StoreTypes, Spoilt
  <1>13. old.of \notin Spoilt' => IF w = NoWork THEN Follows(old.of) ELSE InStep(w)
    BY <1>5, <1>9, <1>12
  <1>14. w.of = old.of /\ (w # NoWork => WorkFits(w)) /\ (w # NoWork /\ MayWrite(w) => MayWrite(old))
    BY <1>4, <1>8, <1>10
  <1>15. StoreInv' /\ Lasting
    BY <1>1, <1>2, <1>5, <1>6, <1>11, <1>12, <1>13, <1>14, CommandGoes
  <1> QED
    BY <1>1, <1>15

(* The provider gets the call, whether its answer arrives or not.             *)
LEMMA CallKeeps ==
  ASSUME StoreInv, NEW u \in Operators, Call(u)
  PROVE  StoreInv' /\ Lasting /\ Aside
  <1> StoreTypes
    BY DEF StoreInv
  <1>1. /\ command[u].at = "calling" /\ Aside /\ Reaches(command[u])
        /\ UNCHANGED <<world, emitted, order, synced, dispute, commands, flagged, raced, cut>>
    BY DEF Call, Work, orders, Aside
  <1>2. PICK old \in WorkRow : /\ old = command[u] /\ old # NoWork /\ WorkFits(old) /\ old.of \in Orders /\ Exists(old.of)
                               /\ old.of \notin Spoilt => InStep(old)
    BY <1>1, AtWork
  <1>3. PICK o \in Orders : o = old.of
    BY <1>2
  <1>4. PICK where \in {"recording", "flagging"} : command' = [command EXCEPT ![u].at = where]
    BY DEF Call, Does
  <1>5. faults' \in 0..world.faults
    <2>1. faults' = faults \/ Fault
      BY DEF Call
    <2> QED
      BY <2>1, FaultCounted DEF StoreTypes
  <1>6. PICK w : w = [old EXCEPT !.at = where]
    OBVIOUS
  <1>7. w.at = where /\ w.kind = old.kind /\ w.of = o /\ w.to = old.to /\ w.action = old.action /\ w.versioned = old.versioned
    BY <1>3, <1>6 DEF WorkRow
  <1>8. w \in WorkRow /\ w # NoWork
    <2>1. w \in WorkRow
      BY <1>6 DEF WorkRow
    <2> QED
      BY <2>1, NoWorkIsNone
  <1>9. command' = [command EXCEPT ![u] = w]
    BY <1>2, <1>4, <1>6
  <1>10. old.kind \in {"decide", "sync", "dispute"}
    BY <1>1, <1>2 DEF WorkFits, WorkRow
  <1>11. answers' = IF old.kind = "dispute" THEN [answers EXCEPT ![o] = answers[o] \cup {old.to}] ELSE answers
    BY <1>1, <1>2, <1>3 DEF Reaches
  <1>12. told' = IF old.kind = "dispute" THEN told ELSE [told EXCEPT ![o] = old.action]
    BY <1>1, <1>2, <1>3 DEF Reaches
  <1>13. old.kind = "dispute" => old.to \in Answers
    BY <1>2 DEF WorkFits
  <1>14. old.kind # "dispute" => old.action \in Actions
    BY <1>2, <1>10 DEF WorkFits, Actions, ActionOf
  <1>15. answers' \in [Orders -> SUBSET Answers] /\ told' \in [Orders -> Actions]
    BY <1>11, <1>12, <1>13, <1>14 DEF StoreTypes
  <1>16. command' \in [Operators -> WorkRow \cup {NoWork}]
    BY <1>8, <1>9 DEF StoreTypes
  <1>17. Spoilt' = Spoilt
    BY <1>1 DEF Spoilt
  <1>18. StoreTypes'
    BY <1>1, <1>5, <1>15, <1>16, <1>17 DEF StoreTypes
  <1>19. Lasting
    BY <1>1 DEF Lasting, Exists
  <1>20. answers[o] \subseteq answers'[o]
    BY <1>11 DEF StoreTypes
  <1>21. WorkFits(w)'
    <2>1. Exists(o)'
      BY <1>2, <1>3, <1>19 DEF Lasting
    <2>2. w.kind = "dispute" => w.to \in answers'[o]
      BY <1>7, <1>11 DEF StoreTypes
    <2>3. w.kind = "dispute" => /\ w.at \in {"calling", "recording", "flagging"} /\ w.to \in Answers /\ dispute'[o] # None
      BY <1>1, <1>2, <1>3, <1>7 DEF WorkFits
    <2>4. w.kind = "decide"  => /\ ~w.versioned
                                /\ \/ w.to = "PREPARING" /\ w.action = "CONFIRM"
                                   \/ w.to = "CANCELLED" /\ w.action = "REQUEST_CANCELLATION"
      BY <1>2, <1>7 DEF WorkFits
    <2>5. w.kind = "sync"    => /\ w.at \in {"calling", "recording", "flagging"}
                                /\ w.to \in {"SHIPPED", "DELIVERED", "CANCELLED"} /\ w.action = ActionOf(w.to)
      BY <1>2, <1>7 DEF WorkFits
    <2>6. w.kind # "status"
      BY <1>7, <1>10
    <2> QED
      BY <1>7, <2>1, <2>2, <2>3, <2>4, <2>5, <2>6 DEF WorkFits
  <1>22. ASSUME o \notin Spoilt'
         PROVE  InStep(w)'
    <2>1. InStep(old)
      BY <1>2, <1>3, <1>17, <1>22
    <2>2. CASE old.kind = "dispute"
      <3>1. Follows(o)
        BY <1>3, <2>1, <2>2 DEF InStep
      <3>2. told' = told /\ order' = order /\ synced' = synced
        BY <1>1, <1>12, <2>2
      <3>3. Follows(o)'
        BY <3>1, <3>2 DEF Follows
      <3> QED
        BY <1>7, <2>2, <3>3 DEF InStep
    <2>3. CASE old.kind # "dispute"
      <3>1. told'[o] = w.action
        BY <1>7, <1>12, <2>3 DEF StoreTypes
      <3>2. old.kind = "decide" => order'[o].status = "PENDING"
        BY <1>1, <1>2, <1>3, <2>1 DEF InStep
      <3>3. old.kind = "sync" => order'[o].status = w.to
        BY <1>1, <1>2, <1>3, <1>7, <2>1 DEF InStep
      <3> QED
        BY <1>7, <1>10, <2>3, <3>1, <3>2, <3>3 DEF InStep
    <2> QED
      BY <2>2, <2>3
  <1>23. Counted(u, o, w)
    <2>1. MayWrite(w) => MayWrite(command[u])
      BY <1>1, <1>2, <1>7 DEF MayWrite
    <2> QED
      BY <1>1, <1>2, <2>1 DEF Counted
  <1>24. \A q \in Orders \ {o} : /\ order'[q] = order[q] /\ told'[q] = told[q] /\ synced'[q] = synced[q]
                                 /\ dispute'[q] = dispute[q] /\ answers'[q] = answers[q]
    BY <1>1, <1>11, <1>12 DEF StoreTypes
  <1>25. dispute'[o] \in Answers => dispute'[o] \in answers'[o] \cup Named(o)'
    BY <1>1, <1>20, NamedStays DEF StoreInv, AnswerGiven
  <1>26. command[u].of = o /\ w.of = o /\ Exists(o) /\ command[u] # NoWork
    BY <1>2, <1>3, <1>7
  <1>27. StoreInv'
    BY <1>1, <1>8, <1>9, <1>18, <1>19, <1>20, <1>21, <1>22, <1>23, <1>24, <1>25, <1>26, CommandMoves
  <1> QED
    BY <1>1, <1>19, <1>27

LEMMA RecordCallKeeps ==
  ASSUME StoreInv, NEW u \in Operators, RecordCall(u)
  PROVE  StoreInv' /\ Lasting /\ Aside
  <1> StoreTypes
    BY DEF StoreInv
  <1>1. /\ command[u].at = "recording" /\ Aside
        /\ UNCHANGED <<world, emitted, told, answers, order, commands, faults, flagged, raced, cut>>
    BY DEF RecordCall, Work, provider, Aside
  <1>2. PICK old \in WorkRow : /\ old = command[u] /\ old # NoWork /\ WorkFits(old) /\ old.of \in Orders /\ Exists(old.of)
                               /\ old.of \notin Spoilt => InStep(old)
    BY <1>1, AtWork
  <1>3. PICK o \in Orders : o = old.of
    BY <1>2
  <1>4. old.kind \in {"decide", "sync", "dispute"}
    BY <1>1, <1>2 DEF WorkFits, WorkRow
  <1>5. dispute' = IF old.kind = "dispute" THEN [dispute EXCEPT ![o] = old.to] ELSE dispute
    BY <1>2, <1>3 DEF RecordCall, Work, Outcome
  <1>6. synced' = IF old.kind = "dispute" THEN synced ELSE [synced EXCEPT ![o] = old.to]
    BY <1>2, <1>3 DEF RecordCall, Work, Outcome
  <1>7. PICK w : w = IF old.kind = "decide" THEN [old EXCEPT !.at = "reading"] ELSE NoWork
    OBVIOUS
  <1>8. command' = [command EXCEPT ![u] = w]
    BY <1>2, <1>7 DEF RecordCall, Work, Does, Done
  <1>9. old.kind = "decide" => /\ w.at = "reading" /\ w.kind = "decide" /\ w.of = o /\ w.to = old.to
                               /\ w.action = old.action /\ w.versioned = old.versioned
    BY <1>3, <1>7 DEF WorkRow
  <1>10. w \in WorkRow \cup {NoWork} /\ (w # NoWork <=> old.kind = "decide")
    <2>1. old.kind = "decide" => w \in WorkRow
      BY <1>7 DEF WorkRow
    <2> QED
      BY <1>7, <2>1, NoWorkIsNone
  <1>11. old.kind = "dispute" => old.to \in Answers /\ old.to \in answers[o]
    BY <1>1, <1>2, <1>3 DEF WorkFits
  <1>12. old.kind # "dispute" => old.to \in Advances
    BY <1>2, <1>4 DEF WorkFits, Advances
  <1>13. dispute' \in [Orders -> {None, "PENDING"} \cup Answers] /\ synced' \in [Orders -> Statuses]
    <2>1. Advances \subseteq Statuses
      BY DEF Advances, Statuses
    <2> QED
      BY <1>5, <1>6, <1>11, <1>12, <2>1 DEF StoreTypes
  <1>14. command' \in [Operators -> WorkRow \cup {NoWork}]
    BY <1>8, <1>10 DEF StoreTypes
  <1>15. Spoilt' = Spoilt
    BY <1>1 DEF Spoilt
  <1>16. StoreTypes'
    BY <1>1, <1>13, <1>14, <1>15 DEF StoreTypes
  <1>17. Lasting
    <2>1. None \notin Answers
      BY PlatformAssumption DEF Answers
    <2> QED
      BY <1>1, <1>5, <1>11, <2>1 DEF Lasting, Exists, StoreTypes
  <1>18. w # NoWork => WorkFits(w)'
    <2>1. Exists(o)'
      BY <1>2, <1>3, <1>17 DEF Lasting
    <2> QED
      BY <1>2, <1>9, <1>10, <2>1 DEF WorkFits
  <1>19. ASSUME o \notin Spoilt'
         PROVE  IF w = NoWork THEN Follows(o)' ELSE InStep(w)'
    <2>1. InStep(old)
      BY <1>2, <1>3, <1>15, <1>19
    <2>2. CASE old.kind = "dispute"
      <3>1. Follows(o)
        BY <1>3, <2>1, <2>2 DEF InStep
      <3>2. synced' = synced
        BY <1>6, <2>2
      <3>3. Follows(o)'
        BY <1>1, <3>1, <3>2 DEF Follows
      <3> QED
        BY <1>10, <2>2, <3>3
    <2>3. CASE old.kind = "sync"
      <3>1. order[o].status = old.to /\ told[o] = old.action
        BY <1>1, <1>2, <1>3, <2>1, <2>3 DEF InStep
      <3>2. old.to \in {"SHIPPED", "DELIVERED", "CANCELLED"} /\ old.action = ActionOf(old.to)
        BY <1>2, <2>3 DEF WorkFits
      <3>3. synced'[o] = old.to
        BY <1>6, <2>3 DEF StoreTypes
      <3>4. old.to \in Reflected(old.action)
        BY <3>2, PlatformAssumption DEF ActionOf, Reflected
      <3>5. Follows(o)'
        BY <1>1, <3>1, <3>3, <3>4 DEF Follows
      <3> QED
        BY <1>10, <2>3, <3>5
    <2>4. CASE old.kind = "decide"
      <3>1. order[o].status = "PENDING" /\ told[o] = old.action
        BY <1>1, <1>2, <1>3, <2>1, <2>4 DEF InStep
      <3>2. synced'[o] = old.to
        BY <1>6, <2>4 DEF StoreTypes
      <3>3. InStep(w)'
        BY <1>1, <1>9, <2>4, <3>1, <3>2 DEF InStep
      <3> QED
        BY <1>10, <2>4, <3>3
    <2> QED
      BY <1>4, <2>2, <2>3, <2>4
  <1>20. Counted(u, o, w)
    <2>1. w # NoWork => MayWrite(command[u])
      BY <1>1, <1>2, <1>10 DEF MayWrite
    <2> QED
      BY <1>1, <1>2, <2>1 DEF Counted
  <1>21. \A q \in Orders \ {o} : /\ order'[q] = order[q] /\ told'[q] = told[q] /\ synced'[q] = synced[q]
                                 /\ dispute'[q] = dispute[q] /\ answers'[q] = answers[q]
    BY <1>1, <1>5, <1>6 DEF StoreTypes
  <1>22. dispute'[o] \in Answers => dispute'[o] \in answers'[o] \cup Named(o)'
    BY <1>1, <1>5, <1>11, NamedStays DEF StoreInv, AnswerGiven, StoreTypes
  <1>23. command[u].of = o /\ (w = NoWork \/ w.of = o) /\ Exists(o) /\ command[u] # NoWork /\ answers[o] \subseteq answers'[o]
    BY <1>1, <1>2, <1>3, <1>9, <1>10
  <1>24. StoreInv'
    BY <1>1, <1>8, <1>10, <1>16, <1>17, <1>18, <1>19, <1>20, <1>21, <1>22, <1>23, CommandMoves
  <1> QED
    BY <1>1, <1>17, <1>24

(* What a written order shows the provider: it was told before, is to be told *)
(* by the call that follows, or has nothing to be told.                       *)
LEMMA WrittenFollows ==
  ASSUME StoreTypes, NEW old \in WorkRow, NEW o \in Orders, o = old.of, old.at = "writing", old.kind \in {"decide", "status"},
         WorkFits(old), InStep(old), ~NeedsCall(old), told' = told, synced' = synced, order'[o].status = old.to
  PROVE  Follows(o)'
  <1>1. CASE old.kind = "decide"
    <2>1. told[o] = old.action /\ synced[o] = old.to
      BY <1>1 DEF InStep
    <2>2. old.to \in Reflected(old.action)
      BY <1>1, PlatformAssumption DEF WorkFits, Reflected
    <2> QED
      BY <2>1, <2>2 DEF Follows
  <1>2. CASE old.kind = "status"
    <2>1. Follows(o) /\ old.to \in Transitions(order[o].status) /\ old.sync = synced[o] /\ old.to \in Advances
      BY <1>2 DEF InStep, WorkFits
    <2>2. order[o].status \in Statuses /\ told[o] \in Actions
      BY DEF StoreTypes, OrderRow
    <2>3. synced[o] = old.to \/ ActionOf(old.to) = None
      BY <2>1 DEF NeedsCall
    <2>4. old.to \in {"PREPARING", "READY"}
      <3>1. synced[o] = old.to => old.to \notin {"SHIPPED", "DELIVERED", "CANCELLED"}
        <4>1. order[o].status # old.to
          BY <2>1, <2>2, PlatformAssumption DEF Transitions, Statuses
        <4> QED
          BY <2>1, <4>1 DEF Follows
      <3>2. ActionOf(old.to) = None => old.to \notin {"SHIPPED", "DELIVERED", "CANCELLED"}
        BY PlatformAssumption DEF ActionOf
      <3> QED
        BY <2>1, <2>3, <3>1, <3>2 DEF Advances
    <2>5. \/ old.to = "PREPARING" /\ order[o].status = "PENDING"
          \/ old.to = "READY" /\ order[o].status = "PREPARING"
      BY <2>1, <2>2, <2>4, PlatformAssumption DEF Transitions, Statuses
    <2>6. told[o] = None \/ (told[o] = "CONFIRM" /\ old.to = "READY")
      <3>1. order[o].status \in Reflected(told[o])
        BY <2>1 DEF Follows
      <3> QED
        BY <2>2, <2>5, <3>1, PlatformAssumption DEF Reflected, Actions
    <2>7. old.to \in Reflected(told[o])
      BY <2>4, <2>6, PlatformAssumption DEF Reflected
    <2>8. synced[o] \notin {"SHIPPED", "DELIVERED", "CANCELLED"}
      BY <2>1, <2>5 DEF Follows
    <2> QED
      BY <2>7, <2>8 DEF Follows
  <1> QED
    BY <1>1, <1>2

LEMMA WriteStatusKeeps ==
  ASSUME StoreInv, NEW u \in Operators, WriteStatus(u)
  PROVE  StoreInv' /\ Lasting /\ Aside
  <1> StoreTypes
    BY DEF StoreInv
  <1>1. /\ command[u].at = "writing" /\ Aside
        /\ UNCHANGED <<world, emitted, told, answers, synced, dispute, commands, faults, flagged, raced, cut>>
    BY DEF WriteStatus, Work, provider, Aside
  <1>2. PICK old \in WorkRow : /\ old = command[u] /\ old # NoWork /\ WorkFits(old) /\ old.of \in Orders /\ Exists(old.of)
                               /\ old.of \notin Spoilt => InStep(old)
    BY <1>1, AtWork
  <1>3. PICK o \in Orders : o = old.of
    BY <1>2
  <1>4. old.kind \in {"decide", "status"}
    BY <1>1, <1>2 DEF WorkFits, WorkRow
  <1>5. Spoilt' = Spoilt
    BY <1>1 DEF Spoilt
  <1>6. CASE old.versioned /\ order[o].version # old.seen.version
    <2>1. order' = order /\ command' = [command EXCEPT ![u] = NoWork]
      BY <1>2, <1>3, <1>6 DEF WriteStatus, Work, Done
    <2>2. o \notin Spoilt => Follows(o)
      BY <1>2, <1>3, <1>4, <1>6 DEF InStep, WorkFits
    <2>3. faults' \in 0..world.faults /\ flagged' \cup cut' \subseteq Orders /\ flagged \subseteq flagged' /\ cut \subseteq cut'
      BY <1>1 DEF StoreTypes, Spoilt
    <2>4. StoreInv' /\ Lasting
      BY <1>1, <1>2, <1>3, <1>5, <2>1, <2>2, <2>3, CommandGoes
    <2> QED
      BY <1>1, <2>4
  <1>7. CASE ~(old.versioned /\ order[o].version # old.seen.version)
    <2>1. PICK new : new = [status |-> old.to, version |-> order[o].version + 1]
      OBVIOUS
    <2>2. PICK w : w = IF NeedsCall(old) THEN [old EXCEPT !.at = "calling", !.kind = "sync", !.action = ActionOf(old.to)] ELSE NoWork
      OBVIOUS
    <2>3. order' = [order EXCEPT ![o] = new]
      BY <1>2, <1>3, <1>7, <2>1 DEF WriteStatus, Work
    <2>4. command' = [command EXCEPT ![u] = w]
      BY <1>2, <1>3, <1>7, <2>2 DEF WriteStatus, Work, Done
    <2>5. old.to \in Advances
      BY <1>2, <1>4 DEF WorkFits, Advances
    <2>6. new \in OrderRow /\ new.status = old.to /\ new.version = order[o].version + 1
      <3>1. order[o].version \in Nat
        BY DEF StoreTypes, OrderRow
      <3>2. old.to \in Statuses
        BY <2>5 DEF Advances, Statuses
      <3> QED
        BY <2>1, <3>1, <3>2 DEF OrderRow
    <2>7. order'[o] = new /\ \A q \in Orders \ {o} : order'[q] = order[q]
      BY <2>3 DEF StoreTypes
    <2>8. NeedsCall(old) => /\ w.at = "calling" /\ w.kind = "sync" /\ w.of = o /\ w.to = old.to /\ w.action = ActionOf(old.to)
                            /\ w.to \in {"SHIPPED", "DELIVERED", "CANCELLED"} /\ w \in WorkRow
      <3>1. NeedsCall(old) => old.to \in {"SHIPPED", "DELIVERED", "CANCELLED"}
        BY <2>5 DEF NeedsCall, ActionOf, Advances
      <3>2. NeedsCall(old) => ActionOf(old.to) \in Actions
        BY <3>1 DEF ActionOf, Actions
      <3>3. NeedsCall(old) => w = [old EXCEPT !.at = "calling", !.kind = "sync", !.action = ActionOf(old.to)]
        BY <2>2
      <3>4. NeedsCall(old) => w \in WorkRow
        BY <3>2, <3>3 DEF WorkRow
      <3>5. NeedsCall(old) => /\ w.at = "calling" /\ w.kind = "sync" /\ w.of = old.of /\ w.to = old.to /\ w.action = ActionOf(old.to)
        BY <3>3 DEF WorkRow
      <3> QED
        BY <1>3, <3>1, <3>4, <3>5
    <2>9. w \in WorkRow \cup {NoWork} /\ (w # NoWork <=> NeedsCall(old))
      BY <2>2, <2>8, NoWorkIsNone
    <2>10. order' \in [Orders -> OrderRow]
      BY <2>3, <2>6 DEF StoreTypes
    <2>11. command' \in [Operators -> WorkRow \cup {NoWork}]
      BY <2>4, <2>9 DEF StoreTypes
    <2>12. StoreTypes'
      BY <1>1, <1>5, <2>10, <2>11 DEF StoreTypes
    <2>13. Lasting
      <3>1. None \notin Advances
        BY PlatformAssumption DEF Advances
      <3> QED
        BY <1>1, <2>5, <2>6, <2>7, <3>1 DEF Lasting, Exists
    <2>14. w # NoWork => WorkFits(w)'
      <3>1. Exists(o)'
        BY <1>2, <1>3, <2>13 DEF Lasting
      <3> QED
        BY <2>8, <2>9, <3>1 DEF WorkFits
    <2>15. ASSUME o \notin Spoilt'
           PROVE  IF w = NoWork THEN Follows(o)' ELSE InStep(w)'
      <3>1. InStep(old)
        BY <1>2, <1>3, <1>5, <2>15
      <3>2. CASE w = NoWork
        <4>1. ~NeedsCall(old)
          BY <2>9, <3>2
        <4>2. order'[o].status = old.to
          BY <2>6, <2>7
        <4>3. old.at = "writing"
          BY <1>1, <1>2
        <4>4. told' = told /\ synced' = synced
          BY <1>1
        <4>5. Follows(o)'
          BY <1>2, <1>3, <1>4, <3>1, <4>1, <4>2, <4>3, <4>4, WrittenFollows
        <4> QED
          BY <3>2, <4>5
      <3>3. CASE w # NoWork
        <4>1. InStep(w)'
          BY <2>6, <2>7, <2>8, <2>9, <3>3 DEF InStep
        <4> QED
          BY <3>3, <4>1
      <3> QED
        BY <3>2, <3>3
    <2>16. Counted(u, o, w)
      <3>1. MayWrite(command[u]) /\ command[u] # NoWork
        BY <1>1, <1>2, <1>4 DEF MayWrite
      <3>2. w # NoWork => ~MayWrite(w)
        BY <2>8, <2>9 DEF MayWrite
      <3> QED
        BY <1>1, <2>6, <2>7, <3>1, <3>2 DEF Counted
    <2>17. \A q \in Orders \ {o} : /\ order'[q] = order[q] /\ told'[q] = told[q] /\ synced'[q] = synced[q]
                                   /\ dispute'[q] = dispute[q] /\ answers'[q] = answers[q]
      BY <1>1, <2>7
    <2>18. dispute'[o] \in Answers => dispute'[o] \in answers'[o] \cup Named(o)'
      BY <1>1, NamedStays DEF StoreInv, AnswerGiven
    <2>19. command[u].of = o /\ (w = NoWork \/ w.of = o) /\ Exists(o) /\ command[u] # NoWork /\ answers[o] \subseteq answers'[o]
      BY <1>1, <1>2, <1>3, <2>8, <2>9
    <2>20. StoreInv'
      BY <1>1, <2>4, <2>9, <2>12, <2>13, <2>14, <2>15, <2>16, <2>17, <2>18, <2>19, CommandMoves
    <2> QED
      BY <1>1, <2>13, <2>20
  <1> QED
    BY <1>6, <1>7

(* A step of a command leaves the events alone.                               *)
LEMMA DisputesStay ==
  ASSUME DisputesInv, Lasting, unlinked \subseteq unlinked', UNCHANGED disputed
  PROVE  DisputesInv'
  <1>1. UNCHANGED <<summed, strays>>
    BY DEF disputed
  <1>2. ASSUME NEW e \in summed
        PROVE  Kind[e] = "dispute" /\ Trace(e)'
    <2>1. Kind[e] = "dispute" /\ Trace(e) /\ Of[e] \in Orders
      BY PlatformAssumption DEF DisputesInv
    <2> QED
      BY <2>1 DEF Trace, Lasting
  <1> QED
    BY <1>1, <1>2 DEF DisputesInv

LEMMA CommandKeeps ==
  ASSUME PlatformInv, NEW u \in Operators, Start(u) \/ Handle(u) \/ CallFails(u) \/ CommandCut(u)
  PROVE  EventsInv' /\ StoreInv' /\ DisputesInv'
  <1> StoreInv /\ EventsInv /\ DisputesInv
    BY DEF PlatformInv
  <1>1. StoreInv' /\ Lasting /\ Aside
    <2>1. CASE Start(u)
      <3>1. PICK o \in Orders : \/ Decide(u, o)
                                \/ \E answer \in Answers : Respond(u, o, answer)
                                \/ \E status \in Advances, versioned \in BOOLEAN : Advance(u, o, status, versioned)
        BY <2>1 DEF Start, Advances
      <3> QED
        BY <3>1, DecideKeeps, RespondKeeps, AdvanceKeeps
    <2>2. CASE Handle(u)
      BY <2>2, ReadOrderKeeps, WriteStatusKeeps, CallKeeps, RecordCallKeeps, FlagKeeps DEF Handle
    <2>3. CASE CallFails(u)
      BY <2>3, CallFailsKeeps
    <2>4. CASE CommandCut(u)
      BY <2>4, CommandCutKeeps
    <2> QED
      BY <2>1, <2>2, <2>3, <2>4
  <1>2. EventsInv'
    BY <1>1, EventsKeep DEF Aside
  <1>3. UNCHANGED <<unlinked, disputed>>
    BY DEF Start, Decide, Respond, Advance, Begin, Handle, ReadOrder, WriteStatus, Call, RecordCall, Flag, CallFails, CommandCut
  <1>4. DisputesInv'
    BY <1>1, <1>3, DisputesStay DEF Aside
  <1> QED
    BY <1>1, <1>2, <1>4

----------------------------------------------------------------------------
(* Both together.                                                             *)

LEMMA StoreStays ==
  ASSUME StoreInv, emitted \subseteq emitted', UNCHANGED <<world, told, answers, orders, operator>>, faults' = faults \/ Fault
  PROVE  StoreInv'
  <1> StoreTypes
    BY DEF StoreInv
  <1>1. UNCHANGED <<world, told, answers, order, synced, dispute, command, commands, flagged, raced, cut>>
    BY DEF orders, operator
  <1>2. faults' \in 0..world.faults
    BY FaultCounted DEF StoreTypes
  <1>3. Lasting
    BY <1>1, Lasts
  <1>4. order' \in [Orders -> OrderRow] /\ dispute' \in [Orders -> {None, "PENDING"} \cup Answers]
    BY <1>1 DEF StoreTypes
  <1>5. \A o \in Orders : order'[o] = order[o] /\ dispute'[o] = dispute[o]
    BY <1>1
  <1> QED
    BY <1>1, <1>2, <1>3, <1>4, <1>5, StoreKeeps

LEMMA CreateOrderStores ==
  ASSUME PlatformInv, NEW p \in Pollers, CreateOrder(p)
  PROVE  StoreInv'
  <1> StoreInv /\ StoreTypes /\ EventsInv /\ DisputesInv
    BY DEF PlatformInv, StoreInv
  <1>1. UNCHANGED <<world, emitted, told, answers, synced, dispute, command, commands, faults, flagged, raced, cut>>
    BY DEF CreateOrder, provider, operator
  <1>2. Lasting
    BY CreateOrderKeeps
  <1>3. poll[p].event \in Events /\ Of[poll[p].event] \in Orders
    BY PlatformAssumption DEF CreateOrder, EventsInv, EventTypes, PollFits
  <1>4. PICK o \in Orders : o = Of[poll[p].event]
    BY <1>3
  <1>5. CASE Exists(o)
    <2>1. order' = order
      BY <1>4, <1>5 DEF CreateOrder, Event
    <2> QED
      BY <1>1, <2>1, StoreStays DEF orders, operator
  <1>6. CASE ~Exists(o)
    <2>1. order' = [order EXCEPT ![o].status = "PENDING"]
      BY <1>4, <1>6 DEF CreateOrder, Event
    <2>2. /\ order' \in [Orders -> OrderRow]
          /\ order'[o].status = "PENDING" /\ order'[o].version = order[o].version
          /\ \A q \in Orders \ {o} : order'[q] = order[q]
      BY <1>1, <1>6, <2>1, Created
    <2>3. faults' \in 0..world.faults /\ dispute' \in [Orders -> {None, "PENDING"} \cup Answers]
      BY <1>1 DEF StoreTypes
    <2>4. \A q \in Orders : order'[q] = order[q]
                            \/ (~Exists(q) /\ order'[q].status = "PENDING" /\ order'[q].version = order[q].version)
      BY <1>6, <2>2
    <2>5. \A q \in Orders : dispute'[q] = dispute[q] \/ (Exists(q) /\ dispute'[q] \in {"PENDING"} \cup Named(q))
      BY <1>1
    <2> QED
      BY <1>1, <1>2, <2>2, <2>3, <2>4, <2>5, StoreKeeps
  <1> QED
    BY <1>5, <1>6

LEMMA HandleDisputeStores ==
  ASSUME PlatformInv, NEW p \in Pollers, HandleDispute(p)
  PROVE  StoreInv'
  <1> StoreInv /\ StoreTypes /\ EventsInv /\ DisputesInv
    BY DEF PlatformInv, StoreInv
  <1>1. UNCHANGED <<world, emitted, told, answers, order, synced, command, commands, flagged, raced, cut>>
    BY DEF HandleDispute, provider, operator
  <1>2. Lasting
    BY HandleDisputeKeeps
  <1>3. PICK e \in Events : e = poll[p].event /\ e = Event(p) /\ e \in emitted /\ Kind[e] = "dispute"
    BY EventOf DEF HandleDispute, EventsInv, PollFits
  <1>4. PICK o \in Orders : o = Of[e]
    BY PlatformAssumption
  <1>5. Says[e] \in Named(o) /\ Says[e] \in {"PENDING"} \cup Answers
    BY <1>3, <1>4, PlatformAssumption DEF Named, Answers
  <1>6. \/ dispute' = dispute
        \/ Exists(o) /\ \E status \in {"PENDING", Says[e]} : dispute' = [dispute EXCEPT ![o] = status]
    BY <1>3, <1>4 DEF HandleDispute
  <1>7. dispute' \in [Orders -> {None, "PENDING"} \cup Answers]
    BY <1>5, <1>6 DEF StoreTypes
  <1>8. \A q \in Orders : dispute'[q] = dispute[q] \/ (Exists(q) /\ dispute'[q] \in {"PENDING"} \cup Named(q))
    BY <1>5, <1>6 DEF StoreTypes
  <1>9. faults' = faults \/ Fault
    BY DEF HandleDispute
  <1>10. faults' \in 0..world.faults
    BY <1>9, FaultCounted DEF StoreTypes
  <1>11. order' \in [Orders -> OrderRow] /\ \A q \in Orders : order'[q] = order[q]
    BY <1>1 DEF StoreTypes
  <1> QED
    BY <1>1, <1>2, <1>7, <1>8, <1>10, <1>11, StoreKeeps

LEMMA PollKeeps ==
  ASSUME PlatformInv, NEW p \in Pollers, Process(p) \/ Defer(p) \/ PollFails(p)
  PROVE  EventsInv' /\ StoreInv'
  <1> StoreInv /\ StoreTypes /\ EventsInv /\ DisputesInv
    BY DEF PlatformInv, StoreInv
  <1>1. CASE \E e \in Events : Persist(p, e)
    <2>1. PICK e \in Events : Persist(p, e)
      BY <1>1
    <2>2. EventsInv'
      BY <2>1, PersistKeeps
    <2>3. UNCHANGED <<world, emitted, told, answers, orders, operator, faults>>
      BY <2>1 DEF Persist, provider
    <2> QED
      BY <2>2, <2>3, StoreStays DEF PlatformInv
  <1>2. CASE Fetch(p)
    <2>1. UNCHANGED <<world, emitted, told, answers, orders, operator, faults>>
      BY <1>2 DEF Fetch, provider
    <2> QED
      BY <1>2, <2>1, FetchKeeps, StoreStays DEF PlatformInv
  <1>3. CASE MarkProcessing(p)
    <2>1. UNCHANGED <<world, emitted, told, answers, orders, operator, faults>>
      BY <1>3 DEF MarkProcessing, provider
    <2> QED
      BY <1>3, <2>1, MarkProcessingKeeps, StoreStays DEF PlatformInv
  <1>4. CASE Defer(p)
    <2>1. UNCHANGED <<world, emitted, told, answers, orders, operator>> /\ Fault
      BY <1>4 DEF Defer, provider
    <2> QED
      BY <1>4, <2>1, DeferKeeps, StoreStays DEF PlatformInv
  <1>5. CASE FindLink(p)
    <2>1. UNCHANGED <<world, emitted, told, answers, orders, operator, faults>>
      BY <1>5 DEF FindLink, provider
    <2> QED
      BY <1>5, <2>1, FindLinkKeeps, StoreStays DEF PlatformInv
  <1>6. CASE CreateOrder(p)
    BY <1>6, CreateOrderKeeps, CreateOrderStores DEF PlatformInv
  <1>7. CASE HandleDispute(p)
    BY <1>7, HandleDisputeKeeps, HandleDisputeStores DEF PlatformInv
  <1>8. CASE HandleResult(p)
    <2>1. UNCHANGED <<world, emitted, told, answers, orders, operator, faults>>
      BY <1>8 DEF HandleResult, provider
    <2> QED
      BY <1>8, <2>1, HandleResultKeeps, StoreStays DEF PlatformInv
  <1>9. CASE MarkAckPending(p)
    <2>1. UNCHANGED <<world, emitted, told, answers, orders, operator, faults>>
      BY <1>9 DEF MarkAckPending, provider
    <2> QED
      BY <1>9, <2>1, MarkAckPendingKeeps, StoreStays DEF PlatformInv
  <1>10. CASE Acknowledge(p)
    <2>1. UNCHANGED <<world, emitted, told, answers, orders, operator>> /\ (faults' = faults \/ Fault)
      BY <1>10 DEF Acknowledge
    <2> QED
      BY <1>10, <2>1, AcknowledgeKeeps, StoreStays DEF PlatformInv
  <1>11. CASE MarkAcked(p)
    <2>1. UNCHANGED <<world, emitted, told, answers, orders, operator, faults>>
      BY <1>11 DEF MarkAcked, provider
    <2> QED
      BY <1>11, <2>1, MarkAckedKeeps, StoreStays DEF PlatformInv
  <1>12. CASE FinishPoll(p)
    <2>1. UNCHANGED <<world, emitted, told, answers, orders, operator, faults>>
      BY <1>12 DEF FinishPoll, provider
    <2> QED
      BY <1>12, <2>1, StopKeeps, StoreStays DEF PlatformInv
  <1>13. CASE PollFails(p)
    <2>1. UNCHANGED <<world, emitted, told, answers, orders, operator>> /\ Fault
      BY <1>13 DEF PollFails, provider
    <2> QED
      BY <1>13, <2>1, StopKeeps, StoreStays DEF PlatformInv
  <1> QED
    BY <1>1, <1>2, <1>3, <1>4, <1>5, <1>6, <1>7, <1>8, <1>9, <1>10, <1>11, <1>12, <1>13 DEF Process

LEMMA PollDisputes ==
  ASSUME PlatformInv, NEW p \in Pollers, Process(p) \/ Defer(p) \/ PollFails(p)
  PROVE  DisputesInv'
  <1> StoreInv /\ StoreTypes /\ EventsInv /\ DisputesInv
    BY DEF PlatformInv, StoreInv
  <1>1. CASE HandleDispute(p)
    BY <1>1, HandleDisputeKeeps
  <1>2. CASE CreateOrder(p)
    <2>1. UNCHANGED <<dispute, unlinked, disputed>>
      BY <1>2 DEF CreateOrder
    <2> QED
      BY <1>2, <2>1, CreateOrderKeeps, DisputesStay
  <1>3. CASE HandleResult(p)
    <2>1. UNCHANGED <<orders, disputed>> /\ unlinked \subseteq unlinked'
      BY <1>3 DEF HandleResult
    <2> QED
      BY <2>1, Lasts, DisputesStay DEF orders
  <1>4. CASE (\E e \in Events : Persist(p, e)) \/ Fetch(p) \/ MarkProcessing(p) \/ FindLink(p) \/ Defer(p) \/ PollFails(p)
    <2>1. UNCHANGED <<orders, unlinked, disputed>>
      BY <1>4 DEF Persist, Fetch, MarkProcessing, FindLink, Defer, PollFails
    <2> QED
      BY <2>1, Lasts, DisputesStay DEF orders
  <1>5. CASE MarkAckPending(p) \/ Acknowledge(p) \/ MarkAcked(p) \/ FinishPoll(p)
    <2>1. UNCHANGED <<orders, unlinked, disputed>>
      BY <1>5 DEF MarkAckPending, Acknowledge, MarkAcked, FinishPoll
    <2> QED
      BY <2>1, Lasts, DisputesStay DEF orders
  <1> QED
    BY <1>1, <1>2, <1>3, <1>4, <1>5 DEF Process

LEMMA PlatformSteps == PlatformInv /\ [Next]_vars => PlatformInv'
  <1> SUFFICES ASSUME PlatformInv, [Next]_vars
               PROVE  PlatformInv'
    OBVIOUS
  <1> StoreInv /\ StoreTypes /\ EventsInv /\ DisputesInv
    BY DEF PlatformInv, StoreInv
  <1>1. CASE \E e \in Events : Emit(e)
    <2>1. PICK e \in Events : Emit(e)
      BY <1>1
    <2>2. UNCHANGED <<world, told, answers, orders, operator, faults>> /\ emitted \subseteq emitted'
      BY <2>1 DEF Emit
    <2>3. DisputesInv'
      <3>1. UNCHANGED <<orders, unlinked, disputed>>
        BY <2>1 DEF Emit
      <3> QED
        BY <3>1, Lasts, DisputesStay DEF orders
    <2> QED
      BY <2>1, <2>2, <2>3, EmitKeeps, StoreStays DEF PlatformInv
  <1>2. CASE \E p \in Pollers : Process(p) \/ Defer(p) \/ PollFails(p)
    BY <1>2, PollKeeps, PollDisputes DEF PlatformInv
  <1>3. CASE \E u \in Operators : Start(u) \/ Handle(u) \/ CallFails(u) \/ CommandCut(u)
    BY <1>3, CommandKeeps DEF PlatformInv
  <1>4. CASE UNCHANGED vars
    <2>1. UNCHANGED <<world, emitted, told, answers, orders, operator, faults>> /\ UNCHANGED <<emitted, unacked, row, poll, unlinked>>
      BY <1>4 DEF vars, provider
    <2>2. Lasting
      BY <2>1, Lasts DEF orders
    <2>3. DisputesInv'
      <3>1. UNCHANGED <<unlinked, disputed>>
        BY <1>4 DEF vars
      <3> QED
        BY <2>2, <3>1, DisputesStay
    <2> QED
      BY <2>1, <2>2, <2>3, EventsKeep, StoreStays DEF PlatformInv
  <1> QED
    BY <1>1, <1>2, <1>3, <1>4 DEF Next

LEMMA PlatformStarts == Init => PlatformInv
  <1> SUFFICES ASSUME Init
               PROVE  PlatformInv
    OBVIOUS
  <1>1. /\ emitted \subseteq Events /\ unacked = {} /\ unlinked = {}
        /\ \A e \in emitted : Kind[e] = "order" /\ world.begun # None
        /\ row = [e \in Events |-> IF e \in emitted THEN "ACKED" ELSE None]
        /\ poll = [p \in Pollers |-> Resting]
    BY DEF Init
  <1>2. /\ world \in Worlds /\ world.begun \in {None, "PENDING", "READY"} /\ world.commands \in Nat /\ world.faults \in Nat
        /\ order = [o \in Orders |-> [status |-> world.begun, version |-> 0]]
        /\ told = [o \in Orders |-> IF world.begun = "READY" THEN "CONFIRM" ELSE None]
        /\ synced = [o \in Orders |-> IF world.begun = "READY" THEN "PREPARING" ELSE None]
        /\ answers = [o \in Orders |-> {}] /\ dispute = [o \in Orders |-> None]
        /\ command = [u \in Operators |-> NoWork] /\ commands = 0 /\ faults = 0
        /\ flagged = {} /\ raced = {} /\ cut = {}
    BY PlatformAssumption DEF Init
  <1>3. EventTypes
    <2>1. Resting \in PollRow
      BY DEF Resting, PollRow
    <2>2. row \in [Events -> {None, "RECEIVED", "PROCESSING", "ACK_PENDING", "ACKED", "FAILED"}]
      BY <1>1
    <2> QED
      BY <1>1, <2>1, <2>2 DEF EventTypes
  <1>4. \A p \in Pollers : PollFits(p)
    BY <1>1 DEF PollFits, Resting
  <1>5. \A e \in Events : row[e] # None => e \in emitted
    BY <1>1
  <1>6. \A e \in emitted \ unacked : Trace(e)
    <2>1. \A e \in emitted : Of[e] \in Orders /\ order[Of[e]].status = world.begun
      BY <1>1, <1>2, PlatformAssumption
    <2> QED
      BY <1>1, <2>1 DEF Trace, Exists
  <1>7. EventsInv
    BY <1>1, <1>3, <1>4, <1>5, <1>6 DEF EventsInv, AckedIsKnown
  <1>8. StoreTypes
    <2>1. order \in [Orders -> OrderRow]
      BY <1>2 DEF OrderRow, Statuses
    <2>2. told \in [Orders -> Actions] /\ synced \in [Orders -> Statuses]
      BY <1>2 DEF Actions, Statuses
    <2> QED
      BY <1>2, <2>1, <2>2 DEF StoreTypes, Spoilt
  <1>9. \A o \in Orders : Busy(o) = {} /\ Writers(o) = {}
    BY <1>2, NoWorkIsNone, PlatformAssumption DEF Busy, Writers
  <1>10. \A o \in Orders : Exists(o) => InTouch(o)
    <2>1. ASSUME NEW o \in Orders, Exists(o)
          PROVE  Follows(o)
      <3>1. order[o].status = world.begun
        BY <1>2
      <3>2. world.begun \in {"PENDING", "READY"}
        BY <1>2, <2>1, <3>1 DEF Exists
      <3>3. synced[o] \notin {"SHIPPED", "DELIVERED", "CANCELLED"}
        BY <1>2, PlatformAssumption
      <3>4. order[o].status \in Reflected(told[o])
        BY <1>2, <3>1, <3>2, PlatformAssumption DEF Reflected
      <3> QED
        BY <3>3, <3>4 DEF Follows
    <2> QED
      BY <1>9, <2>1 DEF InTouch
  <1>11. \A o \in Orders : order[o].version + Cardinality(Writers(o)) <= commands
    <2>1. \A o \in Orders : order[o].version = 0 /\ Cardinality(Writers(o)) = 0
      BY <1>2, <1>9, FS_EmptySet
    <2> QED
      BY <1>2, <2>1
  <1>12. \A o \in Orders : (dispute[o] # None => Exists(o)) /\ (~Exists(o) => told[o] = None /\ synced[o] = None)
    BY <1>2, PlatformAssumption DEF Exists
  <1>13. AnswerGiven
    BY <1>2, PlatformAssumption DEF AnswerGiven, Answers
  <1>14. \A u \in Operators : command[u] = NoWork
    BY <1>2
  <1>15. StoreInv
    BY <1>8, <1>9, <1>10, <1>11, <1>12, <1>13, <1>14 DEF StoreInv
  <1>16. DisputesInv
    BY DEF Init, DisputesInv
  <1> QED
    BY <1>7, <1>15, <1>16 DEF PlatformInv

LEMMA PlatformHolds == Spec => []PlatformInv
  <1> QED
    BY PlatformStarts, PlatformSteps, PTL DEF Spec

(* An event the provider no longer delivers has left its trace, the order or  *)
(* the dispute, and a row is ACKED only when the provider knows, however the  *)
(* polls overlap and wherever one of them stops (markProcessedAndAck after    *)
(* ingest in pollIntegration).                                                *)
THEOREM EventsAreKept == Spec => []EventsKept
  <1>1. PlatformInv => EventsKept
    <2> SUFFICES ASSUME PlatformInv
                 PROVE  EventsKept
      OBVIOUS
    <2> EventsInv /\ EventTypes /\ StoreInv /\ StoreTypes /\ DisputesInv
      BY DEF PlatformInv, EventsInv, StoreInv
    <2>1. \A o \in Orders : order[o] \in [status : Statuses, version : 0..world.commands]
      <3>1. ASSUME NEW o \in Orders
            PROVE  order[o].version \in 0..world.commands
        <4>1. Cardinality(Writers(o)) \in Nat
          <5>1. Writers(o) \subseteq Operators
            BY DEF Writers
          <5> QED
            BY <5>1, PlatformAssumption, FS_Subset, FS_CardinalityType
        <4>2. order[o].version + Cardinality(Writers(o)) <= commands /\ commands \in 0..world.commands
          BY DEF StoreInv, StoreTypes
        <4>3. order[o].version \in Nat /\ world.commands \in Nat
          BY PlatformAssumption DEF StoreTypes, OrderRow
        <4> QED
          BY <4>1, <4>2, <4>3
      <3> QED
        BY <3>1 DEF StoreTypes, OrderRow
    <2>2. order \in [Orders -> [status : Statuses, version : 0..world.commands]]
      BY <2>1 DEF StoreTypes
    <2>3. TypeOK
      BY <2>2 DEF TypeOK, EventTypes, StoreTypes, DisputesInv, PollRow, Actions, Spoilt
    <2>4. AckedRecorded
      BY DEF AckedRecorded, EventsInv, Trace
    <2> QED
      BY <2>3, <2>4 DEF EventsKept, EventsInv
  <1> QED
    BY <1>1, PlatformHolds, PTL

(* Where no command is under way, the provider was last told what the order   *)
(* is in, unless an attempt is flagged, a command was cut off or two ran at   *)
(* once (confirmOrder, refuseOrder, updateOrderStatus, syncInternalStatus,    *)
(* one after another); and it got, or named in an event, the answer a dispute *)
(* shows (respond and persistFromEvent, in whatever order they write).        *)
THEOREM ProviderIsTold == Spec => []ProviderTold
  <1>1. PlatformInv => ProviderTold
    BY DEF PlatformInv, StoreInv, InTouch, Follows, Spoilt, ProviderTold, ProviderFollows
  <1> QED
    BY <1>1, PlatformHolds, PTL
=================================================================================
