----------------------------- MODULE PaymentStates -----------------------------
(***************************************************************************)
(* The mirror of one Mercado Pago payment (provider_transaction_states),   *)
(* written by two paths at once: notifications, received once, queued and  *)
(* processed (MercadoPagoWebhookService), and the reconciliations of the   *)
(* last day and of the last week (MercadoPagoReconciliationService), under *)
(* the lock of the connection.  Both read the payment from the provider,   *)
(* compare it with the mirror, and write.                                  *)
(***************************************************************************)
EXTENDS Naturals

CONSTANTS
  Notices,       \* event keys
  Handlers,      \* executions of PROVIDER_WEBHOOK jobs, one at a time each
  Crons,         \* runs of the reconciliation
  Window,        \* [Crons -> {24, 168}]: its hours
  Teams,         \* set of SUBSET (Handlers \cup Crons): those at work in a behavior
  NoOne,
  VersionBound,  \* bound: date_last_updated of the payment
  TryBound       \* bound: attempts of a job

ASSUME PaymentStatesAssumption ==
  /\ Window \in [Crons -> {24, 168}] /\ VersionBound \in Nat \ {0} /\ TryBound \in Nat
  /\ NoOne \notin Notices \cup {24, 168} \cup 0..TryBound /\ Handlers \cap Crons = {}
  /\ Teams \subseteq SUBSET (Handlers \cup Crons)

VARIABLES
  version,   \* of the payment at the provider
  mirror,    \* the version that is stored; 0: no row
  peak,      \* history: the newest version ever stored
  notice,    \* [Notices -> [status, sent]]: provider_notifications; sent: the version it told of
  work,      \* [Notices -> attempts made by the job, or NoOne when none is live]
  reader,    \* [Handlers \cup Crons -> [at, notice, got, seen]]
  operation, \* [owner, live]: the lock of the connection; an owner is a window
  overran,   \* history: a lease ended under a run, or a second run took the lock of its own window
  adrift     \* history: notices of which an enqueueing failed, a run was cut, or a job given up

stateVars == <<version, mirror, peak, notice, work, reader, operation, overran, adrift>>

Unread      == [at |-> "idle", notice |-> NoOne, got |-> 0, seen |-> 0]
Is(p, at)   == reader[p].at = at
Gets(p, at) == reader' = [reader EXCEPT ![p].at = at]
Quits(c)    == reader' = [reader EXCEPT ![c] = [Unread EXCEPT !.at = "ended"]]
Open        == {"RECEIVED", "FAILED"}
Marks(n, status) == notice' = [notice EXCEPT ![n].status = status]
Reconciling == {c \in Crons : reader[c].at \notin {"idle", "ended"}}

StatesInit ==
  /\ version = 1 /\ mirror = 0 /\ peak = 0
  /\ notice = [n \in Notices |-> [status |-> "none", sent |-> 0]]
  /\ work = [n \in Notices |-> NoOne]
  /\ \E team \in Teams :
       reader = [p \in Handlers \cup Crons |-> IF p \in team THEN Unread ELSE [Unread EXCEPT !.at = "ended"]]
  /\ operation = [owner |-> NoOne, live |-> FALSE]
  /\ overran = FALSE /\ adrift = {}

----------------------------------------------------------------------------
(* accept: the row, then the job.  A key that is known is answered at once, *)
(* and its job is not looked at.                                           *)

Changes ==
  /\ version < VersionBound /\ version' = version + 1
  /\ UNCHANGED <<mirror, peak, notice, work, reader, operation, overran, adrift>>

Receive(n) ==
  /\ notice[n].status = "none"
  /\ notice' = [notice EXCEPT ![n] = [status |-> "RECEIVED", sent |-> version]]
  /\ \/ work' = [work EXCEPT ![n] = 0] /\ adrift' = adrift
     \/ work' = work /\ adrift' = adrift \cup {n}
  /\ UNCHANGED <<version, mirror, peak, reader, operation, overran>>

\* enqueueRecoverableNotifications of a starting process; a live job is found by its key.
Recoverable(n) ==
  /\ notice[n].status \in Open /\ work[n] = NoOne
  /\ work' = [work EXCEPT ![n] = 0]
  /\ UNCHANGED <<version, mirror, peak, notice, reader, operation, overran, adrift>>

----------------------------------------------------------------------------
(* execute and process.  A job whose lease ended is taken beside its first *)
(* execution.                                                              *)

Done(n)  == work' = [work EXCEPT ![n] = NoOne]
LeavesNotice(h) == reader' = [reader EXCEPT ![h] = Unread]

TakeNotice(h, n) ==
  /\ reader[h] = Unread /\ work[n] # NoOne /\ work[n] < TryBound
  /\ work' = [work EXCEPT ![n] = @ + 1]
  /\ reader' = [reader EXCEPT ![h] = [Unread EXCEPT !.at = "claim", !.notice = n]]
  /\ adrift' = IF \E k \in Handlers : reader[k].notice = n THEN adrift \cup {n} ELSE adrift
  /\ UNCHANGED <<version, mirror, peak, notice, operation, overran>>

\* A notice that is being processed, or has been, ends the job as done.
ClaimNotice(h) ==
  LET n == reader[h].notice IN
  /\ Is(h, "claim")
  /\ IF notice[n].status \in Open THEN Marks(n, "PROCESSING") /\ Gets(h, "get") /\ UNCHANGED work
     ELSE LeavesNotice(h) /\ Done(n) /\ UNCHANGED notice
  /\ UNCHANGED <<version, mirror, peak, operation, overran, adrift>>

\* What is no payment is left, whoever it belongs to.
IgnoreNotice(h) ==
  /\ Is(h, "get") /\ h \in Handlers
  /\ Marks(reader[h].notice, "IGNORED") /\ Done(reader[h].notice) /\ LeavesNotice(h)
  /\ UNCHANGED <<version, mirror, peak, operation, overran, adrift>>

\* The provider answers with the payment as it is now.
FetchPayment(p) ==
  /\ Is(p, "get")
  /\ reader' = [reader EXCEPT ![p].at = "compare", ![p].got = version]
  /\ UNCHANGED <<version, mirror, peak, notice, work, operation, overran, adrift>>

CompareStateMut(p) ==
  /\ Is(p, "compare")
  /\ reader' = [reader EXCEPT ![p].at = "write", ![p].seen = mirror]
  /\ UNCHANGED <<version, mirror, peak, notice, work, operation, overran, adrift>>

(* upsertFromMovement: what is older than the mirror is not written...     *)
CompareState(p) ==
  /\ Is(p, "compare")
  /\ reader' = [reader EXCEPT ![p].at = IF reader[p].got < mirror THEN "finish" ELSE "write",
                              ![p].seen = mirror]
  /\ UNCHANGED <<version, mirror, peak, notice, work, operation, overran, adrift>>

(* ... by what was read: the write itself has no condition.                *)
WriteState(p) ==
  /\ Is(p, "write")
  /\ mirror' = reader[p].got
  /\ peak' = IF reader[p].got > peak THEN reader[p].got ELSE peak
  /\ reader' = [reader EXCEPT ![p] = [@ EXCEPT !.at = "finish", !.got = 0, !.seen = 0]]
  /\ UNCHANGED <<version, notice, work, operation, overran, adrift>>

\* The audit after it may fail: then the notice is processed again.
Finish(h) ==
  /\ Is(h, "finish") /\ h \in Handlers
  /\ Marks(reader[h].notice, "PROCESSED")
  /\ (LeavesNotice(h) /\ Done(reader[h].notice)) \/ (Gets(h, "catch") /\ UNCHANGED work)
  /\ UNCHANGED <<version, mirror, peak, operation, overran, adrift>>

\* No connection has the account, the provider fails, or the database.
Errs(h) ==
  /\ h \in Handlers /\ reader[h].at \in {"get", "compare", "write", "finish"}
  /\ Gets(h, "catch")
  /\ UNCHANGED <<version, mirror, peak, notice, work, operation, overran, adrift>>

CatchNoticeMut(h) ==
  /\ Is(h, "catch")
  /\ Marks(reader[h].notice, "FAILED") /\ LeavesNotice(h) /\ Done(reader[h].notice)
  /\ UNCHANGED <<version, mirror, peak, operation, overran, adrift>>

\* Whatever the status is by now; the job is tried again, if it has an attempt left.
CatchNotice(h) ==
  LET n == reader[h].notice
      again == work[n] # NoOne /\ work[n] < TryBound IN
  /\ Is(h, "catch")
  /\ Marks(n, "FAILED") /\ LeavesNotice(h)
  /\ work' = IF again THEN work ELSE [work EXCEPT ![n] = NoOne]
  /\ adrift' = IF again THEN adrift ELSE adrift \cup {n}
  /\ UNCHANGED <<version, mirror, peak, operation, overran>>

HandlerDies(h) ==
  /\ reader[h].notice # NoOne
  /\ LeavesNotice(h) /\ adrift' = adrift \cup {reader[h].notice}
  /\ UNCHANGED <<version, mirror, peak, notice, work, operation, overran>>

----------------------------------------------------------------------------
(* reconcileConnection.                                                    *)

\* The owner is named for the window alone, so that a run of the same window gets the lock, too.
Lock(c) ==
  /\ Is(c, "idle")
  /\ IF operation.live /\ operation.owner # Window[c] THEN Gets(c, "ended") /\ UNCHANGED <<operation, overran>>
     ELSE /\ operation' = [owner |-> Window[c], live |-> TRUE] /\ Gets(c, "get")
          /\ overran' = (overran \/ (operation.live /\ Reconciling # {}))
  /\ UNCHANGED <<version, mirror, peak, notice, work, adrift>>

\* At the end, or at an error: finally.
Unlock(c) ==
  /\ c \in Reconciling /\ (Is(c, "finish") \/ reader[c].at \in {"get", "compare", "write"})
  /\ Quits(c)
  /\ operation' = IF operation.owner = Window[c] THEN [owner |-> NoOne, live |-> FALSE] ELSE operation
  /\ UNCHANGED <<version, mirror, peak, notice, work, overran, adrift>>

CronDies(c) ==
  /\ c \in Reconciling /\ Quits(c)
  /\ UNCHANGED <<version, mirror, peak, notice, work, operation, overran, adrift>>

\* Ten minutes pass.
OperationEnds ==
  /\ operation.live /\ operation' = [operation EXCEPT !.live = FALSE]
  /\ overran' = (overran \/ Reconciling # {})
  /\ UNCHANGED <<version, mirror, peak, notice, work, reader, adrift>>

StatesNext ==
  \/ Changes \/ OperationEnds
  \/ \E n \in Notices : Receive(n) \/ Recoverable(n) \/ \E h \in Handlers : TakeNotice(h, n)
  \/ \E h \in Handlers :
       ClaimNotice(h) \/ IgnoreNotice(h) \/ Finish(h) \/ Errs(h) \/ CatchNotice(h) \/ HandlerDies(h)
  \/ \E c \in Crons : Lock(c) \/ Unlock(c) \/ CronDies(c)
  \/ \E p \in Handlers \cup Crons : FetchPayment(p) \/ CompareState(p) \/ WriteState(p)

StatesSpec == StatesInit /\ [][StatesNext]_stateVars

----------------------------------------------------------------------------
StatesTypeOK ==
  /\ version \in 1..VersionBound /\ mirror \in 0..peak /\ peak \in 0..version
  /\ \A n \in Notices :
       /\ notice[n].status \in {"none", "RECEIVED", "PROCESSING", "PROCESSED", "IGNORED", "FAILED"}
       /\ notice[n].sent \in 0..version /\ work[n] \in 0..TryBound \cup {NoOne}
  /\ \A p \in Handlers \cup Crons : reader[p].notice \in Notices \cup {NoOne} /\ reader[p].got \in 0..version
  /\ operation.owner \in {24, 168, NoOne} /\ adrift \subseteq Notices

(* The mirror never goes back to an older version of the payment, unless   *)
(* another wrote it between the comparison and the write.                  *)
NoRollback ==
  [][mirror' < mirror =>
       \E p \in Handlers \cup Crons : Is(p, "write") /\ reader'[p] # reader[p] /\ reader[p].seen < mirror]_stateVars

(* A notice that counts as processed is not lost: the mirror has held the  *)
(* payment as new as the notice told of.                                   *)
NoticeApplied == \A n \in Notices : notice[n].status = "PROCESSED" => peak >= notice[n].sent

(* A notice that is open, or in process, has a job or a run that will deal *)
(* with it, unless its job could not be queued, was cut off or given up:   *)
(* only the next start of a process finds it, and one left in PROCESSING   *)
(* is never found.                                                         *)
NoticeKept ==
  \A n \in Notices \ adrift : notice[n].status \in Open \cup {"PROCESSING"} =>
    work[n] # NoOne \/ \E h \in Handlers : reader[h].notice = n

(* Two runs of the reconciliation are at work only if a lease ended under  *)
(* one, or they were of one window.                                        *)
ReconciledAlone == overran \/ \A c, d \in Reconciling : c = d

(* A notice is dealt with, or waits with somebody to deal with it, and the *)
(* reconciliation runs alone.                                              *)
NoticesSafe == StatesTypeOK /\ NoticeApplied /\ NoticeKept /\ ReconciledAlone
================================================================================
