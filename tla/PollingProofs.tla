------------------------------ MODULE PollingProofs ------------------------------
(*********************************************************************************)
(* Proofs about what polls: the workers of the queue (BackgroundJobs), for any   *)
(* jobs, workers, schedulers, limits and timings that satisfy the assumptions of *)
(* that module, and a screen of the kitchen (Kitchen), for any number of orders, *)
(* of changes by others and of faults.  They share no state; each has its        *)
(* invariant, and what follows from it.                                          *)
(*********************************************************************************)
EXTENDS BackgroundJobs, Kitchen, FiniteSetTheorems, TLAPS

--------------------------------------------------------------------------------
(* BackgroundJobs.                                                               *)
----------------------------------------------------------------------------
(* Rows as the statements build them.                                        *)

(* Giving a lease back makes a row without an owner.                         *)
LEMMA NoLeaseRow ==
  ASSUME NEW row \in Row, NEW status \in {"RETRY_WAIT", "SUCCEEDED", "FAILED"}, NEW wait \in Int
  PROVE  /\ NoLease(row, status, wait) \in Row
         /\ NoLease(row, status, wait).status = status
         /\ NoLease(row, status, wait).by = None
         /\ NoLease(row, status, wait).attempts = row.attempts
         /\ NoLease(row, status, wait).version = row.version
  BY DEF Row, NoLease, MkRow

(* A claim makes a leased row with one more attempt and a new version.       *)
LEMMA LeasedRow ==
  ASSUME NEW row \in Row, NEW w \in Workers, ProcessesOK
  PROVE  /\ Leased(row, w) \in Row
         /\ Leased(row, w).status = "RUNNING" /\ Leased(row, w).by = w
         /\ Leased(row, w).attempts = row.attempts + 1
         /\ Leased(row, w).version = row.version + 1
         /\ Leased(row, w).ttl >= Lease - age[w]
  BY LimitsAssumption DEF Row, Leased, MkRow, ProcessesOK, Above, Floor, Actors

(* What a write to one existing row must respect.                            *)
LEMMA RowWritten ==
  ASSUME RowsOK, NEW j \in Jobs, NEW row \in Row, jobs[j].status # None, row.status # None,
         row.status = "RUNNING" <=> row.by # None,
         jobs' = [jobs EXCEPT ![j] = row], UNCHANGED request
  PROVE  RowsOK'
  BY DEF RowsOK

(* A row that gives its lease back.                                          *)
LEMMA GivenBack ==
  ASSUME RowsOK, NEW j \in Jobs, jobs[j].status = "RUNNING",
         NEW status \in {"RETRY_WAIT", "SUCCEEDED", "FAILED"}, NEW wait \in Int,
         jobs' = [jobs EXCEPT ![j] = NoLease(@, status, wait)], UNCHANGED request
  PROVE  RowsOK'
<1>1. jobs[j] \in Row
  BY DEF RowsOK
<1> DEFINE row == NoLease(jobs[j], status, wait)
<1>2. row \in Row /\ row.status = status /\ row.by = None
  BY <1>1, NoLeaseRow
<1>3. jobs' = [jobs EXCEPT ![j] = row]
  OBVIOUS
<1> HIDE DEF row
<1> QED
  BY <1>2, <1>3, NoneAssumption, RowWritten

(* A heartbeat leaves every row as it was but for the time its lease ends.   *)
LEMMA Renewed ==
  ASSUME RowsOK, NEW o \in [job : Jobs \cup {None}, version : Nat], NEW w \in Workers,
         NEW late \in Nat, Renew(o, w, late)
  PROVE  /\ jobs' \in [Jobs -> Row]
         /\ \A j \in Jobs : /\ jobs'[j].status = jobs[j].status
                            /\ jobs'[j].attempts = jobs[j].attempts
                            /\ jobs'[j].version = jobs[j].version
                            /\ jobs'[j].by = jobs[j].by
         /\ UNCHANGED request => RowsOK'
<1>1. CASE Holds(o, w)
  <2> DEFINE row == MkRow("RUNNING", jobs[o.job].attempts, w, jobs[o.job].version,
                          Above(HandlerLease[o.job] - late), 0)
  <2>1. o.job \in Jobs /\ jobs[o.job].status = "RUNNING" /\ jobs[o.job].by = w
    BY <1>1 DEF Holds
  <2>2. row \in Row /\ row.status = "RUNNING" /\ row.by = w
        /\ row.attempts = jobs[o.job].attempts /\ row.version = jobs[o.job].version
    BY <2>1, LimitsAssumption DEF RowsOK, Row, MkRow, Above, Floor
  <2>3. jobs' = [jobs EXCEPT ![o.job] = row]
    BY <1>1 DEF Renew
  <2> HIDE DEF row
  <2> QED
    BY <2>1, <2>2, <2>3 DEF RowsOK
<1>2. CASE ~Holds(o, w)
  BY <1>2 DEF Renew, RowsOK
<1> QED
  BY <1>1, <1>2

----------------------------------------------------------------------------
(* Every variable keeps its type, a row exists exactly for an inserted       *)
(* request, and a row is leased exactly while it is RUNNING.                 *)
LEMMA TypeStep == TypeOK /\ [Next]_vars => TypeOK'
<1> SUFFICES ASSUME TypeOK, [Next]_vars PROVE TypeOK'
  OBVIOUS
<1> USE ActorsAssumption, NoneAssumption, LimitsAssumption DEF TypeOK
<1>1. ASSUME NEW j \in Jobs, EnqueueInsert(j) PROVE TypeOK'
  <2>1. LedgerOK' /\ ProcessesOK'
    BY <1>1 DEF EnqueueInsert, LedgerOK, ProcessesOK
  <2>2. RowsOK'
    BY <1>1 DEF EnqueueInsert, MkRow, Row, RowsOK
  <2> QED
    BY <2>1, <2>2
<1>2. ASSUME NEW j \in Jobs, EnqueueConflict(j) \/ EnqueueLookup(j) PROVE TypeOK'
  <2>1. UNCHANGED <<jobs, ledger, pc, own, age, seen, beat>>
    BY <1>2 DEF EnqueueConflict, EnqueueLookup
  <2>2. LedgerOK' /\ ProcessesOK'
    BY <2>1 DEF LedgerOK, ProcessesOK
  <2>3. RowsOK'
    BY <1>2, <2>1 DEF EnqueueConflict, EnqueueLookup, RowsOK
  <2> QED
    BY <2>2, <2>3
<1>3. ASSUME NEW a \in Actors, RecoverRead(a) PROVE TypeOK'
  <2>1. RowsOK' /\ LedgerOK'
    BY <1>3 DEF RecoverRead, RowsOK, LedgerOK
  <2>2. \A j \in Jobs : jobs[j].attempts \in Nat
    BY DEF RowsOK, Row
  <2>3. PICK batch \in SUBSET ExpiredAt(0) :
          seen' = [seen EXCEPT ![a] = {[job |-> j, attempts |-> jobs[j].attempts] : j \in batch}]
    BY <1>3 DEF RecoverRead
  <2>4. {[job |-> j, attempts |-> jobs[j].attempts] : j \in batch} \in SUBSET [job : Jobs, attempts : Nat]
    BY <2>2 DEF ExpiredAt
  <2>5. seen' \in [Actors -> SUBSET [job : Jobs, attempts : Nat]]
    BY <2>3, <2>4 DEF ProcessesOK
  <2>6. ProcessesOK'
    BY <1>3, <2>5 DEF RecoverRead, ProcessesOK
  <2> QED
    BY <2>1, <2>6
<1>4. ASSUME NEW a \in Actors, NEW r \in seen[a], RecoverOne(a, r) PROVE TypeOK'
  <2>1. r.job \in Jobs /\ 0 \in Int /\ -age[a] \in Int
    BY DEF ProcessesOK
  <2>2. ProcessesOK'
    BY <1>4 DEF RecoverOne, ProcessesOK
  <2>3. CASE Expired(r.job, a)
    <3>1. jobs[r.job].status = "RUNNING" /\ UNCHANGED request /\ ledger' = Abandon(r.job)
      BY <1>4, <2>3 DEF RecoverOne, Expired
    <3>2. ASSUME r.attempts >= MaxAttempts[r.job] PROVE RowsOK'
      <4>1. jobs' = [jobs EXCEPT ![r.job] = NoLease(@, "FAILED", 0)]
        BY <1>4, <2>3, <3>2 DEF RecoverOne
      <4> QED
        BY <2>1, <3>1, <4>1, GivenBack
    <3>3. ASSUME ~(r.attempts >= MaxAttempts[r.job]) PROVE RowsOK'
      <4>1. jobs' = [jobs EXCEPT ![r.job] = NoLease(@, "RETRY_WAIT", -age[a])]
        BY <1>4, <2>3, <3>3 DEF RecoverOne
      <4> QED
        BY <2>1, <3>1, <4>1, GivenBack
    <3>4. LedgerOK'
      BY <2>1, <3>1 DEF Abandon, LedgerOK, Outcome
    <3> QED
      BY <2>2, <3>2, <3>3, <3>4
  <2>4. CASE ~Expired(r.job, a)
    BY <1>4, <2>2, <2>4 DEF RecoverOne, RowsOK, LedgerOK
  <2> QED
    BY <2>3, <2>4
<1>5. ASSUME NEW a \in Actors, RecoverCommit(a) \/ TxAbort(a) PROVE TypeOK'
  <2>1. RowsOK' /\ LedgerOK'
    BY <1>5 DEF RecoverCommit, TxAbort, RowsOK, LedgerOK
  <2>2. CASE RecoverCommit(a)
    BY <2>1, <2>2 DEF RecoverCommit, ProcessesOK
  <2>3. CASE TxAbort(a)
    BY <2>1, <2>3 DEF TxAbort, ProcessesOK
  <2> QED
    BY <1>5, <2>2, <2>3
<1>6. ASSUME NEW w \in Workers, ClaimNext(w) PROVE TypeOK'
  <2>1. PICK j \in Jobs : /\ Claim(w, j) /\ jobs[j].status \in {"PENDING", "RETRY_WAIT"}
                          /\ jobs[j].attempts < MaxAttempts[j]
    BY <1>6 DEF ClaimNext, Best, Candidates
  <2>2. jobs' = [jobs EXCEPT ![j] = Leased(jobs[j], w)] /\ UNCHANGED request
    BY <2>1 DEF Claim
  <2>3. RowsOK'
    <3>1. Leased(jobs[j], w) \in Row /\ Leased(jobs[j], w).status = "RUNNING" /\ Leased(jobs[j], w).by = w
      BY LeasedRow DEF RowsOK
    <3> QED
      BY <2>1, <2>2, <3>1, RowWritten DEF Actors
  <2>4. jobs'[j].version \in Nat
    BY <2>3 DEF RowsOK, Row
  <2>5. LedgerOK'
    BY <2>1 DEF Claim, LedgerOK, Outcome
  <2>6. ProcessesOK'
    BY <2>1, <2>4 DEF Claim, ProcessesOK, Actors
  <2> QED
    BY <2>3, <2>5, <2>6
<1>7. ASSUME NEW w \in Workers, ClaimNothing(w) PROVE TypeOK'
  BY <1>7 DEF ClaimNothing, Actors, RowsOK, LedgerOK, ProcessesOK
<1>8. ASSUME NEW w \in Workers, FirstHeartbeat(w) PROVE TypeOK'
  <2>1. RowsOK'
    BY <1>8, Renewed DEF FirstHeartbeat, ProcessesOK, Actors
  <2> QED
    BY <1>8, <2>1 DEF FirstHeartbeat, Actors, LedgerOK, ProcessesOK
<1>9. ASSUME NEW w \in Workers, FirstHeartbeatThrows(w) \/ RetryOrFailThrows(w) PROVE TypeOK'
  <2>1. RowsOK' /\ LedgerOK'
    BY <1>9 DEF FirstHeartbeatThrows, RetryOrFailThrows, RowsOK, LedgerOK
  <2>2. Release(w) /\ UNCHANGED <<seen, beat>>
    BY <1>9 DEF FirstHeartbeatThrows, RetryOrFailThrows
  <2>3. ProcessesOK'
    BY <2>2 DEF Release, NoOwner, Actors, ProcessesOK
  <2> QED
    BY <2>1, <2>3
<1>10. ASSUME NEW w \in Workers, SendHeartbeat(w) \/ HeartbeatLost(w) PROVE TypeOK'
  <2>1. RowsOK' /\ LedgerOK'
    BY <1>10 DEF SendHeartbeat, HeartbeatLost, RowsOK, LedgerOK
  <2>2. ProcessesOK'
    BY <1>10 DEF SendHeartbeat, HeartbeatLost, NoBeat, ProcessesOK
  <2> QED
    BY <2>1, <2>2
<1>11. ASSUME NEW w \in Workers, Heartbeat(w) PROVE TypeOK'
  <2>1. [job |-> beat[w].job, version |-> beat[w].version] \in [job : Jobs \cup {None}, version : Nat]
        /\ beat[w].age \in Nat
    BY DEF ProcessesOK
  <2>2. RowsOK'
    BY <1>11, <2>1, Renewed DEF Heartbeat, Owner
  <2> QED
    BY <1>11, <2>2 DEF Heartbeat, NoBeat, LedgerOK, ProcessesOK
<1>12. ASSUME NEW w \in Workers, HandlerReturns(w) \/ HandlerThrows(w) PROVE TypeOK'
  BY <1>12 DEF HandlerReturns, HandlerThrows, Actors, RowsOK, LedgerOK, ProcessesOK
<1>13. ASSUME NEW w \in Workers, Complete(w), UNCHANGED request PROVE RowsOK' /\ LedgerOK'
  <2>1. CASE Holds(own[w], w)
    <3> DEFINE j == own[w].job
    <3>1. j \in Jobs /\ jobs[j].status = "RUNNING" /\ 0 \in Int
      BY <2>1 DEF Holds, ProcessesOK
    <3>2. jobs' = [jobs EXCEPT ![j] = NoLease(@, "SUCCEEDED", 0)]
      BY <1>13, <2>1 DEF Complete
    <3>3. RowsOK'
      BY <1>13, <3>1, <3>2, GivenBack
    <3>4. LedgerOK'
      <4>1. ledger' = [ledger EXCEPT ![j] = [m \in DOMAIN @ |->
                         IF m = own[w].version /\ @[m] = "RUNNING" THEN "SUCCEEDED" ELSE @[m]]]
        BY <1>13, <2>1 DEF Complete
      <4> QED
        BY <3>1, <4>1 DEF LedgerOK, Outcome
    <3> QED
      BY <3>3, <3>4
  <2>2. CASE ~Holds(own[w], w)
    BY <1>13, <2>2 DEF Complete, RowsOK, LedgerOK
  <2> QED
    BY <2>1, <2>2
<1>14. ASSUME NEW w \in Workers, Finish(w) PROVE TypeOK'
  <2>1. ProcessesOK'
    BY <1>14 DEF Finish, Release, NoOwner, Actors, ProcessesOK
  <2> QED
    BY <1>13, <1>14, <2>1 DEF Finish
<1>15. ASSUME NEW w \in Workers, FinishThrows(w) PROVE TypeOK'
  <2>1. ProcessesOK'
    BY <1>15 DEF FinishThrows, Actors, ProcessesOK
  <2>2. CASE UNCHANGED <<jobs, ledger>>
    BY <1>15, <2>1, <2>2 DEF FinishThrows, RowsOK, LedgerOK
  <2> QED
    BY <1>13, <1>15, <2>1, <2>2 DEF FinishThrows
<1>16. ASSUME NEW w \in Workers, RetryOrFail(w) PROVE TypeOK'
  <2>1. ProcessesOK' /\ UNCHANGED request
    BY <1>16 DEF RetryOrFail, Release, NoOwner, Actors, ProcessesOK
  <2>2. CASE Holds(own[w], w)
    <3> DEFINE j == own[w].job
    <3>1. j \in Jobs /\ jobs[j].status = "RUNNING" /\ 0 \in Int
      BY <2>2 DEF Holds, ProcessesOK
    <3>2. PICK delay \in 0..MaxDelay :
            jobs' = [jobs EXCEPT ![j] = IF jobs[j].attempts >= MaxAttempts[j]
                                        THEN NoLease(@, "FAILED", 0) ELSE NoLease(@, "RETRY_WAIT", delay)]
      BY <1>16, <2>2 DEF RetryOrFail
    <3>3. RowsOK'
      <4>1. CASE jobs[j].attempts >= MaxAttempts[j]
        BY <2>1, <3>1, <3>2, <4>1, GivenBack
      <4>2. CASE ~(jobs[j].attempts >= MaxAttempts[j])
        BY <2>1, <3>1, <3>2, <4>2, 0 \in Int, delay \in Int, GivenBack
      <4> QED
        BY <4>1, <4>2
    <3>4. LedgerOK'
      <4>1. ledger' = [ledger EXCEPT ![j] = [m \in DOMAIN @ |->
                         IF m = jobs[j].attempts /\ @[m] = "RUNNING"
                         THEN (IF jobs[j].attempts >= MaxAttempts[j] THEN "FAILED" ELSE "RETRY") ELSE @[m]]]
        BY <1>16, <2>2 DEF RetryOrFail
      <4> QED
        BY <3>1, <4>1 DEF LedgerOK, Outcome
    <3> QED
      BY <2>1, <3>3, <3>4
  <2>3. CASE ~Holds(own[w], w)
    BY <1>16, <2>1, <2>3 DEF RetryOrFail, RowsOK, LedgerOK
  <2> QED
    BY <2>2, <2>3
<1>17. ASSUME NEW w \in Workers, Crash(w) PROVE TypeOK'
  BY <1>17 DEF Crash, NoOwner, Actors, RowsOK, LedgerOK, ProcessesOK
<1>18. ASSUME NEW w \in Workers, Restart(w) PROVE TypeOK'
  BY <1>18 DEF Restart, Actors, RowsOK, LedgerOK, ProcessesOK
<1>19. CASE Tick
  <2>1. LedgerOK'
    BY <1>19 DEF Tick, LedgerOK
  <2>2. RowsOK'
    <3>1. \A j \in Jobs : jobs[j] \in Row
      BY DEF RowsOK
    <3>2. \A row \in Row : /\ Older(row) \in Row /\ Older(row).status = row.status
                           /\ Older(row).by = row.by /\ Older(row).attempts = row.attempts
      BY DEF Older, MkRow, Above, Floor, Row
    <3> QED
      BY <1>19, <3>1, <3>2 DEF Tick, RowsOK
  <2>3. ProcessesOK'
    BY <1>19 DEF Tick, NoBeat, Sooner, ProcessesOK
  <2> QED
    BY <2>1, <2>2, <2>3
<1>20. CASE UNCHANGED vars
  BY <1>20 DEF vars, RowsOK, LedgerOK, ProcessesOK
<1> QED
  BY <1>1, <1>2, <1>3, <1>4, <1>5, <1>6, <1>7, <1>8, <1>9, <1>10, <1>11, <1>12, <1>14,
     <1>15, <1>16, <1>17, <1>18, <1>19, <1>20 DEF Next, Recovery, Worker

(* TypeOK holds in every reachable state.                                    *)
THEOREM TypeCorrect == Spec => []TypeOK
<1>1. Init => TypeOK
  BY NoneAssumption, LimitsAssumption
     DEF Init, TypeOK, RowsOK, LedgerOK, ProcessesOK, Outcome, NoRow, MkRow, NoOwner, NoBeat, Row
<1> QED
  BY <1>1, TypeStep, PTL DEF Spec

----------------------------------------------------------------------------
(* The four ways a step can leave a row and its attempt history.             *)

Kept(j) ==
  /\ jobs'[j].status = jobs[j].status /\ jobs'[j].attempts = jobs[j].attempts
  /\ jobs'[j].version = jobs[j].version /\ ledger'[j] = ledger[j]
Inserted(j) ==
  /\ jobs[j].status = None /\ jobs'[j].status = "PENDING" /\ Conflicts(j) = {}
  /\ jobs'[j].attempts = 0 /\ jobs'[j].version = 0 /\ ledger'[j] = ledger[j]
  /\ jobs[j].attempts = 0
  /\ \A k \in Jobs \ {j} : jobs'[k] = jobs[k]
Claimed(j) ==
  /\ jobs[j].status \in {"PENDING", "RETRY_WAIT"} /\ jobs'[j].status = "RUNNING"
  /\ jobs[j].attempts < MaxAttempts[j]
  /\ jobs'[j].attempts = jobs[j].attempts + 1 /\ jobs'[j].version = jobs[j].version + 1
  /\ ledger'[j] = [ledger[j] EXCEPT ![jobs[j].attempts + 1] = "RUNNING"]
Released(j) ==
  /\ jobs[j].status = "RUNNING" /\ jobs'[j].status \in {"RETRY_WAIT", "FAILED", "SUCCEEDED"}
  /\ jobs'[j].attempts = jobs[j].attempts /\ jobs'[j].version = jobs[j].version
  /\ \E outcome \in {"SUCCEEDED", "RETRY", "FAILED", "ABANDONED"} :
       /\ outcome = "SUCCEEDED" <=> jobs'[j].status = "SUCCEEDED"
       /\ \A n \in 1..AttemptLimit :
            ledger'[j][n] = IF ledger[j][n] = "RUNNING" THEN outcome ELSE ledger[j][n]

RowStep(j) == Kept(j) \/ Inserted(j) \/ Claimed(j) \/ Released(j)

(* The row and the history after a lease is given back.                      *)
LEMMA ReleasedBy ==
  ASSUME TypeOK, NEW j \in Jobs, jobs[j].status = "RUNNING", NEW wait \in Int,
         NEW status \in {"RETRY_WAIT", "FAILED", "SUCCEEDED"},
         NEW outcome \in {"SUCCEEDED", "RETRY", "FAILED", "ABANDONED"},
         outcome = "SUCCEEDED" <=> status = "SUCCEEDED",
         jobs' = [jobs EXCEPT ![j] = NoLease(@, status, wait)],
         \A k \in Jobs \ {j} : ledger'[k] = ledger[k],
         \A n \in 1..AttemptLimit :
           ledger'[j][n] = IF ledger[j][n] = "RUNNING" THEN outcome ELSE ledger[j][n]
  PROVE  \A k \in Jobs : RowStep(k)
<1>1. jobs[j] \in Row
  BY DEF TypeOK, RowsOK
<1>2. jobs'[j] = NoLease(jobs[j], status, wait) /\ \A k \in Jobs \ {j} : jobs'[k] = jobs[k]
  BY DEF TypeOK, RowsOK
<1>3. /\ jobs'[j].status = status /\ jobs'[j].attempts = jobs[j].attempts
      /\ jobs'[j].version = jobs[j].version
  BY <1>1, <1>2, NoLeaseRow
<1>4. Released(j)
  BY <1>3 DEF Released
<1>5. \A k \in Jobs \ {j} : Kept(k)
  BY <1>2 DEF Kept
<1> QED
  BY <1>4, <1>5 DEF RowStep

(* Every step of the queue treats every row in one of these ways.            *)
LEMMA RowSteps ==
  ASSUME TypeOK, AttemptLedger, [Next]_vars
  PROVE  \A j \in Jobs : RowStep(j)
<1> DEFINE Goal == \A j \in Jobs : RowStep(j)
<1>1. ASSUME UNCHANGED <<jobs, ledger>> PROVE Goal
  BY <1>1 DEF RowStep, Kept
<1>2. ASSUME NEW j \in Jobs, EnqueueInsert(j) PROVE Goal
  <2>1. PICK delay \in 0..MaxDelay : jobs' = [jobs EXCEPT ![j] = MkRow("PENDING", 0, None, 0, 0, delay)]
    BY <1>2 DEF EnqueueInsert
  <2>2. jobs'[j] = MkRow("PENDING", 0, None, 0, 0, delay) /\ \A k \in Jobs \ {j} : jobs'[k] = jobs[k]
    BY <2>1 DEF TypeOK, RowsOK
  <2>3. jobs[j].status = None /\ jobs[j].attempts = 0 /\ Conflicts(j) = {} /\ UNCHANGED ledger
    BY <1>2 DEF EnqueueInsert, TypeOK, RowsOK
  <2>4. Inserted(j)
    BY <2>2, <2>3 DEF Inserted, MkRow
  <2>5. \A k \in Jobs \ {j} : Kept(k)
    BY <2>2, <2>3 DEF Kept
  <2> QED
    BY <2>4, <2>5 DEF RowStep
<1>3. ASSUME NEW a \in Actors, NEW r \in seen[a], RecoverOne(a, r) PROVE Goal
  <2>1. r.job \in Jobs /\ 0 \in Int /\ -age[a] \in Int
    BY DEF TypeOK, ProcessesOK
  <2>2. CASE Expired(r.job, a)
    <3>1. jobs[r.job].status = "RUNNING" /\ ledger' = Abandon(r.job)
      BY <1>3, <2>2 DEF RecoverOne, Expired
    <3>2. /\ \A k \in Jobs \ {r.job} : ledger'[k] = ledger[k]
          /\ \A n \in 1..AttemptLimit :
               ledger'[r.job][n] = IF ledger[r.job][n] = "RUNNING" THEN "ABANDONED" ELSE ledger[r.job][n]
      BY <2>1, <3>1 DEF Abandon, TypeOK, LedgerOK
    <3>3. CASE r.attempts >= MaxAttempts[r.job]
      <4>1. jobs' = [jobs EXCEPT ![r.job] = NoLease(@, "FAILED", 0)]
        BY <1>3, <2>2, <3>3 DEF RecoverOne
      <4> QED
        BY <2>1, <3>1, <3>2, <4>1, ReleasedBy
    <3>4. CASE ~(r.attempts >= MaxAttempts[r.job])
      <4>1. jobs' = [jobs EXCEPT ![r.job] = NoLease(@, "RETRY_WAIT", -age[a])]
        BY <1>3, <2>2, <3>4 DEF RecoverOne
      <4> QED
        BY <2>1, <3>1, <3>2, <4>1, ReleasedBy
    <3> QED
      BY <3>3, <3>4
  <2>3. CASE ~Expired(r.job, a)
    BY <1>1, <1>3, <2>3 DEF RecoverOne
  <2> QED
    BY <2>2, <2>3
<1>4. ASSUME NEW w \in Workers, ClaimNext(w) PROVE Goal
  <2>1. PICK j \in Jobs : /\ Claim(w, j) /\ jobs[j].status \in {"PENDING", "RETRY_WAIT"}
                          /\ jobs[j].attempts < MaxAttempts[j]
    BY <1>4 DEF ClaimNext, Best, Candidates
  <2>2. jobs'[j] = Leased(jobs[j], w) /\ \A k \in Jobs \ {j} : jobs'[k] = jobs[k]
    BY <2>1 DEF Claim, TypeOK, RowsOK
  <2>3. /\ ledger'[j] = [ledger[j] EXCEPT ![jobs[j].attempts + 1] = "RUNNING"]
        /\ \A k \in Jobs \ {j} : ledger'[k] = ledger[k]
    BY <2>1 DEF Claim, TypeOK, LedgerOK
  <2>4. Claimed(j)
    BY <2>1, <2>2, <2>3, LeasedRow DEF Claimed, TypeOK, RowsOK
  <2>5. \A k \in Jobs \ {j} : Kept(k)
    BY <2>2, <2>3 DEF Kept
  <2> QED
    BY <2>4, <2>5 DEF RowStep
<1>5. ASSUME NEW w \in Workers, FirstHeartbeat(w) PROVE Goal
  <2>1. own[w] \in [job : Jobs \cup {None}, version : Nat] /\ age[w] \in Nat
    BY DEF TypeOK, ProcessesOK, Actors
  <2>2. Renew(own[w], w, age[w]) /\ UNCHANGED ledger
    BY <1>5 DEF FirstHeartbeat
  <2> QED
    BY <2>1, <2>2, Renewed DEF RowStep, Kept, TypeOK
<1>6. ASSUME NEW w \in Workers, Heartbeat(w) PROVE Goal
  <2>1. Owner(beat[w]) \in [job : Jobs \cup {None}, version : Nat] /\ beat[w].age \in Nat
    BY DEF TypeOK, ProcessesOK, Owner
  <2>2. Renew(Owner(beat[w]), w, beat[w].age) /\ UNCHANGED ledger
    BY <1>6 DEF Heartbeat
  <2> QED
    BY <2>1, <2>2, Renewed DEF RowStep, Kept, TypeOK
<1>7. ASSUME NEW w \in Workers, Complete(w) PROVE Goal
  <2>1. CASE Holds(own[w], w)
    <3> DEFINE j == own[w].job
    <3>1. j \in Jobs /\ jobs[j].status = "RUNNING" /\ jobs[j].version = own[w].version /\ 0 \in Int
      BY <2>1 DEF Holds, TypeOK, ProcessesOK
    <3>2. jobs' = [jobs EXCEPT ![j] = NoLease(@, "SUCCEEDED", 0)]
      BY <1>7, <2>1 DEF Complete
    <3>3. ledger' = [ledger EXCEPT ![j] = [m \in DOMAIN @ |->
                       IF m = own[w].version /\ @[m] = "RUNNING" THEN "SUCCEEDED" ELSE @[m]]]
      BY <1>7, <2>1 DEF Complete
    <3>4. \A n \in 1..AttemptLimit : ledger[j][n] = "RUNNING" => n = own[w].version
      BY <3>1 DEF AttemptLedger
    <3>5. /\ \A k \in Jobs \ {j} : ledger'[k] = ledger[k]
          /\ \A n \in 1..AttemptLimit :
               ledger'[j][n] = IF ledger[j][n] = "RUNNING" THEN "SUCCEEDED" ELSE ledger[j][n]
      BY <3>1, <3>3, <3>4 DEF TypeOK, LedgerOK
    <3> QED
      BY <3>1, <3>2, <3>5, ReleasedBy
  <2>2. CASE ~Holds(own[w], w)
    BY <1>1, <1>7, <2>2 DEF Complete
  <2> QED
    BY <2>1, <2>2
<1>8. ASSUME NEW w \in Workers, RetryOrFail(w) PROVE Goal
  <2>1. CASE Holds(own[w], w)
    <3> DEFINE j == own[w].job
    <3>1. j \in Jobs /\ jobs[j].status = "RUNNING" /\ 0 \in Int
      BY <2>1 DEF Holds, TypeOK, ProcessesOK
    <3>2. PICK delay \in 0..MaxDelay :
            jobs' = [jobs EXCEPT ![j] = IF jobs[j].attempts >= MaxAttempts[j]
                                        THEN NoLease(@, "FAILED", 0) ELSE NoLease(@, "RETRY_WAIT", delay)]
      BY <1>8, <2>1 DEF RetryOrFail
    <3> DEFINE outcome == IF jobs[j].attempts >= MaxAttempts[j] THEN "FAILED" ELSE "RETRY"
    <3>3. ledger' = [ledger EXCEPT ![j] = [m \in DOMAIN @ |->
                       IF m = jobs[j].attempts /\ @[m] = "RUNNING" THEN outcome ELSE @[m]]]
      BY <1>8, <2>1 DEF RetryOrFail
    <3>4. \A n \in 1..AttemptLimit : ledger[j][n] = "RUNNING" => n = jobs[j].attempts
      BY <3>1 DEF AttemptLedger
    <3>5. /\ \A k \in Jobs \ {j} : ledger'[k] = ledger[k]
          /\ \A n \in 1..AttemptLimit :
               ledger'[j][n] = IF ledger[j][n] = "RUNNING" THEN outcome ELSE ledger[j][n]
      BY <3>1, <3>3, <3>4 DEF TypeOK, LedgerOK
    <3>6. CASE jobs[j].attempts >= MaxAttempts[j]
      BY <3>1, <3>2, <3>5, <3>6, ReleasedBy
    <3>7. CASE ~(jobs[j].attempts >= MaxAttempts[j])
      BY <3>1, <3>2, <3>5, <3>7, delay \in Int, ReleasedBy
    <3> QED
      BY <3>6, <3>7
  <2>2. CASE ~Holds(own[w], w)
    BY <1>1, <1>8, <2>2 DEF RetryOrFail
  <2> QED
    BY <2>1, <2>2
<1>9. ASSUME Tick PROVE Goal
  BY <1>9 DEF Tick, Older, MkRow, RowStep, Kept
<1>10. ASSUME UNCHANGED vars PROVE Goal
  BY <1>1, <1>10 DEF vars
<1> QED
  <2>1. ASSUME NEW j \in Jobs, EnqueueConflict(j) \/ EnqueueLookup(j) PROVE UNCHANGED <<jobs, ledger>>
    BY <2>1 DEF EnqueueConflict, EnqueueLookup
  <2>2. ASSUME NEW a \in Actors, RecoverRead(a) \/ RecoverCommit(a) \/ TxAbort(a) PROVE UNCHANGED <<jobs, ledger>>
    BY <2>2 DEF RecoverRead, RecoverCommit, TxAbort
  <2>3. ASSUME NEW w \in Workers, Worker(w) PROVE Goal
    <3>1. CASE \/ ClaimNothing(w) \/ FirstHeartbeatThrows(w) \/ SendHeartbeat(w) \/ HeartbeatLost(w)
               \/ HandlerReturns(w) \/ HandlerThrows(w) \/ RetryOrFailThrows(w) \/ Crash(w) \/ Restart(w)
      BY <1>1, <3>1 DEF ClaimNothing, FirstHeartbeatThrows, SendHeartbeat, HeartbeatLost,
         HandlerReturns, HandlerThrows, RetryOrFailThrows, Crash, Restart
    <3>2. CASE Finish(w) \/ FinishThrows(w)
      BY <1>1, <1>7, <3>2 DEF Finish, FinishThrows
    <3> HIDE DEF Goal
    <3> QED
      BY <1>4, <1>5, <1>6, <1>8, <2>3, <3>1, <3>2 DEF Worker
  <2> HIDE DEF Goal
  <2>4. Goal
    BY <1>1, <1>2, <1>3, <1>9, <1>10, <2>1, <2>2, <2>3 DEF Next, Recovery
  <2> QED
    BY <2>4 DEF Goal

----------------------------------------------------------------------------
(* The attempt history agrees with the jobs: the inductive invariant is      *)
(* AttemptLedger itself, next to the types.                                  *)
LEMMA LedgerStep == TypeOK /\ AttemptLedger /\ [Next]_vars => AttemptLedger'
<1> SUFFICES ASSUME TypeOK, AttemptLedger, [Next]_vars, NEW j \in Jobs
             PROVE  /\ jobs'[j].attempts = jobs'[j].version
                    /\ jobs'[j].attempts <= MaxAttempts[j]
                    /\ \A n \in 1..AttemptLimit :
                         /\ ledger'[j][n] = None <=> n > jobs'[j].attempts
                         /\ ledger'[j][n] = "RUNNING" <=> n = jobs'[j].attempts /\ jobs'[j].status = "RUNNING"
                         /\ ledger'[j][n] = "SUCCEEDED" <=> n = jobs'[j].attempts /\ jobs'[j].status = "SUCCEEDED"
  BY DEF AttemptLedger
<1>1. jobs[j] \in Row /\ ledger[j] \in [1..AttemptLimit -> Outcome] /\ RowStep(j)
  BY RowSteps DEF TypeOK, RowsOK, LedgerOK
<1>2. jobs[j].attempts \in Nat /\ jobs[j].version \in Nat /\ MaxAttempts[j] \in 1..AttemptLimit
  BY <1>1, LimitsAssumption DEF Row
<1>3. CASE Kept(j)
  BY <1>3 DEF Kept, AttemptLedger
<1>4. CASE Inserted(j)
  BY <1>2, <1>4, NoneAssumption DEF Inserted, AttemptLedger
<1>5. CASE Claimed(j)
  <2> DEFINE m == jobs[j].attempts + 1
  <2>1. m \in 1..AttemptLimit /\ m <= MaxAttempts[j] /\ jobs'[j].version = m /\ jobs'[j].attempts = m
    BY <1>2, <1>5, LimitsAssumption DEF Claimed, AttemptLedger
  <2>2. \A n \in 1..AttemptLimit : ledger'[j][n] = IF n = m THEN "RUNNING" ELSE ledger[j][n]
    BY <1>1, <1>5, <2>1 DEF Claimed
  <2>3. \A n \in 1..AttemptLimit : /\ ledger[j][n] = None <=> n >= m
                                   /\ ledger[j][n] # "RUNNING" /\ ledger[j][n] # "SUCCEEDED"
    BY <1>2, <1>5 DEF Claimed, AttemptLedger
  <2> HIDE DEF m
  <2>4. \A n \in 1..AttemptLimit : /\ ledger'[j][n] = None <=> n > m
                                   /\ ledger'[j][n] = "RUNNING" <=> n = m
                                   /\ ledger'[j][n] # "SUCCEEDED"
    BY <2>1, <2>2, <2>3, NoneAssumption, LimitsAssumption
  <2> QED
    BY <1>5, <2>1, <2>4, LimitsAssumption DEF Claimed
<1>6. CASE Released(j)
  BY <1>1, <1>2, <1>6, NoneAssumption DEF Released, AttemptLedger
<1> QED
  BY <1>1, <1>3, <1>4, <1>5, <1>6 DEF RowStep

(* The attempt history agrees with the job in every reachable state.         *)
THEOREM LedgerCorrect == Spec => []AttemptLedger
<1>1. Init => AttemptLedger
  BY NoneAssumption, LimitsAssumption DEF Init, AttemptLedger, NoRow, MkRow
<1> QED
  BY <1>1, TypeCorrect, LedgerStep, PTL DEF Spec

(* A job that succeeded or failed for good is never changed again.           *)
THEOREM TerminalStays == Spec => TerminalIsFinal
<1>1. TypeOK /\ AttemptLedger /\ [Next]_vars =>
        [\A j \in Jobs : jobs[j].status \in Terminal => jobs'[j].status = jobs[j].status]_vars
  <2> SUFFICES ASSUME TypeOK, AttemptLedger, [Next]_vars, NEW j \in Jobs, jobs[j].status \in Terminal
               PROVE  jobs'[j].status = jobs[j].status
    OBVIOUS
  <2> QED
    BY RowSteps, NoneAssumption DEF RowStep, Kept, Inserted, Claimed, Released, Terminal
<1> QED
  BY <1>1, TypeCorrect, LedgerCorrect, PTL DEF Spec, TerminalIsFinal

(* Deduplication: no two active jobs ever share an active key.               *)
THEOREM KeysStayUnique == Spec => []OneActivePerKey
<1>1. Init => OneActivePerKey
  BY NoneAssumption DEF Init, OneActivePerKey, NoRow, MkRow, Active
<1>2. TypeOK /\ AttemptLedger /\ OneActivePerKey /\ [Next]_vars => OneActivePerKey'
  <2> SUFFICES ASSUME TypeOK, AttemptLedger, OneActivePerKey, [Next]_vars,
                      NEW j \in Jobs, NEW k \in Jobs, Key[j] # None, Key[k] = Key[j],
                      jobs'[j].status \in Active, jobs'[k].status \in Active
               PROVE  j = k
    BY DEF OneActivePerKey
  <2>1. RowStep(j) /\ RowStep(k)
    BY RowSteps
  <2>2. \A i \in Jobs : RowStep(i) /\ ~Inserted(i) /\ jobs'[i].status \in Active => jobs[i].status \in Active
    BY DEF RowStep, Kept, Claimed, Released, Active
  <2>3. CASE Inserted(j)
    BY <2>3 DEF Inserted, Conflicts
  <2>4. CASE Inserted(k)
    BY <2>4 DEF Inserted, Conflicts
  <2>5. CASE ~Inserted(j) /\ ~Inserted(k)
    BY <2>1, <2>2, <2>5 DEF OneActivePerKey
  <2> QED
    BY <2>3, <2>4, <2>5
<1> QED
  BY <1>1, <1>2, TypeCorrect, LedgerCorrect, PTL DEF Spec

----------------------------------------------------------------------------
(***************************************************************************)
(* The leases are safe, and with them the queue keeps the promise of       *)
(* JobQueue.                                                               *)
(***************************************************************************)

(* A worker owns a job from its claim until it leaves runOnce.               *)
Owners ==
  \A w \in Workers : pc[w] \in {"idle", "recovering", "down"} => own[w] = NoOwner

(* No heartbeat is older than a statement may be.                            *)
Young == \A w \in Workers : beat[w].age <= TxTimeout

LeaseInv ==
  TypeOK /\ AttemptLedger /\ Owners /\ Young /\ Fencing /\ TimelyReads /\ NotStranded

----------------------------------------------------------------------------
(* Attempts and versions only grow.                                          *)
LEMMA RowsGrow ==
  ASSUME TypeOK, AttemptLedger, [Next]_vars, NEW j \in Jobs
  PROVE  jobs[j].attempts <= jobs'[j].attempts /\ jobs[j].version <= jobs'[j].version
<1>1. jobs[j].attempts \in Nat /\ jobs[j].version \in Nat /\ jobs[j].attempts = jobs[j].version
  BY DEF TypeOK, RowsOK, Row, AttemptLedger
<1>2. RowStep(j)
  BY RowSteps
<1> QED
  BY <1>1, <1>2 DEF RowStep, Kept, Inserted, Claimed, Released

(* The claim of a job, as the other lemmas use it.                           *)
LEMMA ClaimStep ==
  ASSUME TypeOK, NEW w \in Workers, ClaimNext(w)
  PROVE  /\ InTime(w) /\ seen[w] = {}
         /\ \E j \in Jobs :
              /\ jobs[j].status \in {"PENDING", "RETRY_WAIT"} /\ jobs[j].attempts < MaxAttempts[j]
              /\ jobs' = [jobs EXCEPT ![j] = Leased(jobs[j], w)]
              /\ jobs'[j] = Leased(jobs[j], w)
              /\ own' = [own EXCEPT ![w] = [job |-> j, version |-> jobs'[j].version]]
              /\ pc' = [pc EXCEPT ![w] = "claimed"] /\ UNCHANGED <<request, age, seen, beat>>
<1>1. PICK j \in Jobs : /\ Claim(w, j) /\ jobs[j].status \in {"PENDING", "RETRY_WAIT"}
                        /\ jobs[j].attempts < MaxAttempts[j]
  BY DEF ClaimNext, Best, Candidates
<1>2. jobs'[j] = Leased(jobs[j], w) /\ jobs' = [jobs EXCEPT ![j] = Leased(jobs[j], w)]
  BY <1>1 DEF Claim, TypeOK, RowsOK
<1> QED
  BY <1>1, <1>2 DEF Claim, ClaimNext

(* A step gives one worker a new version of a job, or takes jobs from        *)
(* workers, or leaves them.                                                  *)
OwnKept == \A w \in Workers : own'[w] \in {own[w], NoOwner}
OwnTaken == \E v \in Workers, j \in Jobs :
  /\ jobs'[j].version = jobs[j].version + 1
  /\ own' = [own EXCEPT ![v] = [job |-> j, version |-> jobs'[j].version]]

LEMMA OwnSteps ==
  ASSUME TypeOK, [Next]_vars
  PROVE  OwnKept \/ OwnTaken
<1>1. ASSUME NEW w \in Workers, ClaimNext(w) PROVE OwnTaken
  <2>1. PICK j \in Jobs : /\ jobs'[j] = Leased(jobs[j], w)
                          /\ own' = [own EXCEPT ![w] = [job |-> j, version |-> jobs'[j].version]]
    BY <1>1, ClaimStep
  <2>2. jobs[j] \in Row /\ ProcessesOK
    BY DEF TypeOK, RowsOK
  <2>3. jobs'[j].version = jobs[j].version + 1
    BY <2>1, <2>2, LeasedRow
  <2> QED
    BY <2>1, <2>3 DEF OwnTaken
<1>2. ASSUME NEW w \in Workers, Release(w) PROVE OwnKept
  BY <1>2 DEF Release, OwnKept, TypeOK, ProcessesOK
<1>3. ASSUME UNCHANGED own PROVE OwnKept
  BY <1>3 DEF OwnKept
<1>4. ASSUME NEW w \in Workers, Worker(w) PROVE OwnKept \/ OwnTaken
  <2>1. CASE Crash(w)
    BY <2>1 DEF Crash, OwnKept, TypeOK, ProcessesOK
  <2>2. CASE FirstHeartbeatThrows(w) \/ Finish(w) \/ RetryOrFail(w) \/ RetryOrFailThrows(w)
    BY <1>2, <2>2 DEF FirstHeartbeatThrows, Finish, RetryOrFail, RetryOrFailThrows
  <2>3. CASE \/ ClaimNothing(w) \/ FirstHeartbeat(w) \/ SendHeartbeat(w) \/ Heartbeat(w) \/ HeartbeatLost(w)
             \/ HandlerReturns(w) \/ HandlerThrows(w) \/ FinishThrows(w) \/ Restart(w)
    BY <1>3, <2>3 DEF ClaimNothing, FirstHeartbeat, SendHeartbeat, Heartbeat, HeartbeatLost,
       HandlerReturns, HandlerThrows, FinishThrows, Restart
  <2> QED
    BY <1>1, <1>4, <2>1, <2>2, <2>3 DEF Worker
<1>5. ASSUME NEW a \in Actors, Recovery(a) PROVE OwnKept
  BY <1>3, <1>5 DEF Recovery, RecoverRead, RecoverCommit, TxAbort, RecoverOne
<1>6. ASSUME NEW j \in Jobs, EnqueueInsert(j) \/ EnqueueConflict(j) \/ EnqueueLookup(j) PROVE OwnKept
  BY <1>3, <1>6 DEF EnqueueInsert, EnqueueConflict, EnqueueLookup
<1>7. CASE Tick \/ UNCHANGED vars
  BY <1>3, <1>7 DEF Tick, vars
<1> QED
  BY <1>4, <1>5, <1>6, <1>7 DEF Next

(* A heartbeat names what its worker owned when it was sent.                 *)
LEMMA BeatSteps ==
  ASSUME TypeOK, [Next]_vars, NEW w \in Workers
  PROVE  \/ beat'[w] = NoBeat
         \/ beat'[w].job = beat[w].job /\ beat'[w].version = beat[w].version
         \/ beat'[w].job = own[w].job /\ beat'[w].version = own[w].version
<1> DEFINE Goal == \/ beat'[w] = NoBeat
                   \/ beat'[w].job = beat[w].job /\ beat'[w].version = beat[w].version
                   \/ beat'[w].job = own[w].job /\ beat'[w].version = own[w].version
<1>1. ASSUME UNCHANGED beat PROVE Goal
  BY <1>1
<1>2. ASSUME NEW v \in Workers, SendHeartbeat(v) PROVE Goal
  BY <1>2 DEF SendHeartbeat, TypeOK, ProcessesOK
<1>3. ASSUME NEW v \in Workers, Heartbeat(v) \/ HeartbeatLost(v) PROVE Goal
  BY <1>3 DEF Heartbeat, HeartbeatLost, TypeOK, ProcessesOK
<1>4. ASSUME Tick PROVE Goal
  BY <1>4 DEF Tick
<1>5. ASSUME NEW v \in Workers, Worker(v) PROVE Goal
  <2>1. CASE \/ ClaimNothing(v) \/ ClaimNext(v) \/ FirstHeartbeat(v) \/ FirstHeartbeatThrows(v)
             \/ HandlerReturns(v) \/ HandlerThrows(v) \/ Finish(v) \/ FinishThrows(v)
             \/ RetryOrFail(v) \/ RetryOrFailThrows(v) \/ Crash(v) \/ Restart(v)
    BY <1>1, <2>1 DEF ClaimNothing, ClaimNext, Claim, FirstHeartbeat, FirstHeartbeatThrows, HandlerReturns,
       HandlerThrows, Finish, FinishThrows, RetryOrFail, RetryOrFailThrows, Crash, Restart
  <2> QED
    BY <1>2, <1>3, <1>5, <2>1 DEF Worker
<1>6. ASSUME NEW a \in Actors, Recovery(a) PROVE Goal
  BY <1>1, <1>6 DEF Recovery, RecoverRead, RecoverCommit, TxAbort, RecoverOne
<1>7. ASSUME NEW j \in Jobs, EnqueueInsert(j) \/ EnqueueConflict(j) \/ EnqueueLookup(j) PROVE Goal
  BY <1>1, <1>7 DEF EnqueueInsert, EnqueueConflict, EnqueueLookup
<1>8. ASSUME UNCHANGED vars PROVE Goal
  BY <1>1, <1>8 DEF vars
<1> HIDE DEF Goal
<1>9. Goal
  BY <1>4, <1>5, <1>6, <1>7, <1>8 DEF Next, vars
<1> QED
  BY <1>9 DEF Goal

(* Versions fence: two workers never hold the same version of one job.       *)
LEMMA FencingStep == TypeOK /\ AttemptLedger /\ Fencing /\ [Next]_vars => Fencing'
<1> SUFFICES ASSUME TypeOK, AttemptLedger, Fencing, [Next]_vars PROVE Fencing'
  OBVIOUS
<1>1. /\ own \in [Workers -> [job : Jobs \cup {None}, version : Nat]]
      /\ beat \in [Workers -> [job : Jobs \cup {None}, version : Nat, age : Nat]]
      /\ \A j \in Jobs : jobs[j].version \in Nat
  BY DEF TypeOK, ProcessesOK, RowsOK, Row
<1>2. \A j \in Jobs : jobs[j].version <= jobs'[j].version
  BY RowsGrow
<1>3. TypeOK'
  BY TypeStep
<1>4. \A j \in Jobs : jobs'[j].version \in Nat
  BY <1>3 DEF TypeOK, RowsOK, Row
<1>5. ASSUME NEW w \in Workers, beat'[w].job # None PROVE beat'[w].version <= jobs'[beat'[w].job].version
  BY <1>1, <1>2, <1>4, <1>5, BeatSteps, NoneAssumption DEF Fencing, NoBeat
<1>6. CASE OwnKept
  <2>1. ASSUME NEW w \in Workers, own'[w].job # None
        PROVE  /\ own'[w].version <= jobs'[own'[w].job].version
               /\ \A v \in Workers \ {w} : own'[v].job = own'[w].job => own'[v].version # own'[w].version
    <3>1. own'[w] = own[w]
      BY <1>6, <2>1 DEF OwnKept, NoOwner
    <3>2. \A v \in Workers \ {w} : own'[v].job = own'[w].job => own'[v] = own[v]
      BY <1>6, <2>1 DEF OwnKept, NoOwner
    <3> QED
      BY <1>1, <1>2, <1>4, <2>1, <3>1, <3>2 DEF Fencing
  <2> QED
    BY <1>5, <2>1 DEF Fencing
<1>7. CASE OwnTaken
  <2>1. PICK v \in Workers, j \in Jobs :
          /\ jobs'[j].version = jobs[j].version + 1
          /\ own' = [own EXCEPT ![v] = [job |-> j, version |-> jobs'[j].version]]
    BY <1>7 DEF OwnTaken
  <2>2. own'[v] = [job |-> j, version |-> jobs'[j].version] /\ \A u \in Workers \ {v} : own'[u] = own[u]
    BY <1>1, <2>1
  <2>3. \A u \in Workers : own[u].job = j => own[u].version < jobs'[j].version
    BY <1>1, <1>4, <2>1, ActorsAssumption DEF Fencing
  <2>4. ASSUME NEW w \in Workers, own'[w].job # None
        PROVE  /\ own'[w].version <= jobs'[own'[w].job].version
               /\ \A u \in Workers \ {w} : own'[u].job = own'[w].job => own'[u].version # own'[w].version
    <3>1. CASE w = v
      BY <1>1, <1>4, <2>2, <2>3, <3>1
    <3>2. CASE w # v
      BY <1>1, <1>2, <1>4, <2>2, <2>3, <2>4, <3>2 DEF Fencing
    <3> QED
      BY <3>1, <3>2
  <2> QED
    BY <1>5, <2>4 DEF Fencing
<1> QED
  BY <1>6, <1>7, OwnSteps

----------------------------------------------------------------------------
(* Who does not run a job owns none; no heartbeat is older than a statement  *)
(* may be.                                                                   *)
LEMMA OwnersStep == TypeOK /\ Owners /\ [Next]_vars => Owners'
<1> SUFFICES ASSUME TypeOK, Owners, [Next]_vars PROVE Owners'
  OBVIOUS
<1> USE DEF TypeOK, ProcessesOK
<1>1. ASSUME UNCHANGED own, \A w \in Workers : pc'[w] \in {"idle", "recovering", "down"} =>
                                               pc[w] \in {"idle", "recovering", "down"}
      PROVE Owners'
  BY <1>1 DEF Owners
<1>2. ASSUME NEW w \in Workers, Worker(w) PROVE Owners'
  <2>1. CASE ClaimNext(w)
    BY <2>1, ClaimStep, ActorsAssumption DEF Owners, Actors
  <2>2. CASE FirstHeartbeatThrows(w) \/ Finish(w) \/ RetryOrFail(w) \/ RetryOrFailThrows(w) \/ Crash(w)
    BY <2>2 DEF FirstHeartbeatThrows, Finish, RetryOrFail, RetryOrFailThrows, Crash, Release, Owners, Actors
  <2>3. CASE \/ ClaimNothing(w) \/ FirstHeartbeat(w) \/ SendHeartbeat(w) \/ Heartbeat(w) \/ HeartbeatLost(w)
             \/ HandlerReturns(w) \/ HandlerThrows(w) \/ FinishThrows(w) \/ Restart(w)
    BY <1>1, <2>3 DEF ClaimNothing, FirstHeartbeat, SendHeartbeat, Heartbeat, HeartbeatLost,
       HandlerReturns, HandlerThrows, FinishThrows, Restart, InTime, Actors
  <2> QED
    BY <1>2, <2>1, <2>2, <2>3 DEF Worker
<1>3. ASSUME NEW a \in Actors, Recovery(a) PROVE Owners'
  BY <1>1, <1>3 DEF Recovery, RecoverRead, RecoverCommit, TxAbort, RecoverOne, InTime, Actors
<1>4. ASSUME NEW j \in Jobs, EnqueueInsert(j) \/ EnqueueConflict(j) \/ EnqueueLookup(j) PROVE Owners'
  BY <1>1, <1>4 DEF EnqueueInsert, EnqueueConflict, EnqueueLookup
<1>5. ASSUME Tick \/ UNCHANGED vars PROVE Owners'
  BY <1>1, <1>5 DEF Tick, vars
<1> QED
  BY <1>2, <1>3, <1>4, <1>5 DEF Next

LEMMA YoungStep == TypeOK /\ Young /\ [Next]_vars => Young'
<1> SUFFICES ASSUME TypeOK, Young, [Next]_vars PROVE Young'
  OBVIOUS
<1> USE LimitsAssumption DEF TypeOK, ProcessesOK, Young
<1>1. ASSUME UNCHANGED beat PROVE Young'
  BY <1>1
<1>2. ASSUME NEW v \in Workers, SendHeartbeat(v) \/ Heartbeat(v) \/ HeartbeatLost(v) PROVE Young'
  <2>1. PICK b \in [job : Jobs \cup {None}, version : Nat, age : {0}] : beat' = [beat EXCEPT ![v] = b]
    BY <1>2 DEF SendHeartbeat, Heartbeat, HeartbeatLost, NoBeat
  <2>2. b.age = 0
    OBVIOUS
  <2> QED
    BY <2>1, <2>2
<1>3. ASSUME Tick PROVE Young'
  BY <1>3 DEF Tick, NoBeat
<1>4. ASSUME NEW v \in Workers, Worker(v) PROVE Young'
  <2>1. CASE \/ ClaimNothing(v) \/ ClaimNext(v) \/ FirstHeartbeat(v) \/ FirstHeartbeatThrows(v)
             \/ HandlerReturns(v) \/ HandlerThrows(v) \/ Finish(v) \/ FinishThrows(v)
             \/ RetryOrFail(v) \/ RetryOrFailThrows(v) \/ Crash(v) \/ Restart(v)
    BY <1>1, <2>1 DEF ClaimNothing, ClaimNext, Claim, FirstHeartbeat, FirstHeartbeatThrows, HandlerReturns,
       HandlerThrows, Finish, FinishThrows, RetryOrFail, RetryOrFailThrows, Crash, Restart
  <2> QED
    BY <1>2, <1>4, <2>1 DEF Worker
<1>5. ASSUME NEW a \in Actors, Recovery(a) PROVE Young'
  BY <1>1, <1>5 DEF Recovery, RecoverRead, RecoverCommit, TxAbort, RecoverOne
<1>6. ASSUME NEW j \in Jobs, EnqueueInsert(j) \/ EnqueueConflict(j) \/ EnqueueLookup(j) PROVE Young'
  BY <1>1, <1>6 DEF EnqueueInsert, EnqueueConflict, EnqueueLookup
<1>7. ASSUME UNCHANGED vars PROVE Young'
  BY <1>1, <1>7 DEF vars
<1> QED
  BY <1>3, <1>4, <1>5, <1>6, <1>7 DEF Next

----------------------------------------------------------------------------
(* What TimelyReads says of one row an open transaction has read.            *)
Timely(a, r) ==
  /\ r.attempts <= jobs[r.job].attempts
  /\ r.attempts < jobs[r.job].attempts /\ InTime(a) =>
       /\ ~Expired(r.job, a)
       /\ \A w \in Workers :
            pc[w] = "claimed" /\ own[w].job = r.job /\ Holds(own[w], w) => age[w] <= TxTimeout + age[a]

(* Steps that leave the clock of the transaction alone, start no claim, and  *)
(* at most end a lease or make it longer.                                    *)
ClocksKept(a) ==
  /\ pc'[a] = "recovering" => pc[a] = "recovering" /\ age'[a] = age[a]
  /\ \A w \in Workers : pc'[w] = "claimed" => pc[w] = "claimed" /\ own'[w] = own[w] /\ age'[w] = age[w]
LeaseKept(a, j) ==
  /\ jobs'[j].attempts = jobs[j].attempts
  /\ jobs'[j].status = "RUNNING" =>
       /\ jobs[j].status = "RUNNING" /\ jobs'[j].by = jobs[j].by /\ jobs'[j].version = jobs[j].version
       /\ jobs'[j].ttl >= jobs[j].ttl \/ jobs'[j].ttl >= -age[a]

LEMMA TimelyKept ==
  ASSUME TypeOK, TypeOK', NEW a \in Actors, NEW r \in seen[a], Timely(a, r), ClocksKept(a), LeaseKept(a, r.job)
  PROVE  Timely(a, r)'
<1>1. /\ r.job \in Jobs /\ r.attempts \in Nat
      /\ age[a] \in Nat
      /\ jobs[r.job].ttl \in Int /\ jobs'[r.job].ttl \in Int
  BY DEF TypeOK, ProcessesOK, RowsOK, Row
<1>2. InTime(a)' => InTime(a) /\ age'[a] = age[a]
  BY DEF ClocksKept, InTime
<1>3. ASSUME InTime(a)', Expired(r.job, a)' PROVE Expired(r.job, a)
  BY <1>1, <1>2, <1>3 DEF Expired, LeaseKept
<1>4. ASSUME NEW w \in Workers, pc'[w] = "claimed", Holds(own[w], w)', own'[w].job = r.job
      PROVE  pc[w] = "claimed" /\ own[w].job = r.job /\ Holds(own[w], w) /\ age'[w] = age[w]
  BY <1>4 DEF ClocksKept, LeaseKept, Holds
<1> QED
  BY <1>2, <1>3, <1>4 DEF Timely, LeaseKept

(* A statement that ends a lease, or writes no RUNNING row.                  *)
LEMMA EndedLease ==
  ASSUME TypeOK, NEW a \in Actors, NEW j \in Jobs, NEW k \in Jobs, NEW row \in Row, row.status # "RUNNING",
         row.attempts = jobs[j].attempts, jobs' = [jobs EXCEPT ![j] = row]
  PROVE  LeaseKept(a, k)
  BY DEF LeaseKept, TypeOK, RowsOK, Row

LEMMA CompleteKeeps ==
  ASSUME TypeOK, NEW a \in Actors, NEW k \in Jobs, NEW w \in Workers, Complete(w)
  PROVE  LeaseKept(a, k)
<1>1. CASE Holds(own[w], w)
  <2> DEFINE row == NoLease(jobs[own[w].job], "SUCCEEDED", 0)
  <2>1. own[w].job \in Jobs /\ jobs[own[w].job] \in Row
    BY <1>1 DEF Holds, TypeOK, ProcessesOK, RowsOK
  <2>2. row \in Row /\ row.status = "SUCCEEDED" /\ row.attempts = jobs[own[w].job].attempts
    BY <2>1, NoLeaseRow, 0 \in Int
  <2>3. jobs' = [jobs EXCEPT ![own[w].job] = row]
    BY <1>1 DEF Complete
  <2> HIDE DEF row
  <2> QED
    BY <2>1, <2>2, <2>3, EndedLease
<1>2. CASE ~Holds(own[w], w)
  BY <1>2 DEF Complete, LeaseKept, TypeOK, RowsOK, Row
<1> QED
  BY <1>1, <1>2

LEMMA RetryKeeps ==
  ASSUME TypeOK, NEW a \in Actors, NEW k \in Jobs, NEW w \in Workers, RetryOrFail(w)
  PROVE  LeaseKept(a, k)
<1>1. CASE Holds(own[w], w)
  <2> DEFINE j == own[w].job
  <2>1. j \in Jobs /\ jobs[j] \in Row
    BY <1>1 DEF Holds, TypeOK, ProcessesOK, RowsOK
  <2>2. PICK status \in {"FAILED", "RETRY_WAIT"}, wait \in Int :
          jobs' = [jobs EXCEPT ![j] = NoLease(jobs[j], status, wait)]
    BY <1>1, LimitsAssumption DEF RetryOrFail
  <2> DEFINE row == NoLease(jobs[j], status, wait)
  <2>3. row \in Row /\ row.status = status /\ row.attempts = jobs[j].attempts
    <3> HIDE DEF j
    <3>1. PICK old \in Row : old = jobs[j]
      BY <2>1
    <3>2. status \in {"RETRY_WAIT", "SUCCEEDED", "FAILED"} /\ wait \in Int /\ old \in Row
      BY <2>2
    <3>3. /\ NoLease(old, status, wait) \in Row /\ NoLease(old, status, wait).status = status
          /\ NoLease(old, status, wait).attempts = old.attempts
      BY <3>2, NoLeaseRow
    <3> QED
      BY <3>1, <3>3
  <2>4. jobs' = [jobs EXCEPT ![j] = row]
    BY <2>2
  <2> HIDE DEF row, j
  <2> QED
    BY <2>1, <2>3, <2>4, EndedLease
<1>2. CASE ~Holds(own[w], w)
  BY <1>2 DEF RetryOrFail, LeaseKept, TypeOK, RowsOK, Row
<1> QED
  BY <1>1, <1>2

LEMMA RecoverOneKeeps ==
  ASSUME TypeOK, NEW a \in Actors, NEW k \in Jobs, NEW b \in Actors, NEW r \in seen[b], RecoverOne(b, r)
  PROVE  LeaseKept(a, k)
<1>1. r.job \in Jobs /\ jobs[r.job] \in Row /\ -age[b] \in Int /\ 0 \in Int
  BY DEF TypeOK, ProcessesOK, RowsOK
<1>2. CASE Expired(r.job, b)
  <2>1. PICK status \in {"FAILED", "RETRY_WAIT"}, wait \in Int :
          jobs' = [jobs EXCEPT ![r.job] = NoLease(jobs[r.job], status, wait)]
    BY <1>1, <1>2 DEF RecoverOne
  <2>2. PICK old \in Row : old = jobs[r.job]
    BY <1>1
  <2> DEFINE row == NoLease(old, status, wait)
  <2>3. row \in Row /\ row.status = status /\ row.attempts = old.attempts
    <3>1. status \in {"RETRY_WAIT", "SUCCEEDED", "FAILED"} /\ wait \in Int /\ old \in Row
      BY <2>1
    <3> QED
      BY <3>1, NoLeaseRow
  <2>4. jobs' = [jobs EXCEPT ![r.job] = row]
    BY <2>1, <2>2
  <2> HIDE DEF row
  <2> QED
    BY <1>1, <2>2, <2>3, <2>4, EndedLease
<1>3. CASE ~Expired(r.job, b)
  BY <1>3 DEF RecoverOne, LeaseKept, TypeOK, RowsOK, Row
<1> QED
  BY <1>2, <1>3

(* A heartbeat that lands makes the lease outlast every open transaction.    *)
LEMMA HeartbeatKeeps ==
  ASSUME TypeOK, Young, NEW a \in Actors, NEW k \in Jobs, NEW w \in Workers, Heartbeat(w)
  PROVE  LeaseKept(a, k)
<1> DEFINE o == Owner(beat[w])
<1>1. /\ o \in [job : Jobs \cup {None}, version : Nat] /\ beat[w].age \in Nat /\ beat[w].age <= TxTimeout
      /\ age[a] \in Nat
  BY DEF TypeOK, ProcessesOK, Owner, Young
<1>2. CASE Holds(o, w)
  <2> DEFINE row == MkRow("RUNNING", jobs[o.job].attempts, w, jobs[o.job].version,
                          Above(HandlerLease[o.job] - beat[w].age), 0)
  <2>1. o.job \in Jobs /\ jobs[o.job] \in Row /\ jobs[o.job].status = "RUNNING" /\ jobs[o.job].by = w
    BY <1>1, <1>2 DEF Holds, TypeOK, RowsOK
  <2>2. HandlerLease[o.job] \in Nat /\ TxTimeout <= HandlerLease[o.job]
    BY <2>1, LimitsAssumption, LeaseAssumption
  <2>3. row.status = "RUNNING" /\ row.attempts = jobs[o.job].attempts /\ row.by = w
        /\ row.version = jobs[o.job].version /\ row.ttl >= 0 /\ row.ttl \in Int
    BY <1>1, <2>1, <2>2, LimitsAssumption DEF MkRow, Above, Floor
  <2>4. jobs' = [jobs EXCEPT ![o.job] = row]
    BY <1>2 DEF Heartbeat, Renew
  <2>5. jobs'[o.job] = row /\ \A j \in Jobs \ {o.job} : jobs'[j] = jobs[j]
    BY <2>1, <2>4 DEF TypeOK, RowsOK
  <2> HIDE DEF row, o
  <2>6. CASE k = o.job
    BY <1>1, <2>1, <2>3, <2>5, <2>6 DEF LeaseKept, MkRow
  <2>7. CASE k # o.job
    BY <2>5, <2>7 DEF LeaseKept, TypeOK, RowsOK, Row
  <2> QED
    BY <2>6, <2>7
<1>3. CASE ~Holds(o, w)
  BY <1>3 DEF Heartbeat, Renew, LeaseKept, TypeOK, RowsOK, Row
<1> QED
  BY <1>2, <1>3

(* A claim made meanwhile gives a lease that outlasts the transaction: its   *)
(* own transaction is young.                                                 *)
LEMMA ClaimTimely ==
  ASSUME TypeOK, TypeOK', NEW a \in Actors, NEW r \in seen[a], Timely(a, r), NEW v \in Workers, ClaimNext(v)
  PROVE  Timely(a, r)'
<1>1. PICK j \in Jobs :
        /\ jobs[j].status \in {"PENDING", "RETRY_WAIT"}
        /\ jobs' = [jobs EXCEPT ![j] = Leased(jobs[j], v)] /\ jobs'[j] = Leased(jobs[j], v)
        /\ own' = [own EXCEPT ![v] = [job |-> j, version |-> jobs'[j].version]]
        /\ pc' = [pc EXCEPT ![v] = "claimed"] /\ UNCHANGED age
  BY ClaimStep
<1>2. v \in Actors /\ age[v] \in Nat /\ age[v] <= TxTimeout /\ age[a] \in Nat
  BY DEF ClaimNext, InTime, TypeOK, ProcessesOK, Actors
<1>3. /\ jobs'[j].status = "RUNNING" /\ jobs'[j].by = v /\ jobs'[j].attempts = jobs[j].attempts + 1
      /\ jobs'[j].ttl \in Int /\ jobs'[j].ttl >= 0
  BY <1>1, <1>2, LeasedRow, LeaseAssumption, LimitsAssumption DEF TypeOK, RowsOK, Row
<1>4. InTime(a)' => InTime(a)
  BY <1>1 DEF InTime, TypeOK, ProcessesOK
<1>5. CASE r.job = j
  <2>1. r.attempts \in Nat /\ jobs[j].attempts \in Nat
    BY <1>5 DEF TypeOK, ProcessesOK, RowsOK, Row
  <2>2. r.attempts <= jobs'[j].attempts /\ ~Expired(j, a)'
    BY <1>1, <1>2, <1>3, <1>5, <2>1 DEF Timely, Expired
  <2>3. ASSUME NEW w \in Workers, Holds(own[w], w)', own'[w].job = j PROVE age'[w] <= TxTimeout + age'[a]
    <3>1. w = v
      BY <1>3, <2>3 DEF Holds
    <3> QED
      BY <1>1, <1>2, <3>1, LimitsAssumption
  <2> QED
    BY <1>5, <2>2, <2>3 DEF Timely
<1>6. CASE r.job # j
  <2>1. r.job \in Jobs /\ jobs'[r.job] = jobs[r.job]
    BY <1>1, <1>6 DEF TypeOK, ProcessesOK, RowsOK
  <2>2. \A w \in Workers : own'[w].job = r.job => pc'[w] = pc[w] /\ own'[w] = own[w]
    BY <1>1, <1>6 DEF TypeOK, ProcessesOK, Actors
  <2> QED
    BY <1>1, <1>4, <2>1, <2>2 DEF Timely, Expired, Holds
<1> QED
  BY <1>5, <1>6

(* The first heartbeat uses the old `now` of its claim, yet still outlasts   *)
(* a transaction that began before the claim.                                *)
LEMMA FirstHeartbeatTimely ==
  ASSUME TypeOK, TypeOK', NEW a \in Actors, NEW r \in seen[a], Timely(a, r), NEW v \in Workers, FirstHeartbeat(v)
  PROVE  Timely(a, r)'
<1> DEFINE o == own[v]
<1>1. /\ Renew(o, v, age[v]) /\ pc[v] = "claimed" /\ own' = own
      /\ pc' = [pc EXCEPT ![v] = "executing"] /\ age' = [age EXCEPT ![v] = 0]
  BY DEF FirstHeartbeat
<1>2. /\ o \in [job : Jobs \cup {None}, version : Nat] /\ age[v] \in Nat /\ age[a] \in Nat
      /\ r.job \in Jobs /\ r.attempts \in Nat /\ v \in Actors
  BY DEF TypeOK, ProcessesOK, Actors
<1>3. ASSUME NEW j \in Jobs
      PROVE  /\ jobs'[j].status = jobs[j].status /\ jobs'[j].attempts = jobs[j].attempts
             /\ jobs'[j].version = jobs[j].version /\ jobs'[j].by = jobs[j].by
  BY <1>1, <1>2, Renewed DEF TypeOK
<1>4. InTime(a)' => InTime(a) /\ a # v /\ age'[a] = age[a]
  BY <1>1, <1>2 DEF InTime, TypeOK, ProcessesOK
<1>5. ASSUME NEW w \in Workers, pc'[w] = "claimed", own'[w].job = r.job, Holds(own[w], w)'
      PROVE  pc[w] = "claimed" /\ own[w].job = r.job /\ Holds(own[w], w) /\ age'[w] = age[w]
  BY <1>1, <1>2, <1>3, <1>5 DEF Holds, TypeOK, ProcessesOK, Actors
<1>6. ASSUME InTime(a), r.attempts < jobs[r.job].attempts, age'[a] = age[a] PROVE ~Expired(r.job, a)'
  <2>1. CASE Holds(o, v) /\ o.job = r.job
    <3>1. age[v] <= TxTimeout + age[a]
      BY <1>1, <1>6, <2>1 DEF Timely
    <3>2. HandlerLease[r.job] \in Nat /\ TxTimeout <= HandlerLease[r.job]
      BY <1>2, LimitsAssumption, LeaseAssumption
    <3>3. jobs'[r.job].ttl = Above(HandlerLease[r.job] - age[v])
      BY <1>1, <1>2, <2>1 DEF Renew, MkRow, TypeOK, RowsOK
    <3> QED
      BY <1>2, <1>6, <3>1, <3>2, <3>3, LimitsAssumption DEF Expired, Above, Floor
  <2>2. CASE ~(Holds(o, v) /\ o.job = r.job)
    <3>1. jobs'[r.job] = jobs[r.job]
      BY <1>1, <1>2, <2>2 DEF Renew, TypeOK, RowsOK
    <3> QED
      BY <1>6, <3>1 DEF Expired, Timely
  <2> QED
    BY <2>1, <2>2
<1> QED
  BY <1>2, <1>3, <1>4, <1>5, <1>6 DEF Timely

(* The clock ages leases and transactions alike.                             *)
LEMMA TickTimely ==
  ASSUME TypeOK, TypeOK', NEW a \in Actors, NEW r \in seen[a], Timely(a, r), Tick
  PROVE  Timely(a, r)'
<1>1. /\ r.job \in Jobs /\ r.attempts \in Nat /\ age[a] \in Nat
      /\ jobs[r.job].ttl \in Int
  BY DEF TypeOK, ProcessesOK, RowsOK, Row
<1>2. /\ jobs'[r.job] = Older(jobs[r.job]) /\ UNCHANGED <<pc, own>>
      /\ \A b \in Actors : age'[b] = IF pc[b] \in {"recovering", "claimed"} THEN Sooner(age[b] + 1) ELSE age[b]
  BY <1>1 DEF Tick
<1>3. /\ jobs'[r.job].status = jobs[r.job].status /\ jobs'[r.job].attempts = jobs[r.job].attempts
      /\ jobs'[r.job].by = jobs[r.job].by /\ jobs'[r.job].version = jobs[r.job].version
      /\ jobs[r.job].status = "RUNNING" => jobs'[r.job].ttl >= jobs[r.job].ttl - 1
      /\ jobs'[r.job].ttl \in Int
  BY <1>1, <1>2, LimitsAssumption DEF Older, MkRow, Above, Floor
<1>4. AgeCap \in Nat /\ TxTimeout \in Nat /\ AgeCap > TxTimeout
  BY LeaseAssumption, LimitsAssumption
<1>5. ASSUME InTime(a)' PROVE InTime(a) /\ age'[a] = age[a] + 1
  BY <1>1, <1>2, <1>4, <1>5 DEF InTime, Sooner
<1>6. ASSUME InTime(a)', ~Expired(r.job, a) PROVE ~Expired(r.job, a)'
  BY <1>1, <1>3, <1>5, <1>6 DEF Expired
<1>7. ASSUME NEW w \in Workers, InTime(a)', age[w] <= TxTimeout + age[a], pc'[w] = "claimed"
      PROVE  age'[w] <= TxTimeout + age'[a]
  <2>1. w \in Actors /\ age[w] \in Nat
    BY DEF TypeOK, ProcessesOK, Actors
  <2> QED
    BY <1>1, <1>2, <1>4, <1>5, <1>7, <2>1 DEF Sooner
<1> QED
  BY <1>2, <1>3, <1>5, <1>6, <1>7 DEF Timely, Holds

LEMMA TimelyStep == TypeOK /\ AttemptLedger /\ Young /\ TimelyReads /\ [Next]_vars => TimelyReads'
<1> SUFFICES ASSUME TypeOK, AttemptLedger, Young, TimelyReads, [Next]_vars,
                    NEW a \in Actors, NEW r \in seen'[a]
             PROVE  Timely(a, r)'
  BY DEF TimelyReads, Timely
<1>1. TypeOK'
  BY TypeStep
<1>2. r \in seen[a] => Timely(a, r)
  BY DEF TimelyReads, Timely
<1>3. ASSUME seen'[a] \subseteq seen[a], ClocksKept(a), \A k \in Jobs : LeaseKept(a, k) PROVE Timely(a, r)'
  <2>1. r.job \in Jobs
    BY <1>3 DEF TypeOK, ProcessesOK
  <2> QED
    BY <1>1, <1>2, <1>3, <2>1, TimelyKept
<1>4. ASSUME UNCHANGED jobs PROVE \A k \in Jobs : LeaseKept(a, k)
  BY <1>4 DEF LeaseKept, TypeOK, RowsOK, Row
<1> DEFINE Goal == Timely(a, r)'
<1>5. ASSUME NEW j \in Jobs, EnqueueInsert(j) PROVE Goal
  <2>1. jobs[j].attempts = 0 /\ UNCHANGED <<seen, pc, age, own>>
    BY <1>5 DEF EnqueueInsert, TypeOK, RowsOK
  <2>2. PICK delay \in 0..MaxDelay : jobs' = [jobs EXCEPT ![j] = MkRow("PENDING", 0, None, 0, 0, delay)]
    BY <1>5 DEF EnqueueInsert
  <2>3. \A k \in Jobs : LeaseKept(a, k)
    BY <2>1, <2>2 DEF LeaseKept, MkRow, TypeOK, RowsOK, Row
  <2> QED
    BY <1>3, <2>1, <2>3 DEF ClocksKept
<1>6. ASSUME NEW b \in Actors, RecoverRead(b) PROVE Goal
  <2>1. UNCHANGED <<jobs, own>> /\ pc' = [pc EXCEPT ![b] = "recovering"] /\ age' = [age EXCEPT ![b] = 0]
    BY <1>6 DEF RecoverRead
  <2>2. CASE a = b
    <3>1. r.job \in Jobs /\ r.attempts = jobs[r.job].attempts /\ jobs[r.job].attempts \in Nat
      BY <1>6, <2>2 DEF RecoverRead, ExpiredAt, TypeOK, ProcessesOK, RowsOK, Row
    <3> QED
      BY <2>1, <3>1 DEF Timely
  <2>3. CASE a # b
    <3>1. seen'[a] = seen[a]
      BY <1>6, <2>3 DEF RecoverRead, TypeOK, ProcessesOK
    <3>2. ClocksKept(a)
      BY <2>1, <2>3 DEF ClocksKept, TypeOK, ProcessesOK, Actors
    <3> QED
      BY <1>3, <1>4, <2>1, <3>1, <3>2
  <2> QED
    BY <2>2, <2>3
<1>7. ASSUME NEW b \in Actors, NEW q \in seen[b], RecoverOne(b, q) PROVE Goal
  <2>1. \A k \in Jobs : LeaseKept(a, k)
    BY <1>7, RecoverOneKeeps
  <2>2. seen'[a] \subseteq seen[a] /\ ClocksKept(a)
    BY <1>7 DEF RecoverOne, ClocksKept, TypeOK, ProcessesOK
  <2> QED
    BY <1>3, <2>1, <2>2
<1>8. ASSUME NEW b \in Actors, RecoverCommit(b) \/ TxAbort(b) PROVE Goal
  <2>1. UNCHANGED jobs /\ seen'[a] \subseteq seen[a] /\ ClocksKept(a)
    BY <1>8 DEF RecoverCommit, TxAbort, ClocksKept, TypeOK, ProcessesOK, Actors
  <2> QED
    BY <1>3, <1>4, <2>1
<1>9. ASSUME NEW w \in Workers, Worker(w) PROVE Goal
  <2>1. ASSUME ClaimNext(w) PROVE Goal
    <3>1. UNCHANGED seen
      BY <2>1, ClaimStep
    <3> QED
      BY <1>1, <1>2, <2>1, <3>1, ClaimTimely
  <2>2. ASSUME FirstHeartbeat(w) PROVE Goal
    BY <1>1, <1>2, <2>2, FirstHeartbeatTimely DEF FirstHeartbeat
  <2>3. ASSUME Heartbeat(w) PROVE Goal
    BY <1>3, <2>3, HeartbeatKeeps DEF Heartbeat, ClocksKept
  <2>4. ASSUME \/ ClaimNothing(w) \/ FirstHeartbeatThrows(w) \/ SendHeartbeat(w) \/ HeartbeatLost(w)
               \/ HandlerReturns(w) \/ HandlerThrows(w) \/ RetryOrFailThrows(w) \/ Crash(w) \/ Restart(w)
        PROVE Goal
    <3>1. UNCHANGED jobs /\ seen'[a] \subseteq seen[a]
      BY <2>4 DEF ClaimNothing, FirstHeartbeatThrows, SendHeartbeat, HeartbeatLost,
         HandlerReturns, HandlerThrows, RetryOrFailThrows, Crash, Restart, TypeOK, ProcessesOK
    <3>2. ClocksKept(a)
      BY <2>4 DEF ClaimNothing, FirstHeartbeatThrows, SendHeartbeat, HeartbeatLost,
         HandlerReturns, HandlerThrows, RetryOrFailThrows, Crash, Restart, Release, ClocksKept,
         TypeOK, ProcessesOK, Actors
    <3> QED
      BY <1>3, <1>4, <3>1, <3>2
  <2>5. ASSUME Finish(w) \/ FinishThrows(w) PROVE Goal
    <3>1. \A k \in Jobs : LeaseKept(a, k)
      BY <1>4, <2>5, CompleteKeeps DEF Finish, FinishThrows
    <3>2. UNCHANGED seen /\ ClocksKept(a)
      BY <2>5 DEF Finish, FinishThrows, Release, ClocksKept, TypeOK, ProcessesOK, Actors
    <3> QED
      BY <1>3, <3>1, <3>2
  <2>6. ASSUME RetryOrFail(w) PROVE Goal
    <3>1. \A k \in Jobs : LeaseKept(a, k)
      BY <2>6, RetryKeeps
    <3>2. UNCHANGED seen /\ ClocksKept(a)
      BY <2>6 DEF RetryOrFail, Release, ClocksKept, TypeOK, ProcessesOK, Actors
    <3> QED
      BY <1>3, <3>1, <3>2
  <2> HIDE DEF Goal
  <2> QED
    BY <1>9, <2>1, <2>2, <2>3, <2>4, <2>5, <2>6 DEF Worker
<1>10. ASSUME Tick PROVE Goal
  BY <1>1, <1>2, <1>10, TickTimely DEF Tick
<1>11. ASSUME NEW j \in Jobs, EnqueueConflict(j) \/ EnqueueLookup(j) PROVE Goal
  <2>1. UNCHANGED <<jobs, seen, pc, age, own>>
    BY <1>11 DEF EnqueueConflict, EnqueueLookup
  <2> QED
    BY <1>3, <1>4, <2>1 DEF ClocksKept
<1>12. ASSUME UNCHANGED vars PROVE Goal
  <2>1. UNCHANGED <<jobs, seen, pc, age, own>>
    BY <1>12 DEF vars
  <2> QED
    BY <1>3, <1>4, <2>1 DEF ClocksKept
<1> HIDE DEF Goal
<1>13. Goal
  BY <1>5, <1>6, <1>7, <1>8, <1>9, <1>10, <1>11, <1>12 DEF Next, Recovery
<1> QED
  BY <1>13 DEF Goal

----------------------------------------------------------------------------
(* The refinement: the rows and the workers as JobQueue sees them.           *)
AsJob == [j \in Jobs |-> [status |-> QueueStatus[jobs[j].status], attempts |-> jobs[j].attempts]]
AsRun == [w \in Workers |-> [of |-> own[w].job, attempt |-> own[w].version]]

LEMMA RowStatuses ==
  /\ QueueStatus["RUNNING"] = "running"
  /\ QueueStatus["PENDING"] = "waiting" /\ QueueStatus["RETRY_WAIT"] = "waiting"
  /\ QueueStatus["SUCCEEDED"] = "succeeded" /\ QueueStatus["FAILED"] = "failed"
  /\ QueueStatus[None] = None
  BY NoneAssumption DEF QueueStatus, Active, Terminal

(* The table and the workers of the abstract queue after a statement.        *)
LEMMA JobsAsBefore ==
  ASSUME \A j \in Jobs : jobs'[j].status = jobs[j].status /\ jobs'[j].attempts = jobs[j].attempts
  PROVE  AsJob' = AsJob
  BY DEF AsJob

LEMMA OneJobChanges ==
  ASSUME TypeOK, NEW j \in Jobs, NEW row, jobs' = [jobs EXCEPT ![j] = row]
  PROVE  AsJob' = [AsJob EXCEPT ![j] = [status |-> QueueStatus[row.status], attempts |-> row.attempts]]
  BY DEF AsJob, TypeOK, RowsOK

LEMMA WorkerLeaves ==
  ASSUME TypeOK, NEW w \in Workers, own' = [own EXCEPT ![w] = NoOwner]
  PROVE  AsRun' = [AsRun EXCEPT ![w] = [of |-> None, attempt |-> 0]]
  BY DEF AsRun, NoOwner, TypeOK, ProcessesOK

LEMMA WorkerTakes ==
  ASSUME TypeOK, NEW w \in Workers, NEW j, NEW n, own' = [own EXCEPT ![w] = [job |-> j, version |-> n]]
  PROVE  AsRun' = [AsRun EXCEPT ![w] = [of |-> j, attempt |-> n]]
  BY DEF AsRun, TypeOK, ProcessesOK

(* Accept.                                                                   *)
LEMMA Accepts ==
  ASSUME TypeOK, NEW j \in Jobs, EnqueueInsert(j)
  PROVE  Queue!Accept(j)
<1>1. PICK delay \in 0..MaxDelay : jobs' = [jobs EXCEPT ![j] = MkRow("PENDING", 0, None, 0, 0, delay)]
  BY DEF EnqueueInsert
<1> DEFINE row == MkRow("PENDING", 0, None, 0, 0, delay)
<1>2. AsJob' = [AsJob EXCEPT ![j] = [status |-> "waiting", attempts |-> 0]]
  <2>1. row.attempts = 0 /\ QueueStatus[row.status] = "waiting"
    BY RowStatuses DEF MkRow
  <2>2. jobs' = [jobs EXCEPT ![j] = row]
    BY <1>1
  <2> HIDE DEF row
  <2>3. AsJob' = [AsJob EXCEPT ![j] = [status |-> QueueStatus[row.status], attempts |-> row.attempts]]
    BY <2>2, OneJobChanges
  <2> QED
    BY <2>1, <2>3
<1>3. jobs[j].status = None /\ Conflicts(j) = {} /\ own' = own
  BY DEF EnqueueInsert, TypeOK, RowsOK
<1>4. \A k \in Jobs : QueueStatus[jobs[k].status] \in {"waiting", "running"} => jobs[k].status \in Active
  BY RowStatuses, NoneAssumption DEF TypeOK, RowsOK, Row, Active
<1>5. Queue!Rivals(j) = {}
  BY <1>3, <1>4 DEF Queue!Rivals, Queue!Live, Conflicts
<1> QED
  BY <1>2, <1>3, <1>5, RowStatuses DEF Queue!Accept, AsJob

(* GiveBack: what a recovery read is what the row still holds.               *)
LEMMA GivesBack ==
  ASSUME TypeOK, AttemptLedger, TimelyReads, NEW a \in Actors, NEW r \in seen[a], RecoverOne(a, r)
  PROVE  Queue!GiveBack(r.job) \/ (UNCHANGED jobs /\ UNCHANGED own)
<1>1. r.job \in Jobs /\ jobs[r.job] \in Row /\ r.attempts \in Nat /\ jobs[r.job].attempts \in Nat
  BY DEF TypeOK, ProcessesOK, RowsOK, Row
<1>2. CASE Expired(r.job, a)
  <2>1. r.attempts = jobs[r.job].attempts
    BY <1>1, <1>2 DEF TimelyReads, RecoverOne
  <2> DEFINE row == IF jobs[r.job].attempts >= MaxAttempts[r.job]
                    THEN NoLease(jobs[r.job], "FAILED", 0) ELSE NoLease(jobs[r.job], "RETRY_WAIT", -age[a])
  <2>2. jobs' = [jobs EXCEPT ![r.job] = row] /\ own' = own /\ jobs[r.job].status = "RUNNING"
    BY <1>2, <2>1 DEF RecoverOne, Expired
  <2>3. /\ row.attempts = jobs[r.job].attempts
        /\ row.status = IF jobs[r.job].attempts >= MaxAttempts[r.job] THEN "FAILED" ELSE "RETRY_WAIT"
    BY DEF NoLease, MkRow
  <2> HIDE DEF row
  <2>4. AsJob' = [AsJob EXCEPT ![r.job] = [status |-> QueueStatus[row.status], attempts |-> row.attempts]]
    BY <1>1, <2>2, OneJobChanges
  <2>5. AsJob[r.job].status = "running" /\ AsJob[r.job].attempts = jobs[r.job].attempts
    BY <1>1, <2>2, RowStatuses DEF AsJob
  <2>6. QueueStatus[row.status] = IF AsJob[r.job].attempts >= MaxAttempts[r.job] THEN "failed" ELSE "waiting"
    BY <2>3, <2>5, RowStatuses
  <2>7. AsRun' = AsRun
    BY <2>2 DEF AsRun
  <2> QED
    BY <2>3, <2>4, <2>5, <2>6, <2>7 DEF Queue!GiveBack, Queue!Becomes, Queue!Last, AsJob, AsRun
<1>3. CASE ~Expired(r.job, a)
  BY <1>3 DEF RecoverOne
<1> QED
  BY <1>2, <1>3

(* Start.                                                                    *)
LEMMA QueueStarts ==
  ASSUME TypeOK, AttemptLedger, Owners, NEW w \in Workers, ClaimNext(w)
  PROVE  \E j \in Jobs : Queue!Start(w, j)
<1>1. PICK j \in Jobs :
        /\ jobs[j].status \in {"PENDING", "RETRY_WAIT"} /\ jobs[j].attempts < MaxAttempts[j]
        /\ jobs' = [jobs EXCEPT ![j] = Leased(jobs[j], w)] /\ jobs'[j] = Leased(jobs[j], w)
        /\ own' = [own EXCEPT ![w] = [job |-> j, version |-> jobs'[j].version]]
  BY ClaimStep
<1>2. own[w] = NoOwner
  BY DEF ClaimNext, InTime, Owners
<1>3. /\ jobs'[j].status = "RUNNING" /\ jobs'[j].attempts = jobs[j].attempts + 1
      /\ jobs'[j].version = jobs[j].attempts + 1
  BY <1>1, LeasedRow DEF AttemptLedger, TypeOK, RowsOK
<1>4. AsJob' = [AsJob EXCEPT ![j] = [status |-> "running", attempts |-> jobs[j].attempts + 1]]
  <2>1. QueueStatus[Leased(jobs[j], w).status] = "running" /\ Leased(jobs[j], w).attempts = jobs[j].attempts + 1
    BY <1>1, <1>3, RowStatuses
  <2>2. AsJob' = [AsJob EXCEPT ![j] = [status |-> QueueStatus[Leased(jobs[j], w).status],
                                       attempts |-> Leased(jobs[j], w).attempts]]
    BY <1>1, OneJobChanges
  <2> QED
    BY <2>1, <2>2
<1>5. AsRun' = [AsRun EXCEPT ![w] = [of |-> j, attempt |-> jobs[j].attempts + 1]]
  BY <1>1, <1>3, WorkerTakes
<1>6. /\ AsJob[j].status = "waiting" /\ AsJob[j].attempts = jobs[j].attempts
      /\ AsRun[w] = [of |-> None, attempt |-> 0]
  BY <1>1, <1>2, RowStatuses DEF AsJob, AsRun, NoOwner
<1>7. ~(jobs[j].attempts >= MaxAttempts[j])
  <2>1. jobs[j].attempts \in Nat /\ MaxAttempts[j] \in 1..AttemptLimit
    BY LimitsAssumption DEF TypeOK, RowsOK, Row
  <2> QED
    BY <1>1, <2>1, LimitsAssumption
<1> QED
  BY <1>4, <1>5, <1>6, <1>7 DEF Queue!Start, Queue!Free, Queue!Last, AsJob, AsRun

(* Who holds the lease is the run the abstract job waits for.                *)
LEMMA HolderIsCurrent ==
  ASSUME TypeOK, AttemptLedger, NEW w \in Workers, Holds(own[w], w)
  PROVE  /\ own[w].job \in Jobs /\ jobs[own[w].job].status = "RUNNING"
         /\ AsRun[w].of = own[w].job /\ Queue!Current(w)
<1>1. own[w].job \in Jobs /\ own[w].job # None /\ jobs[own[w].job].status = "RUNNING"
      /\ jobs[own[w].job].attempts = own[w].version
  BY DEF Holds, TypeOK, ProcessesOK, AttemptLedger
<1> QED
  BY <1>1, RowStatuses DEF Queue!Current, AsRun

(* Succeed.                                                                  *)
LEMMA Succeeds ==
  ASSUME TypeOK, AttemptLedger, NEW w \in Workers, Holds(own[w], w), Complete(w),
         own' = [own EXCEPT ![w] = NoOwner] \/ own' = own
  PROVE  Queue!Succeed(w)
<1> DEFINE j == own[w].job
<1>1. j \in Jobs /\ Queue!Current(w) /\ AsRun[w].of = j
  BY HolderIsCurrent
<1>2. PICK row : jobs' = [jobs EXCEPT ![j] = row] /\ row.status = "SUCCEEDED" /\ row.attempts = jobs[j].attempts
  BY DEF Complete, NoLease, MkRow
<1> HIDE DEF j
<1>3. AsJob' = [AsJob EXCEPT ![j] = [status |-> "succeeded", attempts |-> AsJob[j].attempts]]
  <2>1. QueueStatus[row.status] = "succeeded" /\ row.attempts = AsJob[j].attempts
    BY <1>1, <1>2, RowStatuses DEF AsJob
  <2>2. AsJob' = [AsJob EXCEPT ![j] = [status |-> QueueStatus[row.status], attempts |-> row.attempts]]
    BY <1>1, <1>2, OneJobChanges
  <2> QED
    BY <2>1, <2>2
<1>4. AsRun' = [AsRun EXCEPT ![w] = [of |-> None, attempt |-> 0]] \/ AsRun' = AsRun
  BY WorkerLeaves DEF AsRun
<1> QED
  BY <1>1, <1>3, <1>4 DEF Queue!Succeed, Queue!Becomes, Queue!Leaves, Queue!Free, AsJob, AsRun

(* Fail.                                                                     *)
LEMMA Fails ==
  ASSUME TypeOK, AttemptLedger, NEW w \in Workers, Holds(own[w], w), RetryOrFail(w)
  PROVE  Queue!Fail(w)
<1> DEFINE j == own[w].job
<1>1. j \in Jobs /\ Queue!Current(w) /\ AsRun[w].of = j
  BY HolderIsCurrent
<1> DEFINE last == jobs[j].attempts >= MaxAttempts[j]
<1>2. PICK row : /\ jobs' = [jobs EXCEPT ![j] = row]
                 /\ row.status = (IF last THEN "FAILED" ELSE "RETRY_WAIT") /\ row.attempts = jobs[j].attempts
  <2>1. PICK delay \in 0..MaxDelay :
          jobs' = [jobs EXCEPT ![j] = IF last THEN NoLease(jobs[j], "FAILED", 0)
                                              ELSE NoLease(jobs[j], "RETRY_WAIT", delay)]
    BY <1>1 DEF RetryOrFail
  <2>2. PICK new : new = IF last THEN NoLease(jobs[j], "FAILED", 0) ELSE NoLease(jobs[j], "RETRY_WAIT", delay)
    OBVIOUS
  <2>3. new.status = (IF last THEN "FAILED" ELSE "RETRY_WAIT") /\ new.attempts = jobs[j].attempts
    BY <2>2 DEF NoLease, MkRow
  <2>4. jobs' = [jobs EXCEPT ![j] = new]
    BY <2>1, <2>2
  <2> QED
    BY <2>3, <2>4
<1> HIDE DEF last
<1>3. AsJob' = [AsJob EXCEPT ![j] = [status |-> IF last THEN "failed" ELSE "waiting",
                                     attempts |-> AsJob[j].attempts]]
  <2>1. QueueStatus[row.status] = (IF last THEN "failed" ELSE "waiting") /\ row.attempts = AsJob[j].attempts
    BY <1>1, <1>2, RowStatuses DEF AsJob
  <2>2. AsJob' = [AsJob EXCEPT ![j] = [status |-> QueueStatus[row.status], attempts |-> row.attempts]]
    BY <1>1, <1>2, OneJobChanges
  <2> QED
    BY <2>1, <2>2
<1>4. AsRun' = [AsRun EXCEPT ![w] = [of |-> None, attempt |-> 0]]
  BY WorkerLeaves DEF RetryOrFail, Release
<1>5. last <=> AsJob[j].attempts >= MaxAttempts[j]
  BY <1>1 DEF last, AsJob
<1> HIDE DEF j
<1> QED
  BY <1>1, <1>3, <1>4, <1>5 DEF Queue!Fail, Queue!Becomes, Queue!Leaves, Queue!Free, Queue!Last, AsJob, AsRun

(* Quit: a worker leaves a job it does not hold, or was in none.             *)
LEMMA Quits ==
  ASSUME TypeOK, NEW w \in Workers, AsJob' = AsJob, own' = [own EXCEPT ![w] = NoOwner]
  PROVE  Queue!Quit(w) \/ UNCHANGED <<AsJob, AsRun>>
<1>1. AsRun' = [AsRun EXCEPT ![w] = [of |-> None, attempt |-> 0]]
  BY WorkerLeaves
<1>2. CASE AsRun[w] = [of |-> None, attempt |-> 0]
  BY <1>1, <1>2 DEF AsRun
<1>3. CASE AsRun[w] # [of |-> None, attempt |-> 0]
  BY <1>1, <1>3 DEF Queue!Quit, Queue!Leaves, Queue!Free, AsJob, AsRun
<1> QED
  BY <1>2, <1>3

(* Every step of the jobs is a step of the abstract queue, or leaves it.     *)
LEMMA QueueStep ==
  ASSUME TypeOK, AttemptLedger, Owners, TimelyReads, [Next]_vars
  PROVE  Queue!QueueNext \/ UNCHANGED <<AsJob, AsRun>>
<1> DEFINE Goal == Queue!QueueNext \/ UNCHANGED <<AsJob, AsRun>>
<1>1. ASSUME UNCHANGED <<jobs, own>> PROVE Goal
  BY <1>1 DEF AsJob, AsRun
<1>2. ASSUME NEW w \in Workers, Release(w), UNCHANGED jobs PROVE Goal
  <2>1. AsJob' = AsJob /\ own' = [own EXCEPT ![w] = NoOwner]
    BY <1>2 DEF AsJob, Release
  <2> QED
    BY <2>1, Quits DEF Queue!QueueNext
<1>3. ASSUME NEW w \in Workers, Worker(w) PROVE Goal
  <2>1. ASSUME ClaimNext(w) PROVE Goal
    BY <2>1, QueueStarts DEF Queue!QueueNext
  <2>2. ASSUME FirstHeartbeat(w) \/ Heartbeat(w) PROVE Goal
    <3>1. PICK o \in [job : Jobs \cup {None}, version : Nat], late \in Nat : Renew(o, w, late) /\ own' = own
      BY <2>2 DEF FirstHeartbeat, Heartbeat, Owner, TypeOK, ProcessesOK, Actors
    <3>2. \A j \in Jobs : jobs'[j].status = jobs[j].status /\ jobs'[j].attempts = jobs[j].attempts
      BY <3>1, Renewed DEF TypeOK
    <3> QED
      BY <3>1, <3>2, JobsAsBefore DEF AsRun
  <2>3. ASSUME FirstHeartbeatThrows(w) \/ RetryOrFailThrows(w) PROVE Goal
    BY <1>2, <2>3 DEF FirstHeartbeatThrows, RetryOrFailThrows
  <2>4. ASSUME Crash(w) PROVE Goal
    <3>1. AsJob' = AsJob /\ own' = [own EXCEPT ![w] = NoOwner]
      BY <2>4 DEF Crash, AsJob
    <3> QED
      BY <3>1, Quits DEF Queue!QueueNext
  <2>5. ASSUME Finish(w) \/ FinishThrows(w) PROVE Goal
    <3>1. CASE Complete(w) /\ Holds(own[w], w)
      <4>1. own' = [own EXCEPT ![w] = NoOwner] \/ own' = own
        BY <2>5 DEF Finish, FinishThrows, Release
      <4> QED
        BY <3>1, <4>1, Succeeds DEF Queue!QueueNext
    <3>2. CASE ~(Complete(w) /\ Holds(own[w], w))
      <4>1. UNCHANGED jobs
        BY <2>5, <3>2 DEF Finish, FinishThrows, Complete
      <4> QED
        BY <1>1, <1>2, <2>5, <4>1 DEF Finish, FinishThrows
    <3> QED
      BY <3>1, <3>2
  <2>6. ASSUME RetryOrFail(w) PROVE Goal
    <3>1. CASE Holds(own[w], w)
      BY <2>6, <3>1, Fails DEF Queue!QueueNext
    <3>2. CASE ~Holds(own[w], w)
      BY <1>2, <2>6, <3>2 DEF RetryOrFail
    <3> QED
      BY <3>1, <3>2
  <2>7. ASSUME \/ ClaimNothing(w) \/ SendHeartbeat(w) \/ HeartbeatLost(w)
               \/ HandlerReturns(w) \/ HandlerThrows(w) \/ Restart(w)
        PROVE Goal
    BY <1>1, <2>7 DEF ClaimNothing, SendHeartbeat, HeartbeatLost, HandlerReturns, HandlerThrows, Restart
  <2> HIDE DEF Goal
  <2> QED
    BY <1>3, <2>1, <2>2, <2>3, <2>4, <2>5, <2>6, <2>7 DEF Worker
<1>4. ASSUME NEW a \in Actors, Recovery(a) PROVE Goal
  <2>1. ASSUME NEW r \in seen[a], RecoverOne(a, r) PROVE Goal
    <3>1. r.job \in Jobs
      BY DEF TypeOK, ProcessesOK
    <3> QED
      BY <1>1, <2>1, <3>1, GivesBack DEF Queue!QueueNext
  <2>2. ASSUME RecoverRead(a) \/ RecoverCommit(a) \/ TxAbort(a) PROVE Goal
    BY <1>1, <2>2 DEF RecoverRead, RecoverCommit, TxAbort
  <2> HIDE DEF Goal
  <2> QED
    BY <1>4, <2>1, <2>2 DEF Recovery
<1>5. ASSUME NEW j \in Jobs, EnqueueInsert(j) \/ EnqueueConflict(j) \/ EnqueueLookup(j) PROVE Goal
  <2>1. CASE EnqueueInsert(j)
    BY <2>1, Accepts DEF Queue!QueueNext
  <2>2. CASE EnqueueConflict(j) \/ EnqueueLookup(j)
    BY <1>1, <2>2 DEF EnqueueConflict, EnqueueLookup
  <2> QED
    BY <1>5, <2>1, <2>2
<1>6. ASSUME Tick PROVE Goal
  <2>1. \A j \in Jobs : jobs'[j].status = jobs[j].status /\ jobs'[j].attempts = jobs[j].attempts
    BY <1>6 DEF Tick, Older, MkRow
  <2> QED
    BY <1>6, <2>1, JobsAsBefore DEF Tick, AsRun
<1>7. ASSUME UNCHANGED vars PROVE Goal
  BY <1>1, <1>7 DEF vars
<1> HIDE DEF Goal
<1>8. Goal
  BY <1>3, <1>4, <1>5, <1>6, <1>7 DEF Next
<1> QED
  BY <1>8 DEF Goal

(* No job is stranded, because the abstract queue strands none.              *)
Unstranded == \A j \in Jobs : AsJob[j].status = "waiting" => AsJob[j].attempts < MaxAttempts[j]

LEMMA StrandedAlike == TypeOK => (NotStranded <=> Unstranded)
<1> SUFFICES ASSUME TypeOK PROVE NotStranded <=> Unstranded
  OBVIOUS
<1>1. ASSUME NEW j \in Jobs
      PROVE  AsJob[j].status = "waiting" <=> jobs[j].status \in {"PENDING", "RETRY_WAIT"}
  <2>1. jobs[j].status \in {None, "PENDING", "RUNNING", "RETRY_WAIT", "SUCCEEDED", "FAILED"}
    BY DEF TypeOK, RowsOK, Row
  <2>2. AsJob[j].status = QueueStatus[jobs[j].status]
    BY DEF AsJob
  <2> QED
    BY <2>1, <2>2, RowStatuses, NoneAssumption
<1>2. \A j \in Jobs : AsJob[j].attempts = jobs[j].attempts
  BY DEF AsJob
<1> QED
  BY <1>1, <1>2 DEF NotStranded, Unstranded

LEMMA NotStrandedStep ==
  ASSUME TypeOK, AttemptLedger, Owners, TimelyReads, NotStranded, [Next]_vars
  PROVE  NotStranded'
<1>1. TypeOK' /\ Unstranded
  BY TypeStep, StrandedAlike
<1>2. \A j \in Jobs : AsJob[j].attempts \in Nat /\ MaxAttempts[j] \in Nat \ {0}
  BY LimitsAssumption DEF AsJob, TypeOK, RowsOK, Row
<1>3. Queue!QueueNext => Unstranded'
  <2> DEFINE Written(j, status, n) == AsJob' = [AsJob EXCEPT ![j] = [status |-> status, attempts |-> n]]
  <2>1. AsJob = [j \in Jobs |-> AsJob[j]]
    BY DEF AsJob
  <2>2. ASSUME NEW j, NEW status, NEW n, Written(j, status, n),
               j \in Jobs => status # "waiting" \/ n < MaxAttempts[j]
        PROVE  Unstranded'
    BY <1>1, <2>1, <2>2 DEF Unstranded
  <2>3. ASSUME NEW j \in Jobs, Queue!Accept(j) PROVE Unstranded'
    <3>1. Written(j, "waiting", 0)
      BY <2>3 DEF Queue!Accept, AsJob
    <3>2. 0 < MaxAttempts[j]
      BY <1>2
    <3> HIDE DEF Written
    <3> QED
      BY <2>2, <3>1, <3>2
  <2>4. ASSUME NEW j \in Jobs, NEW w \in Workers, Queue!Start(w, j) PROVE Unstranded'
    <3>1. Written(j, "running", AsJob[j].attempts + 1)
      BY <2>4 DEF Queue!Start, AsJob
    <3> HIDE DEF Written
    <3> QED
      BY <2>2, <3>1
  <2>5. ASSUME NEW j, Queue!Becomes(j, IF Queue!Last(j) THEN "failed" ELSE "waiting") PROVE Unstranded'
    <3>1. Queue!Last(j) <=> AsJob[j].attempts >= MaxAttempts[j]
      BY DEF Queue!Last, AsJob
    <3>2. Written(j, IF Queue!Last(j) THEN "failed" ELSE "waiting", AsJob[j].attempts)
      BY <2>5 DEF Queue!Becomes, AsJob
    <3>3. j \in Jobs /\ ~Queue!Last(j) => AsJob[j].attempts < MaxAttempts[j]
      BY <1>2, <3>1
    <3> HIDE DEF Written
    <3> QED
      BY <2>2, <3>2, <3>3
  <2>6. ASSUME NEW j, Queue!Becomes(j, "succeeded") PROVE Unstranded'
    <3>1. Written(j, "succeeded", AsJob[j].attempts)
      BY <2>6 DEF Queue!Becomes, AsJob
    <3> HIDE DEF Written
    <3> QED
      BY <2>2, <3>1
  <2>7. ASSUME AsJob' = AsJob PROVE Unstranded'
    BY <1>1, <2>7 DEF Unstranded
  <2>8. ASSUME NEW w \in Workers, Queue!Quit(w) PROVE AsJob' = AsJob
    BY <2>8 DEF Queue!Quit, AsJob
  <2> QED
    <3>1. ASSUME NEW j \in Jobs, Queue!GiveBack(j) PROVE Unstranded'
      BY <2>5, <3>1 DEF Queue!GiveBack
    <3>2. ASSUME NEW w \in Workers, Queue!Succeed(w) PROVE Unstranded'
      BY <2>6, <3>2 DEF Queue!Succeed
    <3>3. ASSUME NEW w \in Workers, Queue!Fail(w) PROVE Unstranded'
      <4>1. PICK j : j = AsRun[w].of
        OBVIOUS
      <4>2. Queue!Becomes(j, IF Queue!Last(j) THEN "failed" ELSE "waiting")
        BY <3>3, <4>1 DEF Queue!Fail, Queue!Becomes, Queue!Last, AsRun
      <4> QED
        BY <2>5, <4>2
    <3> QED
      BY <2>3, <2>4, <2>7, <2>8, <3>1, <3>2, <3>3 DEF Queue!QueueNext
<1>4. AsJob' = AsJob => Unstranded'
  BY <1>1 DEF Unstranded
<1>5. TypeOK' => (NotStranded' <=> Unstranded')
  BY StrandedAlike, PTL
<1> QED
  BY <1>1, <1>3, <1>4, <1>5, QueueStep

----------------------------------------------------------------------------
(* Leases are safe in every reachable state: LeaseInv is inductive.          *)
LEMMA LeaseInvHolds == Spec => []LeaseInv
<1>1. Init => TypeOK /\ AttemptLedger
  BY NoneAssumption, LimitsAssumption
     DEF Init, TypeOK, RowsOK, LedgerOK, ProcessesOK, Outcome, NoRow, MkRow, NoOwner, NoBeat, Row, AttemptLedger
<1>2. Init => Owners /\ Young /\ Fencing /\ TimelyReads /\ NotStranded
  BY NoneAssumption, LimitsAssumption
     DEF Init, Owners, Young, Fencing, TimelyReads, NotStranded, NoOwner, NoBeat, NoRow, MkRow
<1>3. LeaseInv /\ [Next]_vars => LeaseInv'
  BY TypeStep, LedgerStep, OwnersStep, YoungStep, FencingStep, TimelyStep, NotStrandedStep DEF LeaseInv
<1> QED
  BY <1>1, <1>2, <1>3, PTL DEF Spec, LeaseInv

(* Fencing, timely reads and no stranded job, for any number of jobs,        *)
(* workers and recoverers (BackgroundJobRepository).                         *)
THEOREM LeasesSafe == Spec => []LeaseSafe
  BY LeaseInvHolds, PTL DEF LeaseInv, LeaseSafe

(* With those leases the queue implements JobQueue: every behaviour of the   *)
(* table and its workers is one of the abstract queue.                       *)
THEOREM QueueImplemented == Spec => ImplementsQueue
<1>1. Init => Queue!QueueInit
  BY RowStatuses DEF Init, Queue!QueueInit, Queue!NoJob, Queue!Free, NoRow, MkRow, NoOwner
<1>2. LeaseInv /\ [Next]_vars => [Queue!QueueNext]_(Queue!queue)
  BY QueueStep DEF LeaseInv, Queue!queue, AsJob, AsRun
<1> QED
  BY <1>1, <1>2, LeaseInvHolds, PTL DEF Spec, ImplementsQueue, Queue!QueueSpec

----------------------------------------------------------------------------
(* How a row stops RUNNING.                                                  *)
Ended(j) ==
  \/ jobs'[j].status # "SUCCEEDED" /\ jobs[j].ttl < 0
  \/ \E w \in Workers : /\ own[w] = [job |-> j, version |-> jobs[j].version] /\ jobs[j].by = w /\ pc'[w] # pc[w]
                        /\ jobs'[j].status = "SUCCEEDED" => pc[w] = "finishing"

LEMMA EndedByHolder ==
  ASSUME TypeOK, NEW w \in Workers, NEW j \in Jobs, Holds(own[w], w),
         \A k \in Jobs \ {own[w].job} : jobs'[k] = jobs[k], jobs'[j] # jobs[j],
         pc'[w] # pc[w], jobs'[own[w].job].status = "SUCCEEDED" => pc[w] = "finishing"
  PROVE  Ended(j)
<1>1. own[w] = [job |-> own[w].job, version |-> own[w].version] /\ j = own[w].job
  BY DEF TypeOK, ProcessesOK
<1> QED
  BY <1>1 DEF Ended, Holds

LEMMA EndSteps ==
  ASSUME TypeOK, [Next]_vars, NEW j \in Jobs,
         \/ jobs[j].status = "RUNNING" /\ jobs'[j].status # "RUNNING"
         \/ jobs[j].status # "SUCCEEDED" /\ jobs'[j].status = "SUCCEEDED"
  PROVE  Ended(j)
<1> USE NoneAssumption
<1>1. ASSUME jobs'[j].status = jobs[j].status PROVE Ended(j)
  BY <1>1
<1>2. ASSUME NEW w \in Workers, Worker(w) PROVE Ended(j)
  <2>1. ASSUME ClaimNext(w) PROVE Ended(j)
    <3>1. PICK k \in Jobs : /\ jobs[k].status \in {"PENDING", "RETRY_WAIT"}
                            /\ jobs' = [jobs EXCEPT ![k] = Leased(jobs[k], w)]
      BY <2>1, ClaimStep
    <3>2. Leased(jobs[k], w).status = "RUNNING"
      BY DEF Leased, MkRow
    <3> QED
      BY <1>1, <3>1, <3>2 DEF TypeOK, RowsOK
  <2>2. ASSUME FirstHeartbeat(w) \/ Heartbeat(w) PROVE Ended(j)
    <3>1. PICK o \in [job : Jobs \cup {None}, version : Nat], late \in Nat : Renew(o, w, late)
      BY <2>2 DEF FirstHeartbeat, Heartbeat, Owner, TypeOK, ProcessesOK, Actors
    <3> QED
      BY <1>1, <3>1, Renewed DEF TypeOK
  <2>3. ASSUME Finish(w) \/ FinishThrows(w) PROVE Ended(j)
    <3>1. CASE Complete(w) /\ Holds(own[w], w)
      <4>1. own[w].job \in Jobs /\ jobs' = [jobs EXCEPT ![own[w].job] = NoLease(jobs[own[w].job], "SUCCEEDED", 0)]
        BY <3>1 DEF Complete, Holds, TypeOK, ProcessesOK
      <4>2. pc[w] = "finishing" /\ pc'[w] # pc[w]
        BY <2>3 DEF Finish, FinishThrows, Release, TypeOK, ProcessesOK, Actors
      <4> QED
        BY <1>1, <3>1, <4>1, <4>2, EndedByHolder DEF TypeOK, RowsOK
    <3>2. CASE ~(Complete(w) /\ Holds(own[w], w))
      BY <1>1, <2>3, <3>2 DEF Finish, FinishThrows, Complete
    <3> QED
      BY <3>1, <3>2
  <2>4. ASSUME RetryOrFail(w) PROVE Ended(j)
    <3>1. CASE Holds(own[w], w)
      <4>1. PICK status, wait :
              /\ status \in {"FAILED", "RETRY_WAIT"}
              /\ jobs' = [jobs EXCEPT ![own[w].job] = NoLease(jobs[own[w].job], status, wait)]
        BY <2>4, <3>1 DEF RetryOrFail
      <4>2. own[w].job \in Jobs /\ pc'[w] # pc[w] /\ jobs'[own[w].job].status = status
        BY <2>4, <3>1, <4>1 DEF RetryOrFail, Release, Holds, NoLease, MkRow, TypeOK, ProcessesOK, RowsOK, Actors
      <4> QED
        BY <1>1, <3>1, <4>1, <4>2, EndedByHolder DEF TypeOK, RowsOK
    <3>2. CASE ~Holds(own[w], w)
      BY <1>1, <2>4, <3>2 DEF RetryOrFail
    <3> QED
      BY <3>1, <3>2
  <2>5. ASSUME \/ ClaimNothing(w) \/ FirstHeartbeatThrows(w) \/ SendHeartbeat(w) \/ HeartbeatLost(w)
               \/ HandlerReturns(w) \/ HandlerThrows(w) \/ RetryOrFailThrows(w) \/ Crash(w) \/ Restart(w)
        PROVE Ended(j)
    BY <1>1, <2>5 DEF ClaimNothing, FirstHeartbeatThrows, SendHeartbeat, HeartbeatLost,
       HandlerReturns, HandlerThrows, RetryOrFailThrows, Crash, Restart
  <2> QED
    BY <1>2, <2>1, <2>2, <2>3, <2>4, <2>5 DEF Worker
<1>3. ASSUME NEW a \in Actors, Recovery(a) PROVE Ended(j)
  <2>1. ASSUME NEW r \in seen[a], RecoverOne(a, r) PROVE Ended(j)
    <3>1. CASE Expired(r.job, a)
      <4>1. PICK status, wait :
              /\ status \in {"FAILED", "RETRY_WAIT"}
              /\ jobs' = [jobs EXCEPT ![r.job] = NoLease(jobs[r.job], status, wait)]
        BY <2>1, <3>1 DEF RecoverOne
      <4>2. jobs'[r.job].status # "SUCCEEDED" /\ jobs[r.job].ttl < 0
        <5>1. r.job \in Jobs /\ age[a] \in Nat /\ jobs[r.job].ttl \in Int
          BY DEF TypeOK, ProcessesOK, RowsOK, Row
        <5> QED
          BY <3>1, <4>1, <5>1 DEF NoLease, MkRow, Expired, TypeOK, RowsOK
      <4> QED
        BY <1>1, <4>1, <4>2 DEF Ended, TypeOK, RowsOK
    <3>2. CASE ~Expired(r.job, a)
      BY <1>1, <2>1, <3>2 DEF RecoverOne
    <3> QED
      BY <3>1, <3>2
  <2>2. ASSUME RecoverRead(a) \/ RecoverCommit(a) \/ TxAbort(a) PROVE Ended(j)
    BY <1>1, <2>2 DEF RecoverRead, RecoverCommit, TxAbort
  <2> QED
    BY <1>3, <2>1, <2>2 DEF Recovery
<1>4. ASSUME NEW k \in Jobs, EnqueueInsert(k) \/ EnqueueConflict(k) \/ EnqueueLookup(k) PROVE Ended(j)
  <2>1. CASE EnqueueInsert(k)
    <3>1. PICK delay : jobs' = [jobs EXCEPT ![k] = MkRow("PENDING", 0, None, 0, 0, delay)]
      BY <2>1 DEF EnqueueInsert
    <3>2. jobs[k].status = None
      BY <2>1 DEF EnqueueInsert, TypeOK, RowsOK
    <3> QED
      BY <1>1, <3>1, <3>2 DEF MkRow, TypeOK, RowsOK
  <2>2. CASE EnqueueConflict(k) \/ EnqueueLookup(k)
    BY <1>1, <2>2 DEF EnqueueConflict, EnqueueLookup
  <2> QED
    BY <1>4, <2>1, <2>2
<1>5. ASSUME Tick PROVE Ended(j)
  BY <1>1, <1>5 DEF Tick, Older, MkRow
<1>6. ASSUME UNCHANGED vars PROVE Ended(j)
  BY <1>1, <1>6 DEF vars
<1> QED
  BY <1>2, <1>3, <1>4, <1>5, <1>6 DEF Next

(* A lease holds: only its owner completes the job, and nobody takes it      *)
(* from a worker before the lease has run out.                               *)
THEOREM LeasesHold == Spec => LeaseHolds
<1>1. TypeOK /\ [Next]_vars =>
        [\A j \in Jobs :
           jobs[j].status # "SUCCEEDED" /\ jobs'[j].status = "SUCCEEDED" =>
             \E w \in Workers : /\ pc[w] = "finishing" /\ jobs[j].by = w
                                /\ own[w] = [job |-> j, version |-> jobs[j].version]]_vars
  BY EndSteps DEF Ended
<1>2. TypeOK /\ [Next]_vars =>
        [\A j \in Jobs :
           jobs[j].status = "RUNNING" /\ jobs'[j].status # "RUNNING" =>
             \/ jobs[j].ttl < 0
             \/ \E w \in Workers : own[w] = [job |-> j, version |-> jobs[j].version] /\ pc'[w] # pc[w]]_vars
  BY EndSteps DEF Ended
<1> QED
  BY <1>1, <1>2, TypeCorrect, PTL DEF Spec, LeaseHolds, OnlyOwnerCompletes, NoEarlyTakeover

--------------------------------------------------------------------------------
(* Kitchen.                                                                      *)
----------------------------------------------------------------------------
(* Whatever a screen or a request of it holds of an order is the order as it   *)
(* was: at an older version, or as it is now, or as it was when it was deleted. *)
Views == UNION {[S -> Cards] : S \in SUBSET Orders}
Old(card, o) ==
  /\ card \in Cards /\ card.status # "NONE" /\ card.version <= kept[o].version
  /\ card.version = kept[o].version => kept[o] = card \/ kept[o].status = "DELETED"

StoreInv == kept \in [Orders -> Cards] /\ \A o \in Orders : kept[o].status = "NONE" => kept[o].version = 0
ShownInv == shown \in Views /\ \A o \in DOMAIN shown : Old(shown[o], o)
FetchInv ==
  /\ fetch \in [at : {"none", "sent", "read"}, by : {"poller", "message"}, answer : Views]
  /\ \A o \in DOMAIN fetch.answer : Old(fetch.answer[o], o)

(* A change of a status carries the card that was pressed; and an armed F3 is   *)
(* that of the card it was pressed on.                                          *)
Changing == [at : {"sent", "checked", "claimed", "told", "answered", "refused"}, order : Orders, to : Statuses \ {"NONE"}, saw : Cards,
             over : Cards \cup {Nobody}, keys : BOOLEAN, asked : Orders \cup {Nobody}, next : Orders \cup {Nobody}]
CommandInv ==
  /\ command \in {Idle} \cup Changing /\ (command.at # "idle" => Old(command.saw, command.order))
  /\ AppliedAsSeen /\ CancelAskedTwice
HandsInv ==
  /\ {selected, armed} \subseteq DOMAIN shown \cup {Nobody} /\ asked \in Orders \cup {Nobody}
  /\ armed # Nobody => asked = armed
LoopInv ==
  /\ link \in {"off", "verifying", "joined"} /\ wire \in Nat
  /\ poller \in [started : BOOLEAN, timer : BOOLEAN, running : BOOLEAN]
  /\ PollerLives /\ faults \in 0..FaultBound /\ others \in 0..OthersBound

KitchenInv == StoreInv /\ ShownInv /\ FetchInv /\ CommandInv /\ HandsInv /\ LoopInv

----------------------------------------------------------------------------
(* The cards of a list have places from 0, one each.                            *)
LEMMA Places ==
  ASSUME NEW S, S \subseteq Nat, IsFiniteSet(S)
  PROVE  /\ \A o \in S : Place(S, o) \in 0..(Cardinality(S) - 1)
         /\ \A o, p \in S : Place(S, o) = Place(S, p) => o = p
  <1>1. Cardinality(S) \in Nat
    BY FS_CardinalityType
  <1>2. ASSUME NEW o \in S
        PROVE  /\ Place(S, o) = Cardinality({x \in S : x < o}) /\ Place(S, o) \in Nat
               /\ IsFiniteSet({x \in S : x < o}) /\ Place(S, o) < Cardinality(S)
    <2>1. PICK T : T = {x \in S : x < o}
      OBVIOUS
    <2>2. T \subseteq S /\ o \notin T
      BY <2>1
    <2>3. IsFiniteSet(T) /\ Cardinality(T) <= Cardinality(S) /\ (Cardinality(S) = Cardinality(T) => S = T)
      BY <2>2, FS_Subset
    <2>4. Cardinality(T) \in Nat
      BY <2>3, FS_CardinalityType
    <2>5. Cardinality(T) < Cardinality(S)
      BY <1>1, <2>2, <2>3, <2>4
    <2> QED
      BY <2>1, <2>3, <2>4, <2>5 DEF Place
  <1>3. ASSUME NEW o \in S, NEW p \in S, o < p
        PROVE  Place(S, o) < Place(S, p)
    <2>1. PICK T, U : T = {x \in S : x < o} /\ U = {x \in S : x < p}
      OBVIOUS
    <2>0. o \in Nat /\ p \in Nat /\ \A x \in S : x \in Nat /\ (x < o => x < p)
      BY <1>3
    <2>2. T \subseteq U /\ o \in U /\ o \notin T
      <3>1. T \subseteq U
        BY <2>0, <2>1
      <3>2. o \in U
        BY <1>3, <2>1
      <3>3. ~(o < o)
        BY <2>0
      <3> QED
        BY <2>1, <3>1, <3>2, <3>3
    <2>3. IsFiniteSet(U) /\ Place(S, p) = Cardinality(U) /\ Place(S, o) = Cardinality(T)
      BY <1>2, <2>1
    <2>4. Cardinality(T) <= Cardinality(U) /\ (Cardinality(U) = Cardinality(T) => U = T)
      BY <2>2, <2>3, FS_Subset
    <2>5. Cardinality(T) \in Nat /\ Cardinality(U) \in Nat
      BY <1>2, <2>3
    <2>6. Cardinality(T) # Cardinality(U)
      BY <2>2, <2>4
    <2> QED
      BY <2>3, <2>4, <2>5, <2>6
  <1>4. \A o, p \in S : o < p \/ p < o \/ o = p
    OBVIOUS
  <1>5. ASSUME NEW o \in S, NEW p \in S, Place(S, o) = Place(S, p)
        PROVE  o = p
    <2>1. Place(S, o) \in Nat /\ Place(S, p) \in Nat
      BY <1>2
    <2> QED
      BY <1>3, <1>4, <1>5, <2>1
  <1>6. ASSUME NEW o \in S
        PROVE  Place(S, o) \in 0..(Cardinality(S) - 1)
    <2>1. Place(S, o) \in Nat /\ Place(S, o) < Cardinality(S)
      BY <1>2
    <2> QED
      BY <1>1, <2>1
  <1> QED
    BY <1>5, <1>6

(* Hence every place of a list has its card.                                    *)
LEMMA CardThere ==
  ASSUME NEW S, S \subseteq Nat, IsFiniteSet(S), NEW n \in 0..(Cardinality(S) - 1)
  PROVE  CardAt(S, n) \in S
  <1>1. Cardinality(S) \in Nat
    BY FS_CardinalityType
  <1>2. PICK T : T = 0..(Cardinality(S) - 1)
    OBVIOUS
  <1>3. IsFiniteSet(T) /\ Cardinality(T) = Cardinality(S)
    <2>1. 0 \in Int /\ Cardinality(S) - 1 \in Int
      BY <1>1
    <2>2. IsFiniteSet(T) /\ Cardinality(T) = IF 0 > Cardinality(S) - 1 THEN 0 ELSE Cardinality(S) - 1 - 0 + 1
      BY <1>2, <2>1, FS_Interval
    <2> QED
      BY <1>1, <2>2
  <1>4. PICK f : f = [o \in S |-> Place(S, o)]
    OBVIOUS
  <1>5. f \in Injection(S, T)
    <2>1. f \in [S -> T]
      BY <1>2, <1>4, Places
    <2>2. \A o, p \in S : f[o] = f[p] => o = p
      BY <1>4, Places
    <2> QED
      BY <2>1, <2>2 DEF Injection, IsInjective
  <1>6. f \in Surjection(S, T)
    BY <1>3, <1>5, FS_Injection
  <1>7. \E o \in S : Place(S, o) = n
    BY <1>2, <1>4, <1>6 DEF Surjection
  <1> QED
    BY <1>7 DEF CardAt

LEMMA FallsBack ==
  ASSUME NEW old, old \subseteq Orders, NEW new, new \subseteq Orders, NEW card
  PROVE  FallBack(old, new, card) \in new \cup {Nobody}
  <1>1. new \subseteq Nat /\ IsFiniteSet(new) /\ Cardinality(new) \in Nat
    BY KitchenAssumption, FS_Subset, FS_CardinalityType
  <1>2. CASE card = Nobody \/ card \in new
    BY <1>2 DEF FallBack
  <1>3. CASE new = {}
    BY <1>3 DEF FallBack
  <1>4. CASE ~(card = Nobody \/ card \in new) /\ new # {}
    <2>1. Cardinality(new) # 0
      BY <1>1, <1>4, FS_EmptySet
    <2>2. PICK n : n = Place(old, card)
      OBVIOUS
    <2>3. n \in Nat
      <3>1. IsFiniteSet({x \in old : x < card})
        BY KitchenAssumption, FS_Subset
      <3> QED
        BY <2>2, <3>1, FS_CardinalityType DEF Place
    <2>4. PICK m : m = IF n < Cardinality(new) THEN n ELSE Cardinality(new) - 1
      OBVIOUS
    <2>5. m \in 0..(Cardinality(new) - 1)
      BY <1>1, <2>1, <2>3, <2>4
    <2>6. FallBack(old, new, card) = CardAt(new, m)
      BY <1>4, <2>2, <2>4 DEF FallBack
    <2> QED
      BY <1>1, <2>5, <2>6, CardThere
  <1> QED
    BY <1>2, <1>3, <1>4

LEMMA NextThere ==
  ASSUME DOMAIN shown \subseteq Orders, NEW o \in DOMAIN shown
  PROVE  NextOrderAfter(o) \in DOMAIN shown \cup {Nobody}
  <1>1. PICK S : S = DOMAIN shown
    OBVIOUS
  <1>2. S \subseteq Nat /\ IsFiniteSet(S) /\ Cardinality(S) \in Nat
    BY <1>1, KitchenAssumption, FS_Subset, FS_CardinalityType
  <1>3. CASE Cardinality(S) <= 1
    BY <1>1, <1>3 DEF NextOrderAfter
  <1>4. CASE ~(Cardinality(S) <= 1)
    <2>1. Place(S, o) \in 0..(Cardinality(S) - 1)
      BY <1>1, <1>2, Places
    <2>2. PICK n : n = (Place(S, o) + 1) % Cardinality(S)
      OBVIOUS
    <2>3. n \in 0..(Cardinality(S) - 1)
      BY <1>2, <1>4, <2>1, <2>2
    <2>4. NextOrderAfter(o) = CardAt(S, n)
      BY <1>1, <1>4, <2>2 DEF NextOrderAfter
    <2> QED
      BY <1>1, <1>2, <2>3, <2>4, CardThere
  <1> QED
    BY <1>3, <1>4

----------------------------------------------------------------------------
(* The store: what anybody does to an order leaves what was seen of it old.     *)
LEMMA NextTable ==
  ASSUME NEW o, NEW status, NEW to \in NextStatuses(o, status)
  PROVE  to \in Statuses /\ to # "NONE" /\ status \in OnBoard
  BY DEF NextStatuses, Statuses, OnBoard, OffBoard

Rewrites(o, card) ==
  /\ card \in Cards /\ card.status # "NONE" /\ kept' = [kept EXCEPT ![o] = card]
  /\ \/ kept[o].status # "NONE" /\ card.version = kept[o].version + 1
     \/ kept[o].status # "NONE" /\ card.version = kept[o].version /\ card.status = "DELETED"
     \/ kept[o].status = "NONE" /\ card.version = kept[o].version

LEMMA MovedIs ==
  ASSUME StoreInv, NEW o \in Orders, NEW to \in Statuses \ {"NONE"}, kept[o].status # "NONE", kept' = Moved(o, to)
  PROVE  \E card : Rewrites(o, card) /\ card.status = to
  <1>1. PICK card : card = [status |-> to, version |-> kept[o].version + 1]
    OBVIOUS
  <1>2. card.status = to /\ card.version = kept[o].version + 1 /\ card \in Cards
    BY <1>1 DEF StoreInv, Cards
  <1>3. kept' = [kept EXCEPT ![o] = card]
    BY <1>1 DEF Moved, StoreInv
  <1> QED
    BY <1>2, <1>3 DEF Rewrites

LEMMA StoreMoves ==
  ASSUME StoreInv, NEW o \in Orders, NEW card, Rewrites(o, card)
  PROVE  /\ StoreInv'
         /\ \A p \in Orders : \A sight : Old(sight, p) => Old(sight, p)'
  <1>1. /\ kept' \in [Orders -> Cards] /\ kept'[o] = card /\ \A p \in Orders \ {o} : kept'[p] = kept[p]
    BY DEF Rewrites, StoreInv
  <1>2. StoreInv'
    BY <1>1 DEF StoreInv, Rewrites
  <1>3. ASSUME NEW sight, Old(sight, o)
        PROVE  Old(sight, o)'
    <2>1. sight \in Cards /\ sight.status # "NONE" /\ sight.version \in Nat /\ kept[o].version \in Nat
      BY <1>3 DEF Old, StoreInv, Cards
    <2>2. CASE card.version = kept[o].version + 1
      BY <1>1, <1>3, <2>1, <2>2 DEF Old
    <2>3. CASE kept[o].status # "NONE" /\ card.version = kept[o].version /\ card.status = "DELETED"
      BY <1>1, <1>3, <2>1, <2>3 DEF Old
    <2>4. CASE kept[o].status = "NONE" /\ card.version = kept[o].version
      <3>1. kept[o].version = 0
        BY <2>4 DEF StoreInv
      <3>2. sight.version = kept[o].version
        BY <1>3, <2>1, <3>1 DEF Old
      <3>3. kept[o] = sight \/ kept[o].status = "DELETED"
        BY <1>3, <3>2 DEF Old
      <3> QED
        BY <2>1, <2>4, <3>3
    <2> QED
      BY <2>2, <2>3, <2>4 DEF Rewrites
  <1>4. ASSUME NEW p \in Orders \ {o}, NEW sight, Old(sight, p)
        PROVE  Old(sight, p)'
    BY <1>1, <1>4 DEF Old
  <1> QED
    BY <1>2, <1>3, <1>4

(* What was seen of an order that is there was never seen before it was.        *)
LEMMA SeenThere ==
  ASSUME StoreInv, NEW o \in Orders, NEW card, Old(card, o)
  PROVE  kept[o].status # "NONE"
  <1>1. card.version \in Nat /\ kept[o].version \in Nat
    BY DEF Old, StoreInv, Cards
  <1>2. SUFFICES ASSUME kept[o].status = "NONE" PROVE FALSE
    OBVIOUS
  <1>3. kept[o].version = 0
    BY <1>2 DEF StoreInv
  <1> QED
    BY <1>1, <1>2, <1>3 DEF Old

LEMMA ViewsAre ==
  /\ \A view \in Views : DOMAIN view \subseteq Orders /\ \A o \in DOMAIN view : view[o] \in Cards
  /\ \A S \in SUBSET Orders : [S -> Cards] \subseteq Views
  BY DEF Views

(* Others, and the screen's own change, rewrite an order.                       *)
LEMMA StoreKeeps ==
  ASSUME KitchenInv, NEW o \in Orders, NEW card, Rewrites(o, card), UNCHANGED <<shown, fetch>>
  PROVE  StoreInv' /\ ShownInv' /\ FetchInv'
  <1>1. StoreInv' /\ \A p \in Orders : \A sight : Old(sight, p) => Old(sight, p)'
    BY StoreMoves DEF KitchenInv
  <1>2. ShownInv'
    <2>1. shown \in Views /\ \A p \in DOMAIN shown : p \in Orders /\ Old(shown[p], p)
      BY ViewsAre DEF KitchenInv, ShownInv
    <2>2. \A p \in DOMAIN shown : Old(shown[p], p)'
      BY <1>1, <2>1
    <2> QED
      BY <2>1, <2>2 DEF ShownInv, Old
  <1>3. FetchInv'
    <2>1. PICK view : view = fetch.answer
      OBVIOUS
    <2>2. view \in Views /\ \A p \in DOMAIN view : p \in Orders /\ Old(view[p], p)
      BY <2>1, ViewsAre DEF KitchenInv, FetchInv
    <2>3. \A p \in DOMAIN view : Old(view[p], p)'
      BY <1>1, <2>2
    <2>4. fetch' = fetch /\ fetch'.answer = view
      BY <2>1
    <2> QED
      BY <2>1, <2>3, <2>4 DEF FetchInv, KitchenInv, Old
  <1> QED
    BY <1>1, <1>2, <1>3

LEMMA CommandIs ==
  ASSUME KitchenInv
  PROVE  /\ command.at = "idle" <=> command = Idle
         /\ command.at # "idle" => command \in Changing /\ command.order \in Orders /\ Old(command.saw, command.order)
  <1>1. Idle.at = "idle"
    BY DEF Idle
  <1>2. \A c \in Changing : c.at # "idle" /\ c.order \in Orders
    BY DEF Changing
  <1>3. command \in {Idle} \cup Changing /\ (command.at # "idle" => Old(command.saw, command.order))
    BY DEF KitchenInv, CommandInv
  <1> QED
    BY <1>1, <1>2, <1>3 DEF KitchenInv, CommandInv

(* A change that goes on.                                                       *)
LEMMA CommandSame ==
  ASSUME KitchenInv, UNCHANGED command, \A p \in Orders : \A sight : Old(sight, p) => Old(sight, p)'
  PROVE  CommandInv'
  <1>1. command.at # "idle" => Old(command.saw, command.order)'
    BY CommandIs
  <1>2. command' = command
    OBVIOUS
  <1>3. AppliedAsSeen' /\ CancelAskedTwice'
    BY <1>2 DEF KitchenInv, CommandInv, AppliedAsSeen, CancelAskedTwice
  <1>4. command' \in {Idle} \cup Changing
    BY <1>2 DEF KitchenInv, CommandInv
  <1> QED
    BY <1>1, <1>2, <1>3, <1>4 DEF CommandInv

LEMMA OthersKeep ==
  ASSUME KitchenInv, NEW o \in Orders, OtherCreates(o) \/ OtherMoves(o) \/ OtherClaims(o) \/ OtherDeletes(o)
  PROVE  KitchenInv'
  <1> StoreInv
    BY DEF KitchenInv
  <1>1. /\ UNCHANGED <<link, shown, fetch, poller, command, selected, armed, asked>>
        /\ wire' \in {wire, wire + 1} /\ others' = others + 1 /\ others < OthersBound
        /\ faults' = faults \/ (faults < FaultBound /\ faults' = faults + 1)
    BY DEF OtherCreates, OtherMoves, OtherClaims, OtherDeletes, Others, hands, Emit, Fault
  <1>2. \E card : Rewrites(o, card)
    <2>1. CASE OtherCreates(o)
      <3>1. PICK card : card = [status |-> "PENDING", version |-> kept[o].version]
        OBVIOUS
      <3>2. card.status = "PENDING" /\ card.version = kept[o].version /\ card \in Cards
        BY <3>1 DEF StoreInv, Cards, Statuses, OnBoard
      <3>3. PICK old \in Cards : old = kept[o]
        BY DEF StoreInv
      <3>4. card = [old EXCEPT !.status = "PENDING"]
        BY <3>1, <3>3 DEF Cards
      <3>5. kept' = [kept EXCEPT ![o] = card]
        BY <2>1, <3>3, <3>4 DEF OtherCreates
      <3>6. kept[o].status = "NONE"
        BY <2>1 DEF OtherCreates, OnBoard
      <3> QED
        BY <3>2, <3>5, <3>6 DEF Rewrites
    <2>2. CASE OtherDeletes(o)
      <3>1. PICK card : card = [status |-> "DELETED", version |-> kept[o].version]
        OBVIOUS
      <3>2. card.status = "DELETED" /\ card.version = kept[o].version /\ card \in Cards
        BY <3>1 DEF StoreInv, Cards, Statuses
      <3>3. PICK old \in Cards : old = kept[o]
        BY DEF StoreInv
      <3>4. card = [old EXCEPT !.status = "DELETED"]
        BY <3>1, <3>3 DEF Cards
      <3>5. kept' = [kept EXCEPT ![o] = card]
        BY <2>2, <3>3, <3>4 DEF OtherDeletes
      <3>6. kept[o].status # "NONE"
        BY <2>2 DEF OtherDeletes, OnBoard
      <3> QED
        BY <3>2, <3>5, <3>6 DEF Rewrites
    <2>3. CASE OtherMoves(o)
      <3>1. PICK to \in NextStatuses(o, kept[o].status) : kept' = Moved(o, to)
        BY <2>3 DEF OtherMoves
      <3>2. to \in Statuses \ {"NONE"} /\ kept[o].status # "NONE"
        BY NextTable DEF OnBoard
      <3> QED
        BY <3>1, <3>2, MovedIs
    <2>4. CASE OtherClaims(o)
      <3>1. kept[o].status \in Statuses \ {"NONE"} /\ kept' = Moved(o, kept[o].status)
        BY <2>4 DEF OtherClaims, OnBoard, Statuses
      <3> QED
        BY <3>1, MovedIs
    <2> QED
      BY <2>1, <2>2, <2>3, <2>4
  <1>3. PICK card : Rewrites(o, card)
    BY <1>2
  <1>4. StoreInv' /\ ShownInv' /\ FetchInv'
    BY <1>1, <1>3, StoreKeeps
  <1>5. CommandInv'
    BY <1>1, <1>3, StoreMoves, CommandSame
  <1>6. HandsInv'
    BY <1>1 DEF KitchenInv, HandsInv
  <1>7. LoopInv'
    <2>1. PollerLives'
      BY <1>1 DEF KitchenInv, LoopInv, PollerLives
    <2>2. wire' \in Nat
      BY <1>1 DEF KitchenInv, LoopInv
    <2>3. faults' \in 0..FaultBound
      BY <1>1, KitchenAssumption DEF KitchenInv, LoopInv
    <2>4. others' \in 0..OthersBound
      BY <1>1, KitchenAssumption DEF KitchenInv, LoopInv
    <2> QED
      BY <1>1, <2>1, <2>2, <2>3, <2>4 DEF KitchenInv, LoopInv
  <1> QED
    BY <1>4, <1>5, <1>6, <1>7 DEF KitchenInv

----------------------------------------------------------------------------
(* The screen asks for the board, over one connection after another.            *)
LEMMA StoreSame ==
  ASSUME KitchenInv, kept' = kept
  PROVE  /\ StoreInv' /\ (UNCHANGED shown => ShownInv') /\ (UNCHANGED fetch => FetchInv') /\ (UNCHANGED command => CommandInv')
         /\ \A p \in Orders : \A sight : Old(sight, p) => Old(sight, p)'
  <1>1. \A p \in Orders : \A sight : Old(sight, p) => Old(sight, p)'
    BY DEF Old
  <1>2. StoreInv'
    BY DEF KitchenInv, StoreInv
  <1>3. UNCHANGED shown => ShownInv'
    BY DEF KitchenInv, ShownInv, Old
  <1>4. UNCHANGED fetch => FetchInv'
    BY DEF KitchenInv, FetchInv, Old
  <1>5. UNCHANGED command => CommandInv'
    BY <1>1, CommandSame
  <1> QED
    BY <1>1, <1>2, <1>3, <1>4, <1>5

LEMMA NothingSeen ==
  /\ Nothing \in Views /\ DOMAIN Nothing = {}
  /\ NoAsking.at = "none" /\ NoAsking.answer = Nothing
  /\ NoAsking \in [at : {"none", "sent", "read"}, by : {"poller", "message"}, answer : Views]
  /\ \A who \in {"poller", "message"} :
       /\ Asking(who).at = "sent" /\ Asking(who).answer = Nothing
       /\ Asking(who) \in [at : {"none", "sent", "read"}, by : {"poller", "message"}, answer : Views]
  <1>1. Nothing \in [{} -> Cards] /\ DOMAIN Nothing = {}
    BY DEF Nothing
  <1>2. Nothing \in Views
    BY <1>1, ViewsAre
  <1> QED
    BY <1>1, <1>2 DEF NoAsking, Asking

LEMMA Requested ==
  ASSUME FetchInv, kept' = kept, fetch' = NoAsking \/ fetch' = fetch \/ \E who \in {"poller", "message"} : fetch' = Asking(who)
  PROVE  FetchInv'
  <1>1. CASE fetch' = fetch
    BY <1>1 DEF FetchInv, Old
  <1>2. CASE fetch' = NoAsking \/ \E who \in {"poller", "message"} : fetch' = Asking(who)
    <2>1. /\ fetch'.answer = Nothing /\ DOMAIN Nothing = {}
          /\ fetch' \in [at : {"none", "sent", "read"}, by : {"poller", "message"}, answer : Views]
      BY <1>2, NothingSeen
    <2> QED
      BY <2>1 DEF FetchInv
  <1> QED
    BY <1>1, <1>2

LEMMA Asked ==
  ASSUME NEW who \in {"poller", "message"}, Ask(who)
  PROVE  /\ fetch'.at # "none"
         /\ fetch' = fetch \/ \E some \in {"poller", "message"} : fetch' = Asking(some)
  BY NothingSeen DEF Ask

LEMMA PollersAre ==
  /\ Stopped \in [started : BOOLEAN, timer : BOOLEAN, running : BOOLEAN]
  /\ Waiting \in [started : BOOLEAN, timer : BOOLEAN, running : BOOLEAN]
  /\ ~Stopped.started /\ Waiting.timer /\ ~Waiting.running
  BY DEF Stopped, Waiting

(* What keeps the orders, the cards and the hands.                              *)
LEMMA LoopKeeps ==
  ASSUME KitchenInv, UNCHANGED <<kept, shown, command, selected, armed, asked, others>>,
         fetch' = NoAsking \/ fetch' = fetch \/ \E who \in {"poller", "message"} : fetch' = Asking(who),
         link' \in {"off", "verifying", "joined"}, wire' \in Nat, faults' \in 0..FaultBound,
         poller' \in [started : BOOLEAN, timer : BOOLEAN, running : BOOLEAN], PollerLives'
  PROVE  KitchenInv'
  <1>1. StoreInv' /\ ShownInv' /\ CommandInv'
    BY StoreSame
  <1>2. FetchInv'
    BY Requested DEF KitchenInv
  <1>3. HandsInv'
    BY DEF KitchenInv, HandsInv
  <1>4. LoopInv'
    BY DEF KitchenInv, LoopInv
  <1> QED
    BY <1>1, <1>2, <1>3, <1>4 DEF KitchenInv

LEMMA AskKeeps ==
  ASSUME KitchenInv, TimerFires \/ Invalidate
  PROVE  KitchenInv'
  <1>1. /\ UNCHANGED <<kept, shown, command, selected, armed, asked, others, link, faults>>
        /\ \E who \in {"poller", "message"} : Ask(who)
    BY DEF TimerFires, Invalidate, hands
  <1>2. fetch'.at # "none" /\ (fetch' = fetch \/ \E who \in {"poller", "message"} : fetch' = Asking(who))
    BY <1>1, Asked
  <1>3. wire' \in Nat
    BY DEF TimerFires, Invalidate, KitchenInv, LoopInv
  <1>4. poller' \in [started : BOOLEAN, timer : BOOLEAN, running : BOOLEAN] /\ PollerLives'
    <2>1. CASE TimerFires
      <3>1. PICK old \in [started : BOOLEAN, timer : BOOLEAN, running : BOOLEAN] : old = poller
        BY DEF KitchenInv, LoopInv
      <3>2. PICK new : new = [old EXCEPT !.timer = FALSE, !.running = TRUE]
        OBVIOUS
      <3>3. new.running /\ new \in [started : BOOLEAN, timer : BOOLEAN, running : BOOLEAN]
        BY <3>2
      <3>4. poller' = new
        BY <2>1, <3>1, <3>2 DEF TimerFires
      <3> QED
        BY <1>2, <3>3, <3>4 DEF PollerLives
    <2>2. CASE Invalidate
      BY <1>2, <2>2 DEF Invalidate, KitchenInv, LoopInv, PollerLives
    <2> QED
      BY <2>1, <2>2
  <1>5. link' \in {"off", "verifying", "joined"} /\ faults' \in 0..FaultBound
    BY <1>1 DEF KitchenInv, LoopInv
  <1> QED
    BY <1>1, <1>2, <1>3, <1>4, <1>5, LoopKeeps

LEMMA LinkKeeps ==
  ASSUME KitchenInv, RequestFails \/ Mount \/ Connect \/ Join \/ Disconnect
  PROVE  KitchenInv'
  <1>1. UNCHANGED <<kept, shown, command, selected, armed, asked, others>>
    BY DEF RequestFails, Mount, Connect, Join, Disconnect, hands
  <1>2. fetch' = NoAsking \/ fetch' = fetch \/ \E who \in {"poller", "message"} : fetch' = Asking(who)
    BY DEF RequestFails, Mount, Connect, Join, Disconnect, Replaced
  <1>3. wire' \in Nat /\ link' \in {"off", "verifying", "joined"}
    BY DEF RequestFails, Mount, Connect, Join, Disconnect, KitchenInv, LoopInv
  <1>4. faults' \in 0..FaultBound
    <2>1. faults' = faults \/ (faults < FaultBound /\ faults' = faults + 1)
      BY DEF RequestFails, Mount, Connect, Join, Disconnect, Fault
    <2> QED
      BY <2>1, KitchenAssumption DEF KitchenInv, LoopInv
  <1>5. poller' \in [started : BOOLEAN, timer : BOOLEAN, running : BOOLEAN] /\ PollerLives'
    <2>1. CASE poller' = Waiting
      BY <2>1, PollersAre DEF PollerLives
    <2>2. CASE poller' = poller /\ (fetch' = fetch \/ ~poller.running)
      BY <2>2 DEF KitchenInv, LoopInv, PollerLives
    <2>3. poller' = Waiting \/ (poller' = poller /\ (fetch' = fetch \/ ~poller.running))
      BY DEF RequestFails, Mount, Connect, Join, Disconnect, Replaced, AfterRun
    <2> QED
      BY <2>1, <2>2, <2>3
  <1> QED
    BY <1>1, <1>2, <1>3, <1>4, <1>5, LoopKeeps

LEMMA ReadBoardKeeps ==
  ASSUME KitchenInv, ReadBoard
  PROVE  KitchenInv'
  <1>1. UNCHANGED <<kept, shown, command, selected, armed, asked, others, link, wire, poller, faults>> /\ fetch.at = "sent"
    BY DEF ReadBoard, hands
  <1>2. PICK old, new : old = fetch /\ new = [old EXCEPT !.at = "read", !.answer = Board]
    OBVIOUS
  <1>3. old \in [at : {"none", "sent", "read"}, by : {"poller", "message"}, answer : Views]
    BY <1>2 DEF KitchenInv, FetchInv
  <1>4. Board \in Views /\ \A o \in DOMAIN Board : o \in Orders /\ Board[o] = kept[o] /\ kept[o].status \in OnBoard
    <2>1. PICK S : S = {x \in Orders : kept[x].status \in OnBoard}
      OBVIOUS
    <2>2. S \in SUBSET Orders /\ Board \in [S -> Cards]
      BY <2>1 DEF Board, KitchenInv, StoreInv
    <2> QED
      BY <2>1, <2>2, ViewsAre DEF Board
  <1>5. new.at = "read" /\ new.answer = Board /\ new \in [at : {"none", "sent", "read"}, by : {"poller", "message"}, answer : Views]
    BY <1>2, <1>3, <1>4
  <1>6. fetch' = new
    BY <1>2 DEF ReadBoard
  <1>7. \A o \in DOMAIN Board : Old(Board[o], o)
    <2>1. \A o \in Orders : kept[o] \in Cards /\ kept[o].version \in Nat
      BY DEF KitchenInv, StoreInv, Cards
    <2>2. "NONE" \notin OnBoard
      BY DEF OnBoard
    <2> QED
      BY <1>4, <2>1, <2>2 DEF Old
  <1>8. \A o \in DOMAIN Board : Old(new.answer[o], o)'
    <2>1. \A o \in DOMAIN Board : o \in Orders /\ Old(new.answer[o], o)
      BY <1>4, <1>5, <1>7
    <2> QED
      BY <1>1, <2>1, StoreSame
  <1>9. FetchInv'
    BY <1>5, <1>6, <1>8 DEF FetchInv, Old
  <1>10. StoreInv' /\ ShownInv' /\ CommandInv'
    BY <1>1, StoreSame
  <1>11. HandsInv'
    BY <1>1 DEF KitchenInv, HandsInv
  <1>12. PollerLives'
    BY <1>1, <1>5, <1>6 DEF KitchenInv, LoopInv, PollerLives
  <1>13. LoopInv'
    BY <1>1, <1>12 DEF KitchenInv, LoopInv
  <1> QED
    BY <1>9, <1>10, <1>11, <1>13 DEF KitchenInv

(* The answer replaces the cards; what is selected or armed is a card of it.    *)
LEMMA ShowBoardKeeps ==
  ASSUME KitchenInv, ShowBoard
  PROVE  KitchenInv'
  <1>1. /\ UNCHANGED <<kept, command, asked, others, link, wire, faults>> /\ fetch' = NoAsking
        /\ poller' = Waiting \/ (poller' = poller /\ ~poller.running)
    BY DEF ShowBoard, AfterRun
  <1>2. PICK view : view = fetch.answer
    OBVIOUS
  <1>3. /\ shown' = view /\ selected' = FallBack(DOMAIN shown, DOMAIN view, selected)
        /\ armed' = IF armed \in DOMAIN view THEN armed ELSE Nobody
    BY <1>2 DEF ShowBoard, Shows
  <1>4. view \in Views /\ \A o \in DOMAIN view : Old(view[o], o)
    BY <1>2 DEF KitchenInv, FetchInv
  <1>5. StoreInv' /\ CommandInv'
    BY <1>1, StoreSame
  <1>6. ShownInv'
    BY <1>1, <1>3, <1>4 DEF ShownInv, Old
  <1>7. FetchInv'
    BY <1>1, Requested DEF KitchenInv
  <1>8. HandsInv'
    <2>1. DOMAIN shown \subseteq Orders /\ DOMAIN view \subseteq Orders
      BY <1>4, ViewsAre DEF KitchenInv, ShownInv
    <2>2. selected' \in DOMAIN view \cup {Nobody}
      BY <1>3, <2>1, FallsBack
    <2> QED
      BY <1>1, <1>3, <2>2 DEF KitchenInv, HandsInv
  <1>9. LoopInv'
    <2>1. poller' \in [started : BOOLEAN, timer : BOOLEAN, running : BOOLEAN]
      BY <1>1, PollersAre DEF KitchenInv, LoopInv
    <2>2. PollerLives'
      BY <1>1, PollersAre DEF KitchenInv, LoopInv, PollerLives
    <2> QED
      BY <1>1, <2>1, <2>2 DEF KitchenInv, LoopInv
  <1> QED
    BY <1>5, <1>6, <1>7, <1>8, <1>9 DEF KitchenInv

----------------------------------------------------------------------------
(* The keys.                                                                    *)

(* What keeps all but the hands and the change of a status.                     *)
LEMMA KeysKeep ==
  ASSUME KitchenInv, UNCHANGED <<others, kept, link, wire, shown, fetch, poller, faults>>, HandsInv', CommandInv'
  PROVE  KitchenInv'
  <1>1. StoreInv' /\ ShownInv' /\ FetchInv'
    BY StoreSame
  <1>2. LoopInv'
    BY DEF KitchenInv, LoopInv, PollerLives
  <1> QED
    BY <1>1, <1>2 DEF KitchenInv

LEMMA SelectKeeps ==
  ASSUME KitchenInv, Tab \/ Escape \/ Arm \/ WindowCloses
  PROVE  KitchenInv'
  <1>1. UNCHANGED <<others, kept, link, wire, shown, fetch, poller, faults, command>>
    BY DEF Tab, Escape, Arm, WindowCloses
  <1>2. /\ selected' \in {selected, Nobody} \cup DOMAIN shown /\ asked' \in {asked, selected, Nobody} /\ armed' \in {selected, Nobody}
        /\ armed' # Nobody => selected' = selected /\ asked' = selected /\ armed' = selected
    BY DEF Tab, Escape, Arm, WindowCloses, Select
  <1>3. DOMAIN shown \subseteq Orders
    BY ViewsAre DEF KitchenInv, ShownInv
  <1>4. HandsInv'
    BY <1>1, <1>2, <1>3 DEF KitchenInv, HandsInv
  <1>5. CommandInv'
    BY <1>1, StoreSame
  <1> QED
    BY <1>1, <1>4, <1>5, KeysKeep

(* A change begins with the card as it is shown.                                *)
LEMMA Changes ==
  ASSUME KitchenInv, NEW o \in DOMAIN shown, NEW to \in Statuses \ {"NONE"}, NEW keys \in BOOLEAN, NEW next \in DOMAIN shown \cup {Nobody},
         ChangeStatus(o, to, keys, next), kept' = kept, keys /\ to = "CANCELLED" => asked = o
  PROVE  CommandInv'
  <1>1. DOMAIN shown \subseteq Orders /\ shown[o] \in Cards /\ Old(shown[o], o)
    BY ViewsAre DEF KitchenInv, ShownInv
  <1>2. asked \in Orders \cup {Nobody}
    BY DEF KitchenInv, HandsInv
  <1>3. PICK new : new = [at |-> "sent", order |-> o, to |-> to, saw |-> shown[o], over |-> Nobody, keys |-> keys,
                          asked |-> asked, next |-> next]
    OBVIOUS
  <1>4. /\ new \in Changing /\ new.at = "sent" /\ new.order = o /\ new.to = to /\ new.saw = shown[o] /\ new.keys = keys
        /\ new.asked = asked
    BY <1>1, <1>2, <1>3 DEF Changing
  <1>5. command' = new
    BY <1>3 DEF ChangeStatus
  <1>6. Old(new.saw, new.order)'
    <2>1. \A sight : Old(sight, o) => Old(sight, o)'
      BY DEF Old
    <2> QED
      BY <1>1, <1>4, <2>1
  <1>7. AppliedAsSeen' /\ CancelAskedTwice'
    BY <1>4, <1>5 DEF AppliedAsSeen, CancelAskedTwice
  <1> QED
    BY <1>4, <1>5, <1>6, <1>7 DEF CommandInv, Old

LEMMA PressKeeps ==
  ASSUME KitchenInv, F2 \/ SecondF3 \/ \E o \in Orders : Button(o)
  PROVE  KitchenInv'
  <1>1. UNCHANGED <<others, kept, link, wire, shown, fetch, poller, faults, selected>>
    BY DEF F2, SecondF3, Button
  <1>2. selected \in DOMAIN shown \cup {Nobody} /\ armed \in DOMAIN shown \cup {Nobody}
    BY DEF KitchenInv, HandsInv
  <1>3. HandsInv'
    <2>1. (armed' = Nobody /\ asked' = Nobody) \/ (armed' = armed /\ asked' = asked)
      BY DEF F2, SecondF3, Button
    <2> QED
      BY <1>1, <1>2, <2>1 DEF KitchenInv, HandsInv
  <1>4. CASE F2
    <2>1. selected \in DOMAIN shown
      BY <1>2, <1>4 DEF F2
    <2>2. PICK to \in NextStatuses(selected, shown[selected].status) \ {"CANCELLED"} :
            ChangeStatus(selected, to, TRUE, NextOrderAfter(selected))
      BY <1>4 DEF F2
    <2>3. NextOrderAfter(selected) \in DOMAIN shown \cup {Nobody}
      BY <2>1, ViewsAre, NextThere DEF KitchenInv, ShownInv
    <2>4. to \in Statuses \ {"NONE"}
      BY NextTable
    <2>5. CommandInv'
      BY <1>1, <2>1, <2>2, <2>3, <2>4, Changes
    <2> QED
      BY <1>1, <1>3, <2>5, KeysKeep
  <1>5. CASE SecondF3
    <2>1. selected \in DOMAIN shown /\ asked = selected
      BY <1>2, <1>5 DEF SecondF3, KitchenInv, HandsInv
    <2>2. CASE command' = command
      BY <1>1, <1>3, <2>2, StoreSame, KeysKeep
    <2>3. CASE ChangeStatus(selected, "CANCELLED", TRUE, Nobody)
      <3>1. "CANCELLED" \in Statuses \ {"NONE"}
        BY DEF Statuses, OffBoard
      <3>2. CommandInv'
        BY <1>1, <2>1, <2>3, <3>1, Changes
      <3> QED
        BY <1>1, <1>3, <3>2, KeysKeep
    <2> QED
      BY <1>5, <2>2, <2>3 DEF SecondF3
  <1>6. ASSUME NEW o \in Orders, Button(o)
        PROVE  KitchenInv'
    <2>1. PICK to \in NextStatuses(o, shown[o].status) : ChangeStatus(o, to, FALSE, Nobody)
      BY <1>6 DEF Button
    <2>2. o \in DOMAIN shown /\ to \in Statuses \ {"NONE"}
      BY <1>6, NextTable DEF Button
    <2>3. CommandInv'
      BY <1>1, <2>1, <2>2, Changes
    <2> QED
      BY <1>1, <1>3, <2>3, KeysKeep
  <1> QED
    BY <1>4, <1>5, <1>6

----------------------------------------------------------------------------
(* The change at the server.                                                    *)

(* It takes a step: what it carries stays.                                      *)
LEMMA ChangeSteps ==
  ASSUME KitchenInv, NEW at \in {"sent", "checked", "claimed", "told", "answered", "refused"}, command.at # "idle",
         NEW saw \in Cards, NEW over \in Cards \cup {Nobody},
         command' = [command EXCEPT !.at = at, !.saw = saw, !.over = over],
         Old(saw, command.order)', at \in {"claimed", "told"} => over = saw
  PROVE  CommandInv'
  <1>1. PICK old \in Changing : old = command
    BY CommandIs
  <1>2. PICK new : new = [old EXCEPT !.at = at, !.saw = saw, !.over = over]
    OBVIOUS
  <1>3. /\ new \in Changing /\ new.at = at /\ new.saw = saw /\ new.over = over /\ new.order = old.order /\ new.to = old.to
        /\ new.keys = old.keys /\ new.asked = old.asked
    BY <1>2 DEF Changing
  <1>4. command' = new
    BY <1>1, <1>2
  <1>5. CancelAskedTwice
    BY DEF KitchenInv, CommandInv
  <1>6. AppliedAsSeen' /\ CancelAskedTwice'
    BY <1>1, <1>3, <1>4, <1>5 DEF AppliedAsSeen, CancelAskedTwice
  <1> QED
    BY <1>3, <1>4, <1>6 DEF CommandInv, Old

LEMMA OnlyAt ==
  ASSUME KitchenInv, NEW at \in {"sent", "checked", "claimed", "told", "answered", "refused"}, command.at # "idle",
         command' = [command EXCEPT !.at = at], at \in {"claimed", "told"} => command.at \in {"claimed", "told"},
         kept' = kept
  PROVE  CommandInv'
  <1>1. PICK old \in Changing, saw \in Cards, over \in Cards \cup {Nobody} : old = command /\ saw = old.saw /\ over = old.over
    BY CommandIs DEF Changing
  <1>2. [old EXCEPT !.at = at] = [old EXCEPT !.at = at, !.saw = saw, !.over = over]
    BY <1>1 DEF Changing
  <1>3. command' = [command EXCEPT !.at = at, !.saw = saw, !.over = over] /\ command'.order = old.order
    BY <1>1, <1>2 DEF Changing
  <1>4. Old(saw, old.order)
    BY <1>1, CommandIs
  <1>5. Old(saw, command.order)'
    BY <1>3, <1>4 DEF Old
  <1>6. at \in {"claimed", "told"} => over = saw
    BY <1>1 DEF KitchenInv, CommandInv, AppliedAsSeen
  <1> QED
    BY <1>3, <1>5, <1>6, ChangeSteps

LEMMA ReadsKeeps ==
  ASSUME KitchenInv, UpdateReads
  PROVE  KitchenInv'
  <1>1. UNCHANGED <<others, kept, link, wire, shown, fetch, poller, selected, armed, asked, faults>> /\ command.at = "sent"
    BY DEF UpdateReads
  <1>2. PICK at \in {"checked", "refused"} : command' = [command EXCEPT !.at = at]
    BY DEF UpdateReads
  <1>3. CommandInv'
    BY <1>1, <1>2, OnlyAt
  <1>4. HandsInv'
    BY <1>1 DEF KitchenInv, HandsInv
  <1> QED
    BY <1>1, <1>3, <1>4, KeysKeep

(* What is claimed is what was seen: the version is its, and it was not deleted. *)
LEMMA ClaimsKeeps ==
  ASSUME KitchenInv, UpdateClaims
  PROVE  KitchenInv'
  <1> StoreInv
    BY DEF KitchenInv
  <1>1. UNCHANGED <<others, link, wire, shown, fetch, poller, selected, armed, asked, faults>> /\ command.at = "checked"
    BY DEF UpdateClaims
  <1>2. HandsInv' /\ LoopInv'
    BY <1>1 DEF KitchenInv, HandsInv, LoopInv, PollerLives
  <1>3. CASE ~VersionIs(command.order, command.saw)
    <2>1. kept' = kept /\ command' = [command EXCEPT !.at = "refused"]
      BY <1>3 DEF UpdateClaims
    <2>2. CommandInv'
      BY <1>1, <2>1, OnlyAt
    <2> QED
      BY <1>1, <1>2, <2>1, <2>2, StoreSame DEF KitchenInv
  <1>4. CASE VersionIs(command.order, command.saw)
    <2>1. PICK old \in Changing, o \in Orders : old = command /\ o = old.order
      BY <1>1, CommandIs DEF Changing
    <2>2. PICK saw \in Cards : saw = old.saw /\ Old(saw, o)
      BY <1>1, <2>1, CommandIs DEF Changing
    <2>3. kept[o] = saw /\ saw.status # "NONE"
      BY <1>4, <2>1, <2>2 DEF VersionIs, Old
    <2>4. old.to \in Statuses \ {"NONE"}
      BY <2>1 DEF Changing
    <2>5. kept' = Moved(o, old.to) /\ command' = [command EXCEPT !.at = "claimed", !.over = saw]
      BY <1>4, <2>1, <2>3 DEF UpdateClaims
    <2>6. PICK card : Rewrites(o, card)
      BY <2>3, <2>4, <2>5, MovedIs
    <2>7. StoreInv' /\ ShownInv' /\ FetchInv'
      BY <1>1, <2>6, StoreKeeps
    <2>8. [old EXCEPT !.at = "claimed", !.over = saw] = [old EXCEPT !.at = "claimed", !.saw = saw, !.over = saw]
      BY <2>2 DEF Changing
    <2>9. command' = [command EXCEPT !.at = "claimed", !.saw = saw, !.over = saw] /\ command'.order = o
      BY <2>1, <2>5, <2>8 DEF Changing
    <2>10. Old(saw, command.order)'
      <3>1. \A sight : Old(sight, o) => Old(sight, o)'
        BY <2>6, StoreMoves
      <3> QED
        BY <2>2, <2>9, <3>1 DEF Old
    <2>11. CommandInv'
      BY <1>1, <2>9, <2>10, ChangeSteps
    <2> QED
      BY <1>2, <2>7, <2>11 DEF KitchenInv
  <1> QED
    BY <1>3, <1>4

LEMMA TellsKeeps ==
  ASSUME KitchenInv, UpdateTells
  PROVE  KitchenInv'
  <1>1. /\ UNCHANGED <<others, kept, link, shown, fetch, poller, selected, armed, asked>> /\ command.at = "claimed"
        /\ wire' \in {wire, wire + 1}
        /\ faults' = faults \/ (faults < FaultBound /\ faults' = faults + 1)
    BY DEF UpdateTells, Emit, Fault
  <1>2. PICK at \in {"told", "refused"} : command' = [command EXCEPT !.at = at]
    BY DEF UpdateTells
  <1>3. CommandInv'
    BY <1>1, <1>2, OnlyAt
  <1>4. HandsInv'
    BY <1>1 DEF KitchenInv, HandsInv
  <1>5. LoopInv'
    <2>1. PollerLives'
      BY <1>1 DEF KitchenInv, LoopInv, PollerLives
    <2>2. wire' \in Nat
      <3>1. wire \in Nat
        BY DEF KitchenInv, LoopInv
      <3>2. wire' = wire \/ wire' = wire + 1
        BY <1>1
      <3> QED
        BY <3>1, <3>2
    <2>3. faults' \in 0..FaultBound
      BY <1>1, KitchenAssumption DEF KitchenInv, LoopInv
    <2>4. others' \in 0..OthersBound
      BY <1>1, KitchenAssumption DEF KitchenInv, LoopInv
    <2> QED
      BY <1>1, <2>1, <2>2, <2>3, <2>4 DEF KitchenInv, LoopInv
  <1>6. StoreInv' /\ ShownInv' /\ FetchInv'
    BY <1>1, StoreSame
  <1> QED
    BY <1>3, <1>4, <1>5, <1>6 DEF KitchenInv

LEMMA AnswersKeeps ==
  ASSUME KitchenInv, UpdateAnswers
  PROVE  KitchenInv'
  <1> StoreInv
    BY DEF KitchenInv
  <1>1. /\ UNCHANGED <<others, kept, link, wire, shown, fetch, poller, selected, armed, asked>> /\ command.at = "told"
        /\ faults' = faults \/ (faults < FaultBound /\ faults' = faults + 1)
    BY DEF UpdateAnswers, Fault
  <1>2. HandsInv'
    BY <1>1 DEF KitchenInv, HandsInv
  <1>3. LoopInv'
    <2>1. PollerLives'
      BY <1>1 DEF KitchenInv, LoopInv, PollerLives
    <2>2. wire' \in Nat
      BY <1>1 DEF KitchenInv, LoopInv
    <2>3. faults' \in 0..FaultBound
      BY <1>1, KitchenAssumption DEF KitchenInv, LoopInv
    <2>4. others' \in 0..OthersBound
      BY <1>1, KitchenAssumption DEF KitchenInv, LoopInv
    <2> QED
      BY <1>1, <2>1, <2>2, <2>3, <2>4 DEF KitchenInv, LoopInv
  <1>4. StoreInv' /\ ShownInv' /\ FetchInv'
    BY <1>1, StoreSame
  <1>5. CommandInv'
    <2>1. CASE command' = [command EXCEPT !.at = "refused"]
      BY <1>1, <2>1, OnlyAt
    <2>2. CASE \E at \in {"refused", "answered"} : command' = [command EXCEPT !.at = at, !.saw = kept[command.order]]
      <3>1. PICK at \in {"refused", "answered"} : command' = [command EXCEPT !.at = at, !.saw = kept[command.order]]
        BY <2>2
      <3>2. PICK old \in Changing, o \in Orders, over \in Cards \cup {Nobody} : old = command /\ o = old.order /\ over = old.over
        BY <1>1, CommandIs DEF Changing
      <3>3. PICK saw \in Cards : saw = kept[o]
        BY DEF StoreInv
      <3>4. [old EXCEPT !.at = at, !.saw = saw] = [old EXCEPT !.at = at, !.saw = saw, !.over = over]
        BY <3>2 DEF Changing
      <3>5. command' = [command EXCEPT !.at = at, !.saw = saw, !.over = over] /\ command'.order = o
        BY <3>1, <3>2, <3>3, <3>4 DEF Changing
      <3>6. kept[o].status # "NONE"
        BY <1>1, <3>2, CommandIs, SeenThere
      <3>7. Old(saw, o)
        BY <3>3, <3>6 DEF Old, Cards
      <3>8. Old(saw, command.order)'
        BY <1>1, <3>5, <3>7 DEF Old
      <3> QED
        BY <1>1, <3>5, <3>8, ChangeSteps
    <2>3. \/ \E at \in {"refused", "answered"} : command' = [command EXCEPT !.at = at, !.saw = kept[command.order]]
          \/ command' = [command EXCEPT !.at = "refused"]
      BY DEF UpdateAnswers
    <2> QED
      BY <2>1, <2>2, <2>3
  <1> QED
    BY <1>2, <1>3, <1>4, <1>5 DEF KitchenInv

LEMMA IdleAgain ==
  ASSUME command' = Idle
  PROVE  CommandInv'
  BY DEF CommandInv, Idle, AppliedAsSeen, CancelAskedTwice

LEMMA DoneKeeps ==
  ASSUME KitchenInv, CommandDone
  PROVE  KitchenInv'
  <1>1. UNCHANGED <<others, kept, link, wire, fetch, poller, asked, faults>> /\ command.at = "answered" /\ command' = Idle
    BY DEF CommandDone
  <1>2. PICK old \in Changing, o \in Orders : old = command /\ o = old.order /\ Old(old.saw, o)
    BY <1>1, CommandIs DEF Changing
  <1>3. PICK left : left = IF command.to \in OffBoard THEN DOMAIN shown \ {o} ELSE DOMAIN shown
    OBVIOUS
  <1>4. PICK new : new = [x \in left |-> IF x = o THEN old.saw ELSE shown[x]]
    OBVIOUS
  <1>5. /\ shown' = new
        /\ \E card : selected' = FallBack(DOMAIN shown, left, card)
        /\ armed' = Nobody \/ (armed \in left /\ armed' = armed)
    BY <1>2, <1>3, <1>4 DEF CommandDone
  <1>6. DOMAIN shown \subseteq Orders /\ \A x \in DOMAIN shown : shown[x] \in Cards /\ Old(shown[x], x)
    BY ViewsAre DEF KitchenInv, ShownInv
  <1>7. left \subseteq Orders /\ left \subseteq DOMAIN shown /\ DOMAIN new = left
    BY <1>3, <1>4, <1>6
  <1>8. \A x \in left : new[x] \in Cards /\ Old(new[x], x)
    BY <1>2, <1>4, <1>6, <1>7 DEF Changing
  <1>9. ShownInv'
    <2>1. new \in [left -> Cards]
      BY <1>4, <1>8
    <2>2. new \in Views
      BY <1>7, <2>1, ViewsAre
    <2>3. \A x \in left : Old(new[x], x)'
      BY <1>1, <1>8, <1>4 DEF Old
    <2> QED
      BY <1>1, <1>5, <1>7, <1>8, <2>2 DEF ShownInv, Old
  <1>10. HandsInv'
    <2>1. selected' \in left \cup {Nobody}
      BY <1>5, <1>6, <1>7, FallsBack
    <2> QED
      BY <1>1, <1>5, <1>7, <2>1 DEF KitchenInv, HandsInv
  <1>11. LoopInv'
    BY <1>1 DEF KitchenInv, LoopInv, PollerLives
  <1>12. StoreInv' /\ FetchInv' /\ CommandInv'
    BY <1>1, StoreSame, IdleAgain
  <1> QED
    BY <1>9, <1>10, <1>11, <1>12 DEF KitchenInv

LEMMA FailsKeeps ==
  ASSUME KitchenInv, CommandFails
  PROVE  KitchenInv'
  <1>1. UNCHANGED <<others, kept, link, wire, shown, fetch, poller, selected, armed, asked, faults>> /\ command' = Idle
    BY DEF CommandFails
  <1>2. HandsInv'
    BY <1>1 DEF KitchenInv, HandsInv
  <1> QED
    BY <1>1, <1>2, IdleAgain, KeysKeep

----------------------------------------------------------------------------
LEMMA KitchenBegins ==
  ASSUME KitchenInit
  PROVE  KitchenInv
  <1>1. PICK start \in [Orders -> Statuses] : kept = [o \in Orders |-> [status |-> start[o], version |-> 0]]
    BY KitchenAssumption DEF KitchenInit
  <1>2. \A o \in Orders : kept[o] \in Cards /\ kept[o].version = 0
    BY <1>1 DEF Cards
  <1>3. StoreInv
    BY <1>1, <1>2 DEF StoreInv
  <1>4. Board \in Views /\ \A o \in DOMAIN Board : Board[o] \in Cards /\ Old(Board[o], o)
    <2>1. PICK S : S = {x \in Orders : kept[x].status \in OnBoard}
      OBVIOUS
    <2>2. S \in SUBSET Orders /\ DOMAIN Board = S /\ \A o \in S : Board[o] = kept[o]
      BY <2>1 DEF Board
    <2>3. Board \in [S -> Cards]
      BY <1>2, <2>1, <2>2 DEF Board
    <2>4. \A o \in S : Old(Board[o], o)
      <3>1. "NONE" \notin OnBoard /\ 0 <= 0
        BY DEF OnBoard
      <3> QED
        BY <1>2, <2>1, <2>2, <3>1 DEF Old
    <2> QED
      BY <1>2, <2>2, <2>3, <2>4, ViewsAre
  <1>5. ShownInv
    BY <1>4 DEF ShownInv, KitchenInit
  <1>6. FetchInv
    BY NothingSeen DEF FetchInv, KitchenInit
  <1>7. CommandInv
    BY DEF CommandInv, KitchenInit, Idle, AppliedAsSeen, CancelAskedTwice
  <1>8. HandsInv
    BY DEF HandsInv, KitchenInit
  <1>9. LoopInv
    <2>1. 0 \in 0..FaultBound /\ 0 \in 0..OthersBound /\ 0 \in Nat
      BY KitchenAssumption
    <2> QED
      BY <2>1, PollersAre DEF LoopInv, KitchenInit, PollerLives
  <1> QED
    BY <1>3, <1>5, <1>6, <1>7, <1>8, <1>9 DEF KitchenInv

LEMMA KitchenRests ==
  ASSUME KitchenInv, UNCHANGED kitchenVars
  PROVE  KitchenInv'
  <1>1. HandsInv' /\ CommandInv'
    BY StoreSame DEF KitchenInv, HandsInv, kitchenVars
  <1> QED
    BY <1>1, KeysKeep DEF kitchenVars

LEMMA KitchenStep ==
  ASSUME KitchenInv, [KitchenNext]_kitchenVars
  PROVE  KitchenInv'
  <1>1. CASE \E o \in Orders : OtherCreates(o) \/ OtherMoves(o) \/ OtherClaims(o) \/ OtherDeletes(o)
    BY <1>1, OthersKeep
  <1>2. CASE F2 \/ SecondF3 \/ \E o \in Orders : Button(o)
    BY <1>2, PressKeeps
  <1>3. CASE Steps
    BY <1>3, ReadsKeeps, ClaimsKeeps, TellsKeeps, AnswersKeeps, DoneKeeps, FailsKeeps DEF Steps
  <1>4. CASE Asks
    BY <1>4, AskKeeps, ReadBoardKeeps, ShowBoardKeeps DEF Asks
  <1>5. CASE RequestFails \/ Mount \/ Connect \/ Join \/ Disconnect
    BY <1>5, LinkKeeps
  <1>6. CASE Tab \/ Escape \/ Arm \/ WindowCloses
    BY <1>6, SelectKeeps
  <1>7. CASE UNCHANGED kitchenVars
    BY <1>7, KitchenRests
  <1> QED
    BY <1>1, <1>2, <1>3, <1>4, <1>5, <1>6, <1>7 DEF KitchenNext

LEMMA KitchenHolds ==
  ASSUME KitchenInv
  PROVE  KitchenSafe
  <1>1. AppliedAsSeen /\ CancelAskedTwice /\ PollerLives
    BY DEF KitchenInv, CommandInv, LoopInv
  <1>2. command.at \in {"idle", "sent", "checked", "claimed", "told", "answered", "refused"}
    BY CommandIs DEF Changing
  <1>3. DOMAIN shown \subseteq Orders /\ \A o \in DOMAIN shown : shown[o] \in Cards
    BY ViewsAre DEF KitchenInv, ShownInv
  <1>4. fetch.at \in {"none", "sent", "read"} /\ fetch.by \in {"poller", "message"}
    BY DEF KitchenInv, FetchInv
  <1>5. KitchenTypeOK
    BY <1>2, <1>3, <1>4 DEF KitchenTypeOK, KitchenInv, StoreInv, HandsInv, LoopInv
  <1> QED
    BY <1>1, <1>5 DEF KitchenSafe

(* Whatever is lost and whatever others do meanwhile: a change of a status is  *)
(* made to the order as the card showed it that was pressed; the keyboard      *)
(* cancels an order only by a second F3 on that order; it acts on a card that  *)
(* is shown; and the poller of a page never stops asking.                      *)
THEOREM ScreenIsSafe == KitchenSpec => []KitchenSafe
  <1>1. KitchenInit => KitchenInv
    BY KitchenBegins
  <1>2. KitchenInv /\ [KitchenNext]_kitchenVars => KitchenInv'
    BY KitchenStep
  <1>3. KitchenInv => KitchenSafe
    BY KitchenHolds
  <1> QED
    BY <1>1, <1>2, <1>3, PTL DEF KitchenSpec
================================================================================
