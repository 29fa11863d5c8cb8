---------------------------- MODULE BackgroundJobs ----------------------------
(***************************************************************************)
(* The durable job queue of apps/api/src/common/background-jobs: a table   *)
(* of jobs in PostgreSQL, workers that claim them under a lease, and a     *)
(* scheduler that gives expired leases back.  Each action is one           *)
(* statement or one transaction; everything between two awaits of          *)
(* BackgroundJobWorker.runOnce is a point where the others can run.        *)
(*                                                                         *)
(* Time is relative, so that it needs no bound: ttl is lease_expires_at    *)
(* minus the present, wait is available_at minus the present and age is    *)
(* the present minus the `now` an actor captured.  All three saturate,     *)
(* beyond the values a comparison can tell apart; ttl is kept only while   *)
(* a job is RUNNING and wait only while it waits, the only times a         *)
(* statement looks at them.                                                *)
(***************************************************************************)
EXTENDS Integers, FiniteSets

CONSTANTS
  Jobs,          \* requests to enqueue; also the row each one may insert
  Workers,       \* BackgroundJobWorker instances, each of concurrency 1
  Schedulers,    \* BackgroundJobRecoveryScheduler instances
  None,          \* SQL NULL
  Key,           \* [Jobs -> keys \cup {None}]: activeKey
  Rank,          \* [Jobs -> 0..3]: CRITICAL, HIGH, NORMAL, LOW
  AttemptLimit,  \* the most max_attempts accepted (25)
  MaxAttempts,   \* [Jobs -> 1..AttemptLimit]: max_attempts
  Lease,         \* BACKGROUND_JOB_LEASE_MS
  HandlerLease,  \* [Jobs -> Nat \ {0}]: handler.policy.leaseMs
  TxTimeout,     \* how long a transaction may stay open
  MaxDelay,      \* the longest backoff
  Batch,         \* rows recovered by one transaction (take: 25)
  AgeCap         \* the age from which a `now` is older than any lease

Actors == Workers \cup Schedulers
Floor  == -(TxTimeout + 1)

(* A transaction that is still open is younger than every lease: 15 s      *)
(* against the 60 s of the default configuration.                          *)
ASSUME ActorsAssumption == Workers \cap Schedulers = {} /\ None \notin Actors \cup Jobs
ASSUME NoneAssumption ==
  None \notin {"PENDING", "RUNNING", "RETRY_WAIT", "SUCCEEDED", "FAILED", "RETRY", "ABANDONED",
               "waiting", "running", "succeeded", "failed"}
ASSUME LimitsAssumption ==
  /\ AttemptLimit \in Nat \ {0} /\ MaxAttempts \in [Jobs -> 1..AttemptLimit]
  /\ HandlerLease \in [Jobs -> Nat \ {0}]
  /\ Lease \in Nat \ {0} /\ TxTimeout \in Nat /\ MaxDelay \in Nat /\ Batch \in Nat \ {0}
  /\ AgeCap \in Nat
ASSUME LeaseAssumption ==
  \A l \in {Lease} \cup {HandlerLease[j] : j \in Jobs} :
    TxTimeout <= l /\ AgeCap >= l + TxTimeout + 1
ASSUME OrderAssumption == Rank \in [Jobs -> 0..3] /\ DOMAIN Key = Jobs

VARIABLES
  request,  \* [Jobs -> how the enqueue call of that job went]
  jobs,     \* [Jobs -> row of background_jobs]
  ledger,   \* [Jobs -> [attempt number -> outcome in background_job_attempts]]
  pc,       \* [Actors -> where runOnce or the scheduler is]
  own,      \* [Workers -> the claimed job and its JobLeaseOwner.leaseVersion]
  age,      \* [Actors -> ticks since `now` was captured]
  seen,     \* [Actors -> expired rows its recoverExpired read and not yet updated]
  beat      \* [Workers -> the heartbeat statement under way]

vars == <<request, jobs, ledger, pc, own, age, seen, beat>>

Active   == {"PENDING", "RUNNING", "RETRY_WAIT"}
Terminal == {"SUCCEEDED", "FAILED"}
NoOwner  == [job |-> None, version |-> 0]
NoBeat   == [job |-> None, version |-> 0, age |-> 0]
MkRow(status, attempts, by, version, ttl, wait) ==
  [status |-> status, attempts |-> attempts, by |-> by, version |-> version, ttl |-> ttl, wait |-> wait]
NoRow == MkRow(None, 0, None, 0, 0, 0)

NoLease(row, status, wait) == MkRow(status, row.attempts, None, row.version, 0, wait)

Above(n) == IF n < Floor THEN Floor ELSE n
Sooner(n) == IF n > AgeCap THEN AgeCap ELSE n

Init ==
  /\ request = [j \in Jobs |-> "new"]
  /\ jobs = [j \in Jobs |-> NoRow]
  /\ ledger = [j \in Jobs |-> [n \in 1..AttemptLimit |-> None]]
  /\ pc = [a \in Actors |-> "idle"]
  /\ own = [w \in Workers |-> NoOwner]
  /\ age = [a \in Actors |-> 0]
  /\ seen = [a \in Actors |-> {}]
  /\ beat = [w \in Workers |-> NoBeat]

----------------------------------------------------------------------------
(* BackgroundJobRepository.enqueue: the insert, and on a violation of the  *)
(* partial unique index over active keys a second statement that looks for *)
(* the job in the way.                                                     *)

ConflictsMut(j) == {k \in Jobs : Key[j] # None /\ Key[k] = Key[j] /\ jobs[k].status = "PENDING"}
Conflicts(j) == {k \in Jobs : /\ Key[j] # None /\ Key[k] = Key[j]
                              /\ jobs[k].status \in Active}

EnqueueInsert(j) ==
  /\ request[j] = "new" /\ Conflicts(j) = {}
  /\ \E delay \in 0..MaxDelay :
       jobs' = [jobs EXCEPT ![j] = MkRow("PENDING", 0, None, 0, 0, delay)]
  /\ request' = [request EXCEPT ![j] = "inserted"]
  /\ UNCHANGED <<ledger, pc, own, age, seen, beat>>

EnqueueConflict(j) ==
  /\ request[j] = "new" /\ Conflicts(j) # {}
  /\ request' = [request EXCEPT ![j] = "conflict"]
  /\ UNCHANGED <<jobs, ledger, pc, own, age, seen, beat>>

EnqueueLookup(j) ==
  /\ request[j] = "conflict"
  /\ request' = [request EXCEPT ![j] = IF Conflicts(j) = {} THEN "rejected" ELSE "joined"]
  /\ UNCHANGED <<jobs, ledger, pc, own, age, seen, beat>>

----------------------------------------------------------------------------
(* recoverExpired: one read of at most Batch expired rows, then one        *)
(* guarded update per row; the verdict comes from the attempts it read.    *)

ExpiredMut(j, a) == jobs[j].status = "RUNNING"
Expired(j, a) == jobs[j].status = "RUNNING" /\ jobs[j].ttl < -age[a]
InTime(a)     == pc[a] = "recovering" /\ age[a] <= TxTimeout

ExpiredAt(now) == {j \in Jobs : jobs[j].status = "RUNNING" /\ jobs[j].ttl < -now}

(* `now` is captured and the transaction opens with the read.              *)
RecoverRead(a) ==
  /\ pc[a] = "idle"
  /\ \E batch \in SUBSET ExpiredAt(0) :
       /\ Cardinality(batch) <= Batch
       /\ batch = ExpiredAt(0) \/ Cardinality(batch) = Batch
       /\ seen' = [seen EXCEPT ![a] = {[job |-> j, attempts |-> jobs[j].attempts] : j \in batch}]
  /\ pc' = [pc EXCEPT ![a] = "recovering"]
  /\ age' = [age EXCEPT ![a] = 0]
  /\ UNCHANGED <<request, jobs, ledger, own, beat>>

AbandonMut(j) == ledger
Abandon(j) == [ledger EXCEPT ![j] =
  [n \in DOMAIN ledger[j] |-> IF ledger[j][n] = "RUNNING" THEN "ABANDONED" ELSE ledger[j][n]]]

RecoverOne(a, r) ==
  LET j == r.job IN
  /\ InTime(a) /\ r \in seen[a]
  /\ seen' = [seen EXCEPT ![a] = @ \ {r}]
  /\ IF Expired(j, a)
     THEN /\ jobs' = [jobs EXCEPT ![j] =
               IF r.attempts >= MaxAttempts[j] THEN NoLease(@, "FAILED", 0)
                                               ELSE NoLease(@, "RETRY_WAIT", -age[a])]
          /\ ledger' = Abandon(j)
     ELSE UNCHANGED <<jobs, ledger>>
  /\ UNCHANGED <<request, pc, own, age, beat>>

(* The scheduler commits once every row it read is dealt with.             *)
RecoverCommit(a) ==
  /\ a \in Schedulers /\ InTime(a) /\ seen[a] = {}
  /\ pc' = [pc EXCEPT ![a] = "idle"]
  /\ age' = [age EXCEPT ![a] = 0]
  /\ UNCHANGED <<request, jobs, ledger, own, seen, beat>>

(* The database or the 15 s timeout ends the transaction.  Rows it had     *)
(* already given back stay so here, as after another recovery.             *)
TxAbort(a) ==
  /\ pc[a] = "recovering"
  /\ pc' = [pc EXCEPT ![a] = "idle"]
  /\ age' = [age EXCEPT ![a] = 0]
  /\ seen' = [seen EXCEPT ![a] = {}]
  /\ UNCHANGED <<request, jobs, ledger, own, beat>>

----------------------------------------------------------------------------
(* claimNext: after the recovery, the best candidate that memory pressure  *)
(* admits and no other open transaction has locked.                        *)

CandidatesMut(w, pressure) ==
  {j \in Jobs : /\ jobs[j].status = "PENDING" /\ jobs[j].wait <= -age[w]
                /\ jobs[j].attempts < MaxAttempts[j]
                /\ pressure = "HIGH" => Rank[j] <= 1}
Candidates(w, pressure) ==
  {j \in Jobs : /\ jobs[j].status \in {"PENDING", "RETRY_WAIT"}
                /\ jobs[j].wait <= -age[w]
                /\ jobs[j].attempts < MaxAttempts[j]
                /\ pressure = "HIGH" => Rank[j] <= 1}

SkipLocked(w) ==
  IF \E a \in Actors \ {w} : pc[a] = "recovering" THEN SUBSET Jobs ELSE {{}}

Best(S) == {j \in S : \A k \in S : Rank[j] <= Rank[k]}

LeasedMut(row, w) ==
  MkRow("RUNNING", row.attempts + 1, w, row.version, Above(Lease - age[w]), 0)
Leased(row, w) ==
  MkRow("RUNNING", row.attempts + 1, w, row.version + 1, Above(Lease - age[w]), 0)

Claim(w, j) ==
  /\ jobs' = [jobs EXCEPT ![j] = Leased(@, w)]
  /\ ledger' = [ledger EXCEPT ![j][jobs[j].attempts + 1] = "RUNNING"]
  /\ own' = [own EXCEPT ![w] = [job |-> j, version |-> jobs'[j].version]]
  /\ pc' = [pc EXCEPT ![w] = "claimed"]
  /\ UNCHANGED <<request, age, seen, beat>>

ClaimNext(w) ==
  /\ w \in Workers /\ InTime(w) /\ seen[w] = {}
  /\ \E pressure \in {"NORMAL", "HIGH"}, locked \in SkipLocked(w) :
       \E j \in Best(Candidates(w, pressure) \ locked) : Claim(w, j)

ClaimNothing(w) ==
  /\ w \in Workers /\ InTime(w) /\ seen[w] = {}
  /\ \E pressure \in {"NORMAL", "HIGH"}, locked \in SkipLocked(w) :
       Candidates(w, pressure) \subseteq locked
  /\ pc' = [pc EXCEPT ![w] = "idle"]
  /\ age' = [age EXCEPT ![w] = 0]
  /\ UNCHANGED <<request, jobs, ledger, own, seen, beat>>

----------------------------------------------------------------------------
(* runOnce after the claim.                                                *)

HoldsNoOwnerMut(o, w)  == o.job # None /\ jobs[o.job].status = "RUNNING"
HoldsNoStatusMut(o, w) == o.job # None /\ jobs[o.job].version = o.version
Holds(o, w) == /\ o.job # None /\ jobs[o.job].status = "RUNNING"
               /\ jobs[o.job].by = w /\ jobs[o.job].version = o.version

Renew(o, w, late) ==
  IF Holds(o, w)
  THEN jobs' = [jobs EXCEPT ![o.job] =
         MkRow("RUNNING", @.attempts, w, @.version, Above(HandlerLease[o.job] - late), 0)]
  ELSE jobs' = jobs

Release(w) ==
  /\ pc' = [pc EXCEPT ![w] = "idle"]
  /\ own' = [own EXCEPT ![w] = NoOwner]
  /\ age' = [age EXCEPT ![w] = 0]

(* The first heartbeat still uses the `now` of the claim; its answer is    *)
(* not looked at, and the handler starts whether the lease is held or not. *)
FirstHeartbeat(w) ==
  /\ pc[w] = "claimed"
  /\ Renew(own[w], w, age[w])
  /\ pc' = [pc EXCEPT ![w] = "executing"]
  /\ age' = [age EXCEPT ![w] = 0]
  /\ UNCHANGED <<request, ledger, own, seen, beat>>

(* A database error there leaves runOnce, and the job RUNNING.             *)
FirstHeartbeatThrows(w) ==
  /\ pc[w] = "claimed" /\ Release(w)
  /\ UNCHANGED <<request, jobs, ledger, seen, beat>>

(* setInterval sends a heartbeat that nobody awaits; it may land late,     *)
(* after runOnce has moved on to another job.                              *)
SendHeartbeat(w) ==
  /\ pc[w] \in {"executing", "finishing", "failing"} /\ beat[w] = NoBeat
  /\ beat' = [beat EXCEPT ![w] = [job |-> own[w].job, version |-> own[w].version, age |-> 0]]
  /\ UNCHANGED <<request, jobs, ledger, pc, own, age, seen>>

Owner(b) == [job |-> b.job, version |-> b.version]

Heartbeat(w) ==
  /\ beat[w] # NoBeat
  /\ Renew(Owner(beat[w]), w, beat[w].age)
  /\ beat' = [beat EXCEPT ![w] = NoBeat]
  /\ UNCHANGED <<request, ledger, pc, own, age, seen>>

HeartbeatLost(w) ==
  /\ beat[w] # NoBeat
  /\ beat' = [beat EXCEPT ![w] = NoBeat]
  /\ UNCHANGED <<request, jobs, ledger, pc, own, age, seen>>

HandlerReturns(w) ==
  /\ pc[w] = "executing"
  /\ pc' = [pc EXCEPT ![w] = "finishing"]
  /\ UNCHANGED <<request, jobs, ledger, own, age, seen, beat>>

HandlerThrows(w) ==
  /\ pc[w] = "executing"
  /\ pc' = [pc EXCEPT ![w] = "failing"]
  /\ UNCHANGED <<request, jobs, ledger, own, age, seen, beat>>

Complete(w) ==
  /\ IF Holds(own[w], w)
     THEN LET j == own[w].job
              n == own[w].version
          IN /\ jobs' = [jobs EXCEPT ![j] = NoLease(@, "SUCCEEDED", 0)]
             /\ ledger' = [ledger EXCEPT ![j] = [m \in DOMAIN @ |->
                             IF m = n /\ @[m] = "RUNNING" THEN "SUCCEEDED" ELSE @[m]]]
     ELSE UNCHANGED <<jobs, ledger>>

Finish(w) ==
  /\ pc[w] = "finishing" /\ Complete(w) /\ Release(w)
  /\ UNCHANGED <<request, seen, beat>>

(* reportProgress or complete throws, the latter before or after its       *)
(* commit: runOnce then goes on to retryOrFail.                            *)
FinishThrows(w) ==
  /\ pc[w] = "finishing"
  /\ Complete(w) \/ UNCHANGED <<jobs, ledger>>
  /\ pc' = [pc EXCEPT ![w] = "failing"]
  /\ UNCHANGED <<request, own, age, seen, beat>>

RetryOrFail(w) ==
  /\ pc[w] = "failing"
  /\ IF Holds(own[w], w)
     THEN LET j == own[w].job
              last == jobs[j].attempts >= MaxAttempts[j]
              n == jobs[j].attempts
          IN /\ \E delay \in 0..MaxDelay :
                  jobs' = [jobs EXCEPT ![j] = IF last THEN NoLease(@, "FAILED", 0)
                                                      ELSE NoLease(@, "RETRY_WAIT", delay)]
             /\ ledger' = [ledger EXCEPT ![j] = [m \in DOMAIN @ |->
                  IF m = n /\ @[m] = "RUNNING" THEN (IF last THEN "FAILED" ELSE "RETRY") ELSE @[m]]]
     ELSE UNCHANGED <<jobs, ledger>>
  /\ Release(w)
  /\ UNCHANGED <<request, seen, beat>>

RetryOrFailThrows(w) ==
  /\ pc[w] = "failing" /\ Release(w)
  /\ UNCHANGED <<request, jobs, ledger, seen, beat>>

----------------------------------------------------------------------------
(* The process dies; a new one has a new workerId, and since every claim   *)
(* raises lease_version no statement can tell it from the old name.        *)

Crash(w) ==
  /\ pc[w] # "down"
  /\ pc' = [pc EXCEPT ![w] = "down"]
  /\ own' = [own EXCEPT ![w] = NoOwner]
  /\ age' = [age EXCEPT ![w] = 0]
  /\ seen' = [seen EXCEPT ![w] = {}]
  /\ UNCHANGED <<request, jobs, ledger, beat>>

Restart(w) ==
  /\ pc[w] = "down"
  /\ pc' = [pc EXCEPT ![w] = "idle"]
  /\ UNCHANGED <<request, jobs, ledger, own, age, seen, beat>>

Older(row) ==
  MkRow(row.status, row.attempts, row.by, row.version,
        IF row.status = "RUNNING" THEN Above(row.ttl - 1) ELSE row.ttl,
        IF row.status \in {"PENDING", "RETRY_WAIT"} THEN Above(row.wait - 1) ELSE row.wait)

(* A statement that waits longer than TxTimeout is dropped by the pool, so *)
(* time stops for a heartbeat of that age until it lands or is lost.       *)
Tick ==
  /\ \A w \in Workers : beat[w].age < TxTimeout \/ beat[w] = NoBeat
  /\ jobs' = [j \in Jobs |-> Older(jobs[j])]
  /\ age' = [a \in Actors |-> IF pc[a] \in {"recovering", "claimed"} THEN Sooner(age[a] + 1) ELSE age[a]]
  /\ beat' = [w \in Workers |-> IF beat[w] = NoBeat THEN NoBeat ELSE
                         [job |-> beat[w].job, version |-> beat[w].version, age |-> beat[w].age + 1]]
  /\ UNCHANGED <<request, ledger, pc, own, seen>>

Worker(w) ==
  \/ ClaimNext(w) \/ ClaimNothing(w) \/ FirstHeartbeat(w) \/ FirstHeartbeatThrows(w)
  \/ SendHeartbeat(w) \/ Heartbeat(w) \/ HeartbeatLost(w)
  \/ HandlerReturns(w) \/ HandlerThrows(w) \/ Finish(w) \/ FinishThrows(w)
  \/ RetryOrFail(w) \/ RetryOrFailThrows(w) \/ Crash(w) \/ Restart(w)

Recovery(a) ==
  \/ RecoverRead(a) \/ RecoverCommit(a) \/ TxAbort(a)
  \/ \E r \in seen[a] : RecoverOne(a, r)

Next ==
  \/ \E j \in Jobs : EnqueueInsert(j) \/ EnqueueConflict(j) \/ EnqueueLookup(j)
  \/ \E a \in Actors : Recovery(a)
  \/ \E w \in Workers : Worker(w)
  \/ Tick

Spec == Init /\ [][Next]_vars

----------------------------------------------------------------------------
(* The scheduling the code gives: the clock runs, the loops of runOnce and *)
(* of the scheduler come round again whatever fails, a dead worker is      *)
(* started again, handlers end, and a transaction that can be tried for    *)
(* ever is not aborted for ever.  Memory pressure does not last.           *)
Proceed(w) ==
  \/ FirstHeartbeat(w) \/ HandlerReturns(w) \/ HandlerThrows(w)
  \/ Finish(w) \/ RetryOrFail(w)

Fairness ==
  /\ WF_vars(Tick)
  /\ \A a \in Actors : /\ SF_vars(RecoverRead(a))
                       /\ SF_vars(\E r \in seen[a] : RecoverOne(a, r))
                       /\ SF_vars(RecoverCommit(a))
                       /\ WF_vars(TxAbort(a) /\ ~InTime(a))
  /\ \A w \in Workers : /\ SF_vars(ClaimNext(w))
                        /\ WF_vars(Proceed(w))
                        /\ WF_vars(Heartbeat(w) \/ HeartbeatLost(w))
                        /\ WF_vars(Restart(w))

FairSpec == Spec /\ Fairness

----------------------------------------------------------------------------
(* Types; a row exists for an inserted request, and is leased while RUNNING. *)

Row == [status : {None, "PENDING", "RUNNING", "RETRY_WAIT", "SUCCEEDED", "FAILED"},
        attempts : Nat, version : Nat, by : Workers \cup {None},
        ttl : Int, wait : Int]

Outcome == {None, "RUNNING", "SUCCEEDED", "RETRY", "FAILED", "ABANDONED"}

RowsOK ==
  /\ request \in [Jobs -> {"new", "inserted", "conflict", "joined", "rejected"}]
  /\ jobs \in [Jobs -> Row]
  /\ \A j \in Jobs : /\ jobs[j].status = None <=> request[j] # "inserted"
                     /\ jobs[j].status = None => jobs[j].attempts = 0
                     /\ jobs[j].status = "RUNNING" <=> jobs[j].by # None

LedgerOK == ledger \in [Jobs -> [1..AttemptLimit -> Outcome]]

ProcessesOK ==
  /\ pc \in [Actors -> {"idle", "recovering", "claimed", "executing", "finishing", "failing", "down"}]
  /\ own \in [Workers -> [job : Jobs \cup {None}, version : Nat]]
  /\ age \in [Actors -> Nat]
  /\ seen \in [Actors -> SUBSET [job : Jobs, attempts : Nat]]
  /\ beat \in [Workers -> [job : Jobs \cup {None}, version : Nat, age : Nat]]

TypeOK == RowsOK /\ LedgerOK /\ ProcessesOK

(* The attempt history agrees with the job: one line per claim, written in *)
(* order, open exactly while the job is RUNNING, and SUCCEEDED only on the *)
(* last line of a job that succeeded.  complete addresses the line by      *)
(* lease_version and retryOrFail by attempts, so the two must stay equal.  *)
AttemptLedger ==
  \A j \in Jobs :
    /\ jobs[j].attempts = jobs[j].version
    /\ jobs[j].attempts <= MaxAttempts[j]
    /\ \A n \in 1..AttemptLimit :
         /\ ledger[j][n] = None <=> n > jobs[j].attempts
         /\ ledger[j][n] = "RUNNING" <=> n = jobs[j].attempts /\ jobs[j].status = "RUNNING"
         /\ ledger[j][n] = "SUCCEEDED" <=> n = jobs[j].attempts /\ jobs[j].status = "SUCCEEDED"

(* A lease is never granted twice: of two workers that both think they own *)
(* a job, at most the one with the row's version does, and the heartbeats  *)
(* still under way are no newer than the row (fencing by lease_version).   *)
Fencing ==
  \A w \in Workers :
    /\ own[w].job # None =>
         /\ own[w].version <= jobs[own[w].job].version
         /\ \A v \in Workers \ {w} : own[v].job = own[w].job => own[v].version # own[w].version
    /\ beat[w].job # None => beat[w].version <= jobs[beat[w].job].version

(* No job is stranded: one that waits still has an attempt left, so that   *)
(* claimNext (attempts < max_attempts) can take it.  recoverExpired        *)
(* decides from attempts it read earlier in its transaction.               *)
NotStranded ==
  \A j \in Jobs : jobs[j].status \in {"PENDING", "RETRY_WAIT"} => jobs[j].attempts < MaxAttempts[j]

(* What an open transaction read about an expired lease does not turn      *)
(* against a later claim: if the job was claimed again in the meantime,    *)
(* the new lease outlasts the `now` of that transaction, and so does the   *)
(* first heartbeat, which still uses the `now` of its claim.               *)
TimelyReads ==
  \A a \in Actors : \A r \in seen[a] :
    /\ r.attempts <= jobs[r.job].attempts
    /\ r.attempts < jobs[r.job].attempts /\ InTime(a) =>
         /\ ~Expired(r.job, a)
         /\ \A w \in Workers :
              pc[w] = "claimed" /\ own[w].job = r.job /\ Holds(own[w], w) => age[w] <= TxTimeout + age[a]

(* The partial unique index: one active job per key, whatever the retries. *)
OneActivePerKey ==
  \A j, k \in Jobs :
    /\ Key[j] # None /\ Key[k] = Key[j]
    /\ jobs[j].status \in Active /\ jobs[k].status \in Active
    => j = k

(* A SUCCEEDED or FAILED job never runs again.                             *)
TerminalIsFinal ==
  [][\A j \in Jobs : jobs[j].status \in Terminal => jobs'[j].status = jobs[j].status]_vars

(* Only the holder of the current lease completes a job, after its handler *)
(* returned: a worker whose lease was recovered cannot overwrite the       *)
(* result of the next one.                                                 *)
OnlyOwnerCompletes ==
  [][\A j \in Jobs :
       jobs[j].status # "SUCCEEDED" /\ jobs'[j].status = "SUCCEEDED" =>
         \E w \in Workers : /\ pc[w] = "finishing" /\ jobs[j].by = w
                            /\ own[w] = [job |-> j, version |-> jobs[j].version]]_vars

(* A worker loses a job it is executing only when the lease has run out:   *)
(* recoverExpired checks the lease again when it updates the row, so a     *)
(* heartbeat that lands after the read still saves the job.                *)
NoEarlyTakeover ==
  [][\A j \in Jobs :
       jobs[j].status = "RUNNING" /\ jobs'[j].status # "RUNNING" =>
         \/ jobs[j].ttl < 0
         \/ \E w \in Workers : own[w] = [job |-> j, version |-> jobs[j].version] /\ pc'[w] # pc[w]]_vars

(* Leases are safe: no two workers hold one version, no job waits without  *)
(* an attempt left, and no recovery that read an expired lease acts on a   *)
(* later one.                                                              *)
LeaseSafe == TypeOK /\ TimelyReads /\ Fencing /\ NotStranded

(* A lease holds: nobody else ends its job, nor takes it before its time.  *)
LeaseHolds == OnlyOwnerCompletes /\ NoEarlyTakeover

(* Every job is worked off: it succeeds, or it fails after max_attempts.   *)
EveryJobEnds ==
  \A j \in Jobs : (request[j] = "inserted") ~> (jobs[j].status \in Terminal)

----------------------------------------------------------------------------
(* What a handler sees of all this is an abstract queue: leases, delays    *)
(* and statements are gone, and lease_version is the number of the attempt.*)
QueueStatus ==
  [s \in Active \cup Terminal \cup {None} |->
     CASE s = "RUNNING" -> "running" [] s \in Active \ {"RUNNING"} -> "waiting"
       [] s = "SUCCEEDED" -> "succeeded" [] s = "FAILED" -> "failed" [] OTHER -> None]

Queue == INSTANCE JobQueue WITH
  Limit <- MaxAttempts,
  job   <- [j \in Jobs |-> [status |-> QueueStatus[jobs[j].status], attempts |-> jobs[j].attempts]],
  run   <- [w \in Workers |-> [of |-> own[w].job, attempt |-> own[w].version]]

(* Whatever leases run out, recoveries overlap and answers get lost, each  *)
(* step is one the queue promises: an attempt is started only while there  *)
(* is one left, a job is given back or failed by its attempts, and only    *)
(* its current run decides its end.                                        *)
ImplementsQueue == Queue!QueueSpec
============================================================================
