------------------------------- MODULE JobQueue -------------------------------
(***************************************************************************)
(* What common/background-jobs promises to the handlers of its jobs, with  *)
(* no leases, clocks or statements: a job is accepted if no job of its key *)
(* is live, is run at least once and by no more attempts than it has, and  *)
(* only the run of its last attempt can end it.  BackgroundJobs implements *)
(* this; Exports is written over it.                                       *)
(***************************************************************************)
EXTENDS Naturals

CONSTANTS
  Jobs, Workers,
  Key,    \* [Jobs -> keys \cup {None}]: activeKey
  Limit,  \* [Jobs -> Nat \ {0}]: max_attempts
  None

VARIABLES
  job,    \* [Jobs -> [status, attempts]]
  run     \* [Workers -> [of, attempt]]: the handler call a worker is in

queue == <<job, run>>

Live   == {"waiting", "running"}
Free   == [of |-> None, attempt |-> 0]
NoJob  == [status |-> None, attempts |-> 0]
Last(j) == job[j].attempts >= Limit[j]

Rivals(j) == {k \in Jobs : Key[j] # None /\ Key[k] = Key[j] /\ job[k].status \in Live}

(* The run of a worker is still the one the job waits for.                 *)
Current(w) == /\ run[w].of # None /\ job[run[w].of].status = "running"
              /\ job[run[w].of].attempts = run[w].attempt

Becomes(j, status) == job' = [job EXCEPT ![j] = [status |-> status, attempts |-> job[j].attempts]]
Leaves(w)          == run' = [run EXCEPT ![w] = Free]

QueueInit ==
  /\ job = [j \in Jobs |-> NoJob]
  /\ run = [w \in Workers |-> Free]

Accept(j) ==
  /\ job[j].status = None /\ Rivals(j) = {}
  /\ job' = [job EXCEPT ![j] = [status |-> "waiting", attempts |-> 0]]
  /\ UNCHANGED run

Start(w, j) ==
  /\ run[w] = Free /\ job[j].status = "waiting" /\ ~Last(j)
  /\ job' = [job EXCEPT ![j] = [status |-> "running", attempts |-> job[j].attempts + 1]]
  /\ run' = [run EXCEPT ![w] = [of |-> j, attempt |-> job[j].attempts + 1]]

(* The answer to a completed job may be lost: the worker then goes on to   *)
(* report a failure that nobody waits for.                                 *)
Succeed(w) ==
  /\ Current(w) /\ Becomes(run[w].of, "succeeded")
  /\ Leaves(w) \/ UNCHANGED run

Fail(w) ==
  /\ Current(w) /\ Becomes(run[w].of, IF Last(run[w].of) THEN "failed" ELSE "waiting")
  /\ Leaves(w)

(* A run ends without effect: it is not current, or its worker died.       *)
Quit(w) == run[w] # Free /\ Leaves(w) /\ UNCHANGED job

(* The lease of a job ran out, whatever its worker is doing.               *)
GiveBack(j) ==
  /\ job[j].status = "running"
  /\ Becomes(j, IF Last(j) THEN "failed" ELSE "waiting")
  /\ UNCHANGED run

QueueNext ==
  \/ \E j \in Jobs : Accept(j) \/ GiveBack(j) \/ \E w \in Workers : Start(w, j)
  \/ \E w \in Workers : Succeed(w) \/ Fail(w) \/ Quit(w)

QueueSpec == QueueInit /\ [][QueueNext]_queue
===============================================================================
