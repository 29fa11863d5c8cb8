-------------------------------- MODULE Exports --------------------------------
(***************************************************************************)
(* Exports of apps/api/src/management/exports (ExportJobService,           *)
(* ExportJobWorker), with EXPORT_DURABLE_JOBS_ENABLED: requests that store *)
(* a row and enqueue a job for it, the boot of a process that enqueues     *)
(* rows left without a job, and workers that build a file, store it and    *)
(* tell the user.  The queue is JobQueue, which BackgroundJobs implements. *)
(***************************************************************************)
EXTENDS JobQueue, FiniteSets

CONSTANTS
  ExportIds,
  Fingerprint,  \* [ExportIds -> requests; equal for equivalent ones]
  TargetOf,     \* [Jobs -> ExportIds]: bound, the jobs ever enqueued for an export
  Local,        \* ASSET_STORAGE_PROVIDER is the file system, not S3
  Faults        \* which of "process", "lease", "database" fail in a run

ASSUME ExportsAssumption ==
  /\ TargetOf \in [Jobs -> ExportIds] /\ DOMAIN Fingerprint = ExportIds
  /\ \A e \in ExportIds : Fingerprint[e] # None
  /\ Key = [j \in Jobs |-> Fingerprint[TargetOf[j]]]
  /\ Limit \in [Jobs -> Nat \ {0}] /\ Local \in BOOLEAN /\ Faults \subseteq {"process", "lease", "database"}
  /\ None \notin Jobs \cup Workers \cup ExportIds \cup {"deleted", "PENDING", "PROCESSING", "COMPLETED", "FAILED",
                                                       "waiting", "running", "succeeded", "failed", "none", "whole", "cut"}
  /\ Workers \cap {"none", "whole", "cut"} = {}

VARIABLES
  row,     \* [ExportIds -> [status, link]]: export_jobs, with backgroundJobId
  create,  \* [ExportIds -> [at, with]]: the request that creates it; with: the job enqueue returned
  sweep,   \* [of, with]: the boot that enqueues rows without a job
  at,      \* [Workers -> step of ExportJobWorker.process]
  file,    \* [ExportIds -> "none", "whole", "cut", or the worker that writes it]
  told,    \* [ExportIds -> completion notices sent]
  lost     \* history: the exports of which a run was cut off

exportVars == <<row, create, sweep, at, file, told, lost>>
vars       == <<queue, exportVars>>

Unfinished == {"PENDING", "PROCESSING"}
Resting    == [of |-> None, with |-> None]
Gone       == {None, "deleted"}

Init ==
  /\ QueueInit
  /\ row = [e \in ExportIds |-> [status |-> None, link |-> None]]
  /\ create = [e \in ExportIds |-> [at |-> "new", with |-> None]]
  /\ sweep = Resting
  /\ at = [w \in Workers |-> "idle"]
  /\ file = [e \in ExportIds |-> "none"]
  /\ told = [e \in ExportIds |-> 0]
  /\ lost = {}

----------------------------------------------------------------------------
(* ExportJobService.create.                                                *)

Goes(e, where, with) == create' = [create EXCEPT ![e] = [at |-> where, with |-> with]]
Sets(e, status)      == row' = [row EXCEPT ![e] = [status |-> status, link |-> row[e].link]]
Links(e, j)          == row' = [row EXCEPT ![e] = [status |-> row[e].status, link |-> j]]

(* An unfinished export of the same request is the answer.                 *)
FindActive(e) ==
  /\ create[e].at = "new"
  /\ Goes(e, IF \E f \in ExportIds : Fingerprint[f] = Fingerprint[e] /\ row[f].status \in Unfinished
             THEN "over" ELSE "free", None)
  /\ UNCHANGED <<queue, row, sweep, at, file, told, lost>>

CreateRow(e) ==
  /\ create[e].at = "free"
  /\ Sets(e, "PENDING") /\ Goes(e, "stored", None)
  /\ UNCHANGED <<queue, sweep, at, file, told, lost>>

(* BackgroundJobService.enqueue returns the new job or the one in the way. *)
Enqueued(e, j) ==
  \/ TargetOf[j] = e /\ Accept(j)
  \/ Key[j] = Fingerprint[e] /\ job[j].status \in Live /\ UNCHANGED queue

CreateEnqueue(e) ==
  /\ create[e].at = "stored"
  /\ \E j \in Jobs : Enqueued(e, j) /\ Goes(e, "enqueued", j)
  /\ UNCHANGED <<row, sweep, at, file, told, lost>>

(* The row is linked to its job, or gives way to the export of the job in  *)
(* the way; an update or a delete of a row that is gone throws.            *)
LinkOrDrop(e, j) == IF TargetOf[j] = e THEN Links(e, j) ELSE Sets(e, "deleted")

CreateLink(e) ==
  /\ create[e].at = "enqueued" /\ row[e].status \notin Gone
  /\ LinkOrDrop(e, create[e].with) /\ Goes(e, "over", None)
  /\ UNCHANGED <<queue, sweep, at, file, told, lost>>

(* It throws, or its process dies.                                         *)
CreateFails(e) ==
  /\ \/ create[e].at \in {"free", "stored", "enqueued"} /\ Faults \cap {"process", "database"} # {}
     \/ create[e].at = "enqueued" /\ row[e].status \in Gone
  /\ Goes(e, "over", None)
  /\ UNCHANGED <<queue, row, sweep, at, file, told, lost>>

----------------------------------------------------------------------------
(* enqueueRecoverableExports, at the boot of any process.  Bound: pages of *)
(* one row, read before and acted upon after what others do.               *)

SweepRead(e) ==
  /\ sweep = Resting /\ row[e] = [status |-> "PENDING", link |-> None]
  /\ sweep' = [of |-> e, with |-> None]
  /\ UNCHANGED <<queue, row, create, at, file, told, lost>>

SweepEnqueue(e) ==
  /\ sweep = [of |-> e, with |-> None]
  /\ \E j \in Jobs : Enqueued(e, j) /\ sweep' = [of |-> e, with |-> j]
  /\ UNCHANGED <<row, create, at, file, told, lost>>

SweepLink ==
  /\ sweep.with # None /\ row[sweep.of].status \notin Gone
  /\ LinkOrDrop(sweep.of, sweep.with) /\ sweep' = Resting
  /\ UNCHANGED <<queue, create, at, file, told, lost>>

(* The process that starts fails to, and starts anew.                      *)
SweepEnds ==
  /\ sweep # Resting /\ sweep' = Resting
  /\ Faults \cap {"process", "database"} # {} \/ row[sweep.of].status \in Gone
  /\ UNCHANGED <<queue, row, create, at, file, told, lost>>

----------------------------------------------------------------------------
(* ExportJobWorker.process, as the handler of the job.                     *)

Target(w) == TargetOf[run[w].of]
Final(w)  == run[w].attempt >= Limit[run[w].of]
Steps(w, where) == at' = [at EXCEPT ![w] = where]

(* Bound: one run is cut off.                                              *)
Strikes(fault) == fault \in Faults /\ lost = {}

Execute(w, j) ==
  /\ at[w] = "idle" /\ Start(w, j) /\ Steps(w, "reading")
  /\ UNCHANGED <<row, create, sweep, file, told, lost>>

Read(w) ==
  /\ at[w] = "reading"
  /\ Steps(w, IF row[Target(w)].status = "PENDING" THEN "starting" ELSE "returned")
  /\ UNCHANGED <<queue, row, create, sweep, file, told, lost>>

(* Updates by id, whatever the status has become.                          *)
MarkProcessing(w) ==
  /\ at[w] = "starting" /\ row[Target(w)].status \notin Gone
  /\ Sets(Target(w), "PROCESSING") /\ Steps(w, "building")
  /\ UNCHANGED <<queue, create, sweep, file, told, lost>>

(* No provider, too many rows: nothing is written.                         *)
BuildFails(w) ==
  /\ at[w] = "building" /\ Steps(w, "catching")
  /\ UNCHANGED <<queue, row, create, sweep, file, told, lost>>

(* On the file system the key must be new (flag wx), and a write that      *)
(* fails removes what is there.                                            *)
OpenFile(w) ==
  LET e == Target(w) IN
  /\ at[w] = "building"
  /\ IF ~Local THEN file' = file /\ Steps(w, "writing")
     ELSE IF file[e] = "none" THEN file' = [file EXCEPT ![e] = w] /\ Steps(w, "writing")
     ELSE file' = [file EXCEPT ![e] = "none"] /\ Steps(w, "catching")
  /\ UNCHANGED <<queue, row, create, sweep, told, lost>>

WriteFile(w) ==
  LET e == Target(w) IN
  /\ at[w] = "writing"
  /\ \/ /\ file' = IF ~Local \/ file[e] = w THEN [file EXCEPT ![e] = "whole"] ELSE file
        /\ Steps(w, "built")
     \/ /\ file' = IF Local THEN [file EXCEPT ![e] = "none"] ELSE file
        /\ Steps(w, "catching")
  /\ UNCHANGED <<queue, row, create, sweep, told, lost>>

MarkCompletedMut(w) ==
  /\ at[w] \in {"building", "built"} /\ row[Target(w)].status \notin Gone
  /\ Sets(Target(w), "COMPLETED") /\ Steps(w, IF at[w] = "building" THEN "writing" ELSE "notifying")
  /\ UNCHANGED <<queue, create, sweep, file, told, lost>>
MarkCompleted(w) ==
  /\ at[w] = "built" /\ row[Target(w)].status \notin Gone
  /\ Sets(Target(w), "COMPLETED") /\ Steps(w, "notifying")
  /\ UNCHANGED <<queue, create, sweep, file, told, lost>>

Notify(w) ==
  /\ at[w] = "notifying" /\ Steps(w, "returned")
  /\ told' = [told EXCEPT ![Target(w)] = @ + 1]
  /\ UNCHANGED <<queue, row, create, sweep, file, lost>>

(* A statement in the try block throws; a row that is gone makes it.       *)
StatementFails(w) ==
  /\ at[w] \in {"starting", "built", "notifying"}
  /\ "database" \in Faults \/ (at[w] # "notifying" /\ row[Target(w)].status \in Gone)
  /\ Steps(w, "catching")
  /\ UNCHANGED <<queue, row, create, sweep, file, told, lost>>

Catch(w) ==
  /\ at[w] = "catching" /\ row[Target(w)].status \notin Gone
  /\ Sets(Target(w), IF Final(w) THEN "FAILED" ELSE "PENDING")
  /\ Steps(w, "throwing")
  /\ UNCHANGED <<queue, create, sweep, file, told, lost>>

(* The first read, or the update after a failure, throws too: the run ends *)
(* and the row stays as it is.                                             *)
Escape(w) ==
  /\ at[w] \in {"reading", "catching"}
  /\ Strikes("database") \/ row[Target(w)].status \in Gone
  /\ Steps(w, "throwing")
  /\ lost' = lost \cup {Target(w)}
  /\ UNCHANGED <<queue, row, create, sweep, file, told>>

Return(w) ==
  /\ at[w] = "returned"
  /\ IF Current(w) THEN Succeed(w) ELSE Quit(w)
  /\ Steps(w, IF run'[w] = Free THEN "idle" ELSE "throwing")
  /\ UNCHANGED <<row, create, sweep, file, told, lost>>

Throw(w) ==
  /\ at[w] = "throwing" /\ Steps(w, "idle")
  /\ IF Current(w) THEN Fail(w) ELSE Quit(w)
  /\ UNCHANGED <<row, create, sweep, file, told, lost>>

(* The process dies, at any step; a half-written file stays.               *)
Die(w) ==
  /\ at[w] # "idle" /\ Strikes("process")
  /\ Quit(w) /\ Steps(w, "idle")
  /\ file' = [e \in ExportIds |-> IF file[e] = w THEN "cut" ELSE file[e]]
  /\ lost' = lost \cup {Target(w)}
  /\ UNCHANGED <<row, create, sweep, told>>

(* The job of a dead run is recovered; with the fault "lease", one of a    *)
(* run that goes on, too.                                                  *)
Running(j) == {w \in Workers : run[w].of = j /\ Current(w)}
Recover(j) ==
  /\ GiveBack(j)
  /\ Running(j) = {} \/ Strikes("lease")
  /\ lost' = lost \cup {TargetOf[j]}
  /\ UNCHANGED <<row, create, sweep, at, file, told>>

Process(w) ==
  \/ Read(w) \/ MarkProcessing(w) \/ BuildFails(w) \/ OpenFile(w) \/ WriteFile(w) \/ MarkCompleted(w)
  \/ Notify(w) \/ StatementFails(w) \/ Catch(w) \/ Escape(w) \/ Return(w) \/ Throw(w)

Next ==
  \/ \E e \in ExportIds :
       \/ FindActive(e) \/ CreateRow(e) \/ CreateEnqueue(e) \/ CreateLink(e) \/ CreateFails(e)
       \/ SweepRead(e) \/ SweepEnqueue(e)
  \/ SweepLink \/ SweepEnds
  \/ \E j \in Jobs : Recover(j) \/ \E w \in Workers : Execute(w, j)
  \/ \E w \in Workers : Process(w) \/ Die(w)

Spec == Init /\ [][Next]_vars

----------------------------------------------------------------------------
TypeOK ==
  /\ row \in [ExportIds -> [status : Unfinished \cup Gone \cup {"COMPLETED", "FAILED"}, link : Jobs \cup {None}]]
  /\ create \in [ExportIds -> [at : {"new", "free", "stored", "enqueued", "over"}, with : Jobs \cup {None}]]
  /\ sweep \in [of : ExportIds \cup {None}, with : Jobs \cup {None}]
  /\ at \in [Workers -> {"idle", "reading", "starting", "building", "writing", "built", "notifying", "returned",
                         "catching", "throwing"}]
  /\ file \in [ExportIds -> {"none", "whole", "cut"} \cup Workers]
  /\ told \in [ExportIds -> Nat] /\ lost \subseteq ExportIds
  /\ \A w \in Workers : at[w] = "idle" <=> run[w] = Free

At(e) == {w \in Workers : run[w].of # None /\ Target(w) = e}

(* An export that has its job is never left unfinished with nobody to      *)
(* finish it, unless one of its runs was cut off: by a dead process, by a  *)
(* lost lease, or by a failed statement outside the try block.             *)
NotForgotten ==
  \A e \in ExportIds : row[e].link # None /\ row[e].status \in Unfinished =>
    \/ \E j \in Jobs : TargetOf[j] = e /\ job[j].status \in Live
    \/ At(e) # {} \/ e \in lost

(* What the user is offered for download is there and whole, although a    *)
(* run that finds a file in its place removes it, and the user was told    *)
(* of it once, although jobs are run again and rows enqueued twice.        *)
FileServed ==
  \A e \in ExportIds : row[e].status = "COMPLETED" /\ e \notin lost =>
    file[e] = "whole" /\ (At(e) = {} => told[e] = 1)

(* Equivalent requests that are unfinished at once share one job: of two   *)
(* of them at most one is built at a time.                                 *)
BuiltOnce ==
  \A v, w \in Workers :
    /\ v # w /\ {at[v], at[w]} \subseteq {"building", "writing", "built"}
    /\ Fingerprint[Target(v)] = Fingerprint[Target(w)]
    => {Target(v), Target(w)} \cap lost # {}

(* What exports promise while they are built, whoever builds them: none is *)
(* forgotten, none is built twice, none is offered in pieces.              *)
ExportSafe == TypeOK /\ FileServed /\ BuiltOnce /\ NotForgotten
================================================================================
