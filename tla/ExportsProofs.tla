----------------------------- MODULE ExportsProofs -----------------------------
(* Proofs about Exports, for any number of exports, jobs and workers: no        *)
(* export is forgotten, none is built twice, and none is offered in pieces.     *)
EXTENDS Exports, TLAPS

Over    == {"succeeded", "failed"}
States  == {None} \cup Live \cup Over
Begun   == {"starting", "building", "writing", "built", "notifying", "catching"}
RunRow  == [of : Jobs, attempt : Nat \ {0}]

----------------------------------------------------------------------------
(* The queue: one live job of a key, and one worker with an attempt of it.    *)
QueueTypes ==
  /\ job \in [Jobs -> [status : States, attempts : Nat]]
  /\ run \in [Workers -> RunRow \cup {Free}]
  /\ at \in [Workers -> {"idle", "reading", "starting", "building", "writing", "built", "notifying", "returned",
                         "catching", "throwing"}]
  /\ \A w \in Workers : at[w] = "idle" <=> run[w] = Free
QueueInv ==
  /\ QueueTypes
  /\ \A i, j \in Jobs : Key[i] = Key[j] /\ {job[i].status, job[j].status} \subseteq Live => i = j
  /\ \A v \in Workers : run[v] # Free => run[v].attempt <= job[run[v].of].attempts /\ job[run[v].of].status # None
  /\ \A v, w \in Workers : v # w /\ run[v] # Free => run[v] # run[w]

(* The rows: each has what it is linked to, and jobs are of rows.             *)
RowTypes ==
  /\ row \in [ExportIds -> [status : Unfinished \cup Gone \cup {"COMPLETED", "FAILED"}, link : Jobs \cup {None}]]
  /\ create \in [ExportIds -> [at : {"new", "free", "stored", "enqueued", "over"}, with : Jobs \cup {None}]]
  /\ sweep \in [of : ExportIds \cup {None}, with : Jobs \cup {None}]
  /\ file \in [ExportIds -> {"none", "whole", "cut"} \cup Workers]
  /\ told \in [ExportIds -> Nat] /\ lost \subseteq ExportIds
Known(j) == j # None => job[j].status # None
RowInv ==
  /\ RowTypes
  /\ \A e \in ExportIds : /\ create[e].at \in {"new", "free"} => row[e].status = None
                          /\ create[e].at \in {"stored", "enqueued"} => row[e].status # None
                          /\ create[e].at = "enqueued" => create[e].with # None
                          /\ Known(create[e].with)
                          /\ Known(row[e].link) /\ (row[e].link # None => TargetOf[row[e].link] = e)
  /\ sweep.of # None => row[sweep.of].status # None
  /\ sweep.with # None => sweep.of # None /\ Known(sweep.with)
  /\ \A j \in Jobs : job[j].status # None => row[TargetOf[j]].status # None

(* A worker that is current does for its export what its step says; another   *)
(* one has only to leave.                                                     *)
Ended(e) == \E j \in Jobs : TargetOf[j] = e /\ job[j].status \in Over
Works(w, e) ==
  /\ at[w] \in Begun => ~Ended(e) /\ told[e] = 0
  /\ at[w] = "starting" => row[e].status \in {"PENDING", "deleted"}
  /\ at[w] \in {"building", "writing", "built"} => row[e].status \in {"PROCESSING", "deleted"}
  /\ at[w] = "writing" /\ Local => file[e] = w
  /\ at[w] = "built" => file[e] = "whole"
  /\ at[w] = "notifying" => row[e].status \in {"COMPLETED", "deleted"}
  /\ at[w] = "returned" => row[e].status \notin Unfinished
  /\ at[w] = "throwing" => row[e].status # "PROCESSING" /\ (row[e].status = "PENDING" => ~Final(w))
Held(w) ==
  \/ Current(w) /\ Works(w, Target(w))
  \/ at[w] = "throwing" /\ job[run[w].of].status \in Over

OnIt(e, steps) == \E w \in Workers : Current(w) /\ Target(w) = e /\ at[w] \in steps
Kept(e) ==
  /\ row[e].status \in Unfinished \cup {None} => told[e] = 0 /\ ~Ended(e)
  /\ row[e].status = "COMPLETED" => file[e] = "whole" /\ (told[e] = 1 \/ OnIt(e, {"notifying", "catching"}))
  /\ row[e].status = "PROCESSING" => OnIt(e, {"building", "writing", "built", "catching"})

ExportInv ==
  /\ QueueInv /\ RowInv
  /\ \A w \in Workers : run[w] # Free /\ Target(w) \notin lost => Held(w)
  /\ \A e \in ExportIds \ lost : Kept(e)

----------------------------------------------------------------------------
(* One live job of an export, and one worker that is current for it.          *)
LEMMA Keyed ==
  /\ \A j \in Jobs : TargetOf[j] \in ExportIds /\ Key[j] = Fingerprint[TargetOf[j]] /\ Key[j] # None
                     /\ Limit[j] \in Nat /\ Limit[j] > 0 /\ j # None
  /\ Free.of = None
  /\ Free \notin RunRow
  <1>1. \A j \in Jobs : TargetOf[j] \in ExportIds /\ Limit[j] \in Nat \ {0} /\ j # None
    BY ExportsAssumption
  <1>2. \A j \in Jobs : Key[j] = Fingerprint[TargetOf[j]]
    BY ExportsAssumption
  <1>3. \A j \in Jobs : Key[j] # None
    BY <1>1, <1>2, ExportsAssumption
  <1>4. Free.of = None /\ Free \notin RunRow
    BY <1>1 DEF Free, RunRow
  <1> QED
    BY <1>1, <1>2, <1>3, <1>4

LEMMA RunningRow ==
  ASSUME QueueTypes, NEW w \in Workers, run[w] # Free
  PROVE  /\ run[w] \in RunRow /\ run[w].of \in Jobs /\ run[w].of # None /\ run[w].attempt \in Nat
         /\ Target(w) \in ExportIds /\ Target(w) = TargetOf[run[w].of]
         /\ Current(w) <=> job[run[w].of].status = "running" /\ job[run[w].of].attempts = run[w].attempt
  <1>1. run[w] \in RunRow /\ run[w].of \in Jobs /\ run[w].attempt \in Nat
    BY DEF QueueTypes, RunRow
  <1> QED
    BY <1>1, Keyed DEF Current, Target

LEMMA CurrentIsThere ==
  ASSUME QueueTypes, NEW w \in Workers, Current(w)
  PROVE  run[w] # Free
  BY Keyed DEF Current

LEMMA OneCurrent ==
  ASSUME QueueInv, NEW v \in Workers, NEW w \in Workers, Current(v), Current(w),
         Key[run[v].of] = Key[run[w].of]
  PROVE  v = w
  <1> QueueTypes
    BY DEF QueueInv
  <1>1. /\ run[v] \in RunRow /\ run[v].of \in Jobs /\ run[w] \in RunRow /\ run[w].of \in Jobs /\ run[v] # Free
    BY CurrentIsThere, RunningRow
  <1>2. job[run[v].of].status \in Live /\ job[run[w].of].status \in Live
    BY DEF Current, Live
  <1>3. run[v].of = run[w].of
    BY <1>1, <1>2 DEF QueueInv
  <1>4. run[v].attempt = run[w].attempt
    BY <1>3 DEF Current
  <1>5. run[v] = run[w]
    BY <1>1, <1>3, <1>4 DEF RunRow
  <1> QED
    BY <1>1, <1>5 DEF QueueInv

LEMMA Alone ==
  ASSUME QueueInv, NEW w \in Workers, Current(w), NEW e, e = Target(w), NEW steps
  PROVE  OnIt(e, steps) <=> at[w] \in steps
  <1>1. ASSUME NEW v \in Workers, Current(v), Target(v) = e
        PROVE  v = w
    <2>1. run[v].of \in Jobs /\ run[w].of \in Jobs /\ TargetOf[run[v].of] = TargetOf[run[w].of]
      BY <1>1, CurrentIsThere, RunningRow DEF QueueInv
    <2>2. Key[run[v].of] = Key[run[w].of]
      BY <2>1, Keyed
    <2> QED
      BY <1>1, <2>2, OneCurrent
  <1> QED
    BY <1>1 DEF OnIt

(* Beside a current worker of an export that was not cut off, another one has *)
(* only to leave.                                                             *)
LEMMA OthersLeave ==
  ASSUME ExportInv, NEW w \in Workers, Current(w), NEW e, e = Target(w), e \notin lost,
         NEW v \in Workers \ {w}, run[v] # Free, Target(v) = e
  PROVE  at[v] = "throwing" /\ job[run[v].of].status \in Over /\ ~Current(v)
  <1>1. QueueInv /\ QueueTypes
    BY DEF ExportInv, QueueInv
  <1>2. ~Current(v)
    <2>1. run[v].of \in Jobs /\ run[w].of \in Jobs /\ TargetOf[run[v].of] = TargetOf[run[w].of]
      BY <1>1, CurrentIsThere, RunningRow
    <2>2. Key[run[v].of] = Key[run[w].of]
      BY <2>1, Keyed
    <2> QED
      BY <1>1, <2>2, OneCurrent
  <1>3. Held(v)
    BY DEF ExportInv
  <1> QED
    BY <1>2, <1>3 DEF Held

(* What is about one export leaves the others as they are.                    *)
LEMMA OnlyExport ==
  ASSUME ExportInv, QueueInv', RowInv', NEW e \in ExportIds, NEW w,
         w \in Workers => (run[w] = Free \/ TargetOf[run[w].of] = e) /\ (run'[w] = Free \/ TargetOf[run'[w].of] = e),
         \A v \in Workers \ {w} : run'[v] = run[v] /\ at'[v] = at[v],
         \A j \in Jobs : TargetOf[j] # e => job'[j] = job[j],
         \A f \in ExportIds \ {e} : row'[f] = row[f] /\ told'[f] = told[f] /\ (file'[f] = file[f] \/ file[f] = w),
         w \in Workers \/ w = None, lost \subseteq lost',
         e \notin lost' => Kept(e)' /\ \A v \in Workers : run'[v] # Free /\ TargetOf[run'[v].of] = e => Held(v)'
  PROVE  ExportInv'
  <1> QueueInv /\ QueueTypes /\ QueueTypes'
    BY DEF ExportInv, QueueInv
  <1>1. \A f \in ExportIds \ {e} : Ended(f)' <=> Ended(f)
    BY DEF Ended
  <1>2. ASSUME NEW v \in Workers, run'[v] # Free, TargetOf[run'[v].of] # e
        PROVE  /\ v # w /\ run'[v] = run[v] /\ at'[v] = at[v] /\ run[v] # Free /\ run[v].of \in Jobs
               /\ job'[run[v].of] = job[run[v].of] /\ (Current(v)' <=> Current(v)) /\ Target(v) = TargetOf[run[v].of]
    <2>1. v # w
      BY <1>2
    <2>2. run'[v] = run[v] /\ at'[v] = at[v]
      BY <2>1
    <2>3. run[v] # Free /\ run[v].of \in Jobs /\ Target(v) = TargetOf[run[v].of]
      BY <1>2, <2>2, RunningRow
    <2>4. job'[run[v].of] = job[run[v].of]
      BY <1>2, <2>2, <2>3
    <2> QED
      BY <2>1, <2>2, <2>3, <2>4 DEF Current
  <1>3. ASSUME NEW v \in Workers, run[v] # Free, TargetOf[run[v].of] # e
        PROVE  v # w /\ run'[v] = run[v]
    BY <1>3
  <1>4. ASSUME NEW f \in ExportIds \ {e}, NEW steps
        PROVE  OnIt(f, steps)' <=> OnIt(f, steps)
    <2>1. ASSUME NEW v \in Workers, Current(v), Target(v) = f, at[v] \in steps
          PROVE  OnIt(f, steps)'
      <3>1. run[v] # Free /\ TargetOf[run[v].of] = f
        BY <2>1, CurrentIsThere, RunningRow
      <3>2. run'[v] = run[v]
        BY <1>3, <3>1
      <3>3. Current(v)' /\ at'[v] \in steps
        BY <1>2, <2>1, <3>1, <3>2
      <3>4. Target(v)' = f
        BY <3>1, <3>2 DEF Target
      <3> QED
        BY <3>3, <3>4 DEF OnIt
    <2>2. ASSUME NEW v \in Workers, Current(v)', Target(v)' = f, at'[v] \in steps
          PROVE  OnIt(f, steps)
      <3>1. run'[v] # Free /\ TargetOf[run'[v].of] = f
        BY <2>2, Keyed DEF Current, Target
      <3>2. Current(v) /\ at[v] \in steps /\ Target(v) = f
        BY <1>2, <2>2, <3>1
      <3> QED
        BY <3>2 DEF OnIt
    <2> QED
      BY <2>1, <2>2 DEF OnIt
  <1>5. ASSUME NEW f \in ExportIds \ {e}, f \notin lost'
        PROVE  Kept(f)'
    <2>1. Kept(f) /\ row'[f] = row[f] /\ told'[f] = told[f]
      BY <1>5 DEF ExportInv
    <2>2. file[f] = "whole" => file'[f] = "whole"
      BY <1>5, ExportsAssumption
    <2>3. OnIt(f, {"notifying", "catching"})' <=> OnIt(f, {"notifying", "catching"})
      BY <1>4
    <2>4. OnIt(f, {"building", "writing", "built", "catching"})' <=> OnIt(f, {"building", "writing", "built", "catching"})
      BY <1>4
    <2> QED
      BY <1>1, <2>1, <2>2, <2>3, <2>4 DEF Kept
  <1>6. ASSUME NEW v \in Workers, run'[v] # Free, TargetOf[run'[v].of] \notin lost'
        PROVE  Held(v)'
    <2>1. CASE TargetOf[run'[v].of] = e
      BY <1>6, <2>1
    <2>2. CASE TargetOf[run'[v].of] # e
      <3>1. PICK f \in ExportIds \ {e} : f = Target(v) /\ f = TargetOf[run'[v].of] /\ f \notin lost'
        BY <1>2, <1>6, <2>2, Keyed
      <3>2. Held(v) /\ Target(v)' = f
        BY <1>2, <1>6, <2>2, <3>1 DEF ExportInv, Target
      <3>3. row'[f] = row[f] /\ told'[f] = told[f] /\ at'[v] = at[v] /\ run'[v] = run[v]
        BY <1>2, <1>6, <2>2, <3>1
      <3>4. file[f] \in {v, "whole"} => file'[f] = file[f]
        BY <1>2, <1>6, <2>2, ExportsAssumption
      <3>5. Works(v, f) => Works(v, f)'
        BY <1>1, <3>3, <3>4 DEF Works, Final
      <3> QED
        BY <1>2, <1>6, <2>2, <3>1, <3>2, <3>3, <3>5 DEF Held
    <2> QED
      BY <2>1, <2>2
  <1>7. \A v \in Workers : run'[v] # Free /\ Target(v)' \notin lost' => Held(v)'
    BY <1>6 DEF Target
  <1>8. \A f \in ExportIds \ lost' : Kept(f)'
    BY <1>5
  <1> QED
    BY <1>7, <1>8 DEF ExportInv

----------------------------------------------------------------------------
(* A worker goes through its handler.                                         *)

LEMMA QueueSame ==
  ASSUME QueueInv, UNCHANGED queue, NEW w \in Workers, run[w] # Free,
         NEW where \in {"reading", "starting", "building", "writing", "built", "notifying", "returned", "catching", "throwing"},
         at' = [at EXCEPT ![w] = where]
  PROVE  QueueInv'
  <1>1. job' = job /\ run' = run
    BY DEF queue
  <1>2. QueueTypes'
    BY <1>1 DEF QueueInv, QueueTypes
  <1> QED
    BY <1>1, <1>2 DEF QueueInv

LEMMA RowSame ==
  ASSUME RowInv, UNCHANGED <<queue, create, sweep>>, NEW e \in ExportIds, row[e].status # None,
         row' = row \/ \E status \in (Unfinished \cup Gone \cup {"COMPLETED", "FAILED"}) \ {None} : Sets(e, status),
         file' \in [ExportIds -> {"none", "whole", "cut"} \cup Workers],
         told' \in [ExportIds -> Nat], lost' \subseteq ExportIds
  PROVE  RowInv'
  <1>1. job' = job /\ create' = create /\ sweep' = sweep
    BY DEF queue
  <1>2. \A f \in ExportIds : row'[f].link = row[f].link /\ (row'[f].status = None <=> row[f].status = None)
    <2>1. CASE row' = row
      BY <2>1
    <2>2. CASE \E status \in (Unfinished \cup Gone \cup {"COMPLETED", "FAILED"}) \ {None} : Sets(e, status)
      <3>1. PICK new : /\ new.status # None /\ new.link = row[e].link /\ row' = [row EXCEPT ![e] = new]
        BY <2>2 DEF Sets
      <3> QED
        BY <3>1 DEF RowInv, RowTypes
    <2> QED
      BY <2>1, <2>2
  <1>3. row' \in [ExportIds -> [status : Unfinished \cup Gone \cup {"COMPLETED", "FAILED"}, link : Jobs \cup {None}]]
    <2>1. CASE row' = row
      BY <2>1 DEF RowInv, RowTypes
    <2>2. CASE \E status \in (Unfinished \cup Gone \cup {"COMPLETED", "FAILED"}) \ {None} : Sets(e, status)
      <3>1. PICK status \in Unfinished \cup Gone \cup {"COMPLETED", "FAILED"} : Sets(e, status)
        BY <2>2
      <3> QED
        BY <3>1 DEF RowInv, RowTypes, Sets
    <2> QED
      BY <2>1, <2>2
  <1>4. RowTypes'
    BY <1>1, <1>3 DEF RowInv, RowTypes
  <1>5. sweep.of # None => sweep.of \in ExportIds
    BY DEF RowInv, RowTypes
  <1> QED
    BY <1>1, <1>2, <1>4, <1>5, Keyed DEF RowInv, Known

(* A step of the handler that is about its own export only.                   *)
LEMMA WorkerMoves ==
  ASSUME ExportInv, NEW w \in Workers, run[w] # Free, NEW e \in ExportIds, e = Target(w),
         UNCHANGED <<queue, create, sweep>>, at[w] # "throwing",
         NEW where \in {"reading", "starting", "building", "writing", "built", "notifying", "returned", "catching", "throwing"},
         at' = [at EXCEPT ![w] = where],
         row' = row \/ \E status \in (Unfinished \cup Gone \cup {"COMPLETED", "FAILED"}) \ {None} : Sets(e, status),
         file' \in [ExportIds -> {"none", "whole", "cut"} \cup Workers],
         told' \in [ExportIds -> Nat], lost \subseteq lost', lost' \subseteq ExportIds,
         \A f \in ExportIds \ {e} : file'[f] = file[f] /\ told'[f] = told[f],
         e \notin lost' /\ Current(w) => Works(w, e)' /\ Kept(e)'
  PROVE  ExportInv'
  <1> QueueInv /\ QueueTypes /\ RowInv
    BY DEF ExportInv, QueueInv
  <1>1. job' = job /\ run' = run /\ TargetOf[run[w].of] = e /\ TargetOf[run'[w].of] = e
    BY DEF queue, Target
  <1>2. row[e].status # None
    BY <1>1, RunningRow DEF RowInv, QueueInv
  <1>3. QueueInv'
    BY QueueSame
  <1>4. RowInv'
    BY <1>2, RowSame
  <1>5. \A f \in ExportIds \ {e} : row'[f] = row[f]
    BY DEF RowInv, RowTypes, Sets
  <1>6. \A v \in Workers \ {w} : run'[v] = run[v] /\ at'[v] = at[v]
    BY <1>1 DEF QueueTypes
  <1>7. ASSUME e \notin lost'
        PROVE  Kept(e)' /\ \A v \in Workers : run'[v] # Free /\ TargetOf[run'[v].of] = e => Held(v)'
    <2>1. Current(w) /\ e \notin lost
      <3>1. e \notin lost /\ Held(w)
        BY <1>7 DEF ExportInv
      <3> QED
        BY <3>1 DEF Held
    <2>2. Works(w, e)' /\ Kept(e)' /\ Current(w)' /\ Target(w)' = e
      BY <1>1, <1>7, <2>1 DEF Current, Target
    <2>3. Held(w)'
      BY <2>2 DEF Held
    <2>4. ASSUME NEW v \in Workers \ {w}, run[v] # Free, TargetOf[run[v].of] = e
          PROVE  Held(v)'
      <3>1. Target(v) = e
        BY <2>4 DEF Target
      <3>2. at[v] = "throwing" /\ job[run[v].of].status \in Over
        BY <2>1, <2>4, <3>1, OthersLeave
      <3> QED
        BY <1>1, <1>6, <3>2 DEF Held
    <2> QED
      BY <1>1, <2>2, <2>3, <2>4
  <1>8. \A j \in Jobs : TargetOf[j] # e => job'[j] = job[j]
    BY <1>1
  <1>9. \A f \in ExportIds \ {e} : row'[f] = row[f] /\ told'[f] = told[f] /\ (file'[f] = file[f] \/ file[f] = w)
    BY <1>5
  <1> QED
    BY <1>1, <1>3, <1>4, <1>6, <1>7, <1>8, <1>9, OnlyExport

(* What a current worker knows, when the export was not cut off.              *)
LEMMA AtStep ==
  ASSUME ExportInv, NEW w \in Workers, at[w] # "idle"
  PROVE  /\ run[w] # Free
         /\ \E e \in ExportIds : /\ e = Target(w) /\ row[e].status # None
                                 /\ at[w] # "throwing" /\ e \notin lost => Current(w) /\ Works(w, e) /\ Kept(e)
                                 /\ Current(w) => \A steps \in SUBSET {"building", "writing", "built", "notifying", "catching"} :
                                                    OnIt(e, steps) <=> at[w] \in steps
  <1> QueueInv /\ QueueTypes /\ RowInv
    BY DEF ExportInv, QueueInv
  <1>1. run[w] # Free
    BY DEF QueueTypes
  <1>2. PICK e \in ExportIds : e = Target(w) /\ e = TargetOf[run[w].of] /\ run[w].of \in Jobs
    BY <1>1, RunningRow
  <1>3. row[e].status # None
    BY <1>1, <1>2 DEF QueueInv, RowInv
  <1>4. ASSUME at[w] # "throwing", e \notin lost
        PROVE  Current(w) /\ Works(w, e) /\ Kept(e)
    <2>1. Held(w) /\ Kept(e)
      BY <1>1, <1>2, <1>4 DEF ExportInv
    <2> QED
      BY <1>2, <1>4, <2>1 DEF Held
  <1>5. ASSUME Current(w), NEW steps \in SUBSET {"building", "writing", "built", "notifying", "catching"}
        PROVE  OnIt(e, steps) <=> at[w] \in steps
    BY <1>2, <1>5, Alone
  <1> QED
    BY <1>1, <1>2, <1>3, <1>4, <1>5

LEMMA StepFacts ==
  ASSUME QueueTypes, NEW w \in Workers, run[w] # Free, NEW e, e = Target(w), Current(w), UNCHANGED queue,
         NEW where, at' = [at EXCEPT ![w] = where]
  PROVE  /\ at'[w] = where /\ (Ended(e)' <=> Ended(e)) /\ (Final(w)' <=> Final(w))
         /\ where \in {"building", "writing", "built", "catching"} => OnIt(e, {"building", "writing", "built", "catching"})'
         /\ where \in {"notifying", "catching"} => OnIt(e, {"notifying", "catching"})'
  <1>1. job' = job /\ run' = run
    BY DEF queue
  <1>2. at'[w] = where
    BY DEF QueueTypes
  <1>3. Current(w)' /\ Target(w)' = e
    BY <1>1 DEF Current, Target
  <1> QED
    BY <1>1, <1>2, <1>3 DEF Ended, Final, OnIt

LEMMA ReadKeeps ==
  ASSUME ExportInv, NEW w \in Workers, Read(w)
  PROVE  ExportInv'
  <1> QueueInv /\ QueueTypes /\ RowInv /\ RowTypes
    BY DEF ExportInv, QueueInv, RowInv
  <1>1. at[w] = "reading" /\ UNCHANGED <<queue, row, create, sweep, file, told, lost>>
    BY DEF Read
  <1>2. PICK e \in ExportIds : /\ e = Target(w) /\ row[e].status # None /\ run[w] # Free
                               /\ e \notin lost => Current(w) /\ Works(w, e) /\ Kept(e)
                               /\ Current(w) => \A steps \in SUBSET {"building", "writing", "built", "notifying", "catching"} :
                                                  OnIt(e, steps) <=> at[w] \in steps
    BY <1>1, AtStep
  <1>3. PICK where : where = IF row[e].status = "PENDING" THEN "starting" ELSE "returned"
    OBVIOUS
  <1>4. at' = [at EXCEPT ![w] = where]
    BY <1>2, <1>3 DEF Read, Steps
  <1>5. ASSUME e \notin lost', Current(w)
        PROVE  Works(w, e)' /\ Kept(e)'
    <2>1. Works(w, e) /\ Kept(e) /\ ~OnIt(e, {"notifying", "catching"}) /\ ~OnIt(e, {"building", "writing", "built", "catching"})
      BY <1>1, <1>2, <1>5
    <2>2. at'[w] = where /\ (Ended(e)' <=> Ended(e))
      BY <1>1, <1>2, <1>4, <1>5, StepFacts
    <2>3. row'[e] = row[e] /\ file'[e] = file[e] /\ told'[e] = told[e]
      BY <1>1
    <2>4. Works(w, e)'
      BY <1>3, <2>1, <2>2, <2>3 DEF Works, Kept, Begun, Unfinished
    <2>5. Kept(e)'
      BY <2>1, <2>2, <2>3 DEF Kept
    <2> QED
      BY <2>4, <2>5
  <1>6. where \in {"starting", "returned"}
    BY <1>3
  <1>7. file' \in [ExportIds -> {"none", "whole", "cut"} \cup Workers] /\ told' \in [ExportIds -> Nat] /\ lost' \subseteq ExportIds
    BY <1>1 DEF RowTypes
  <1> QED
    BY <1>1, <1>2, <1>4, <1>5, <1>6, <1>7, WorkerMoves

LEMMA MarkProcessingKeeps ==
  ASSUME ExportInv, NEW w \in Workers, MarkProcessing(w)
  PROVE  ExportInv'
  <1> QueueInv /\ QueueTypes /\ RowInv /\ RowTypes
    BY DEF ExportInv, QueueInv, RowInv
  <1>1. at[w] = "starting" /\ UNCHANGED <<queue, create, sweep, file, told, lost>> /\ at' = [at EXCEPT ![w] = "building"]
    BY DEF MarkProcessing, Steps
  <1>2. PICK e \in ExportIds : /\ e = Target(w) /\ row[e].status # None /\ run[w] # Free
                               /\ e \notin lost => Current(w) /\ Works(w, e) /\ Kept(e)
    BY <1>1, AtStep
  <1>3. Sets(e, "PROCESSING")
    BY <1>2 DEF MarkProcessing
  <1>4. row'[e].status = "PROCESSING"
    BY <1>3 DEF Sets, RowTypes
  <1>5. ASSUME e \notin lost', Current(w)
        PROVE  Works(w, e)' /\ Kept(e)'
    <2>1. Works(w, e)
      BY <1>1, <1>2, <1>5
    <2>2. /\ at'[w] = "building" /\ (Ended(e)' <=> Ended(e))
          /\ OnIt(e, {"building", "writing", "built", "catching"})'
      BY <1>1, <1>2, <1>5, StepFacts
    <2>3. file'[e] = file[e] /\ told'[e] = told[e]
      BY <1>1
    <2>4. ~Ended(e) /\ told[e] = 0
      BY <1>1, <2>1 DEF Works, Begun
    <2>5. Works(w, e)'
      BY <1>4, <2>2, <2>3, <2>4 DEF Works
    <2>6. Kept(e)'
      BY <1>4, <2>2, <2>3, <2>4 DEF Kept
    <2> QED
      BY <2>5, <2>6
  <1>6. row' = row \/ \E status \in (Unfinished \cup Gone \cup {"COMPLETED", "FAILED"}) \ {None} : Sets(e, status)
    BY <1>3, ExportsAssumption DEF Unfinished
  <1>7. file' \in [ExportIds -> {"none", "whole", "cut"} \cup Workers] /\ told' \in [ExportIds -> Nat] /\ lost' \subseteq ExportIds
    BY <1>1 DEF RowTypes
  <1> QED
    BY <1>1, <1>2, <1>5, <1>6, <1>7, WorkerMoves

(* The steps on the way to catching leave row and notices alone.              *)
LEMMA Catching ==
  ASSUME ExportInv, NEW w \in Workers, at[w] \in {"starting", "building", "writing", "built", "notifying"},
         at' = [at EXCEPT ![w] = "catching"], UNCHANGED <<queue, row, create, sweep, told, lost>>,
         NEW e \in ExportIds, e = Target(w),
         file' \in [ExportIds -> {"none", "whole", "cut"} \cup Workers],
         \A f \in ExportIds \ {e} : file'[f] = file[f],
         file'[e] = file[e] \/ at[w] \in {"building", "writing"}
  PROVE  ExportInv'
  <1> QueueInv /\ QueueTypes /\ RowInv /\ RowTypes
    BY DEF ExportInv, QueueInv, RowInv
  <1>1. /\ row[e].status # None /\ run[w] # Free
        /\ e \notin lost => Current(w) /\ Works(w, e) /\ Kept(e)
    BY AtStep
  <1>2. ASSUME e \notin lost', Current(w)
        PROVE  Works(w, e)' /\ Kept(e)'
    <2>1. Works(w, e) /\ Kept(e)
      BY <1>1, <1>2
    <2>2. /\ at'[w] = "catching" /\ (Ended(e)' <=> Ended(e))
          /\ OnIt(e, {"building", "writing", "built", "catching"})' /\ OnIt(e, {"notifying", "catching"})'
      BY <1>1, <1>2, StepFacts
    <2>3. ~Ended(e) /\ told[e] = 0
      BY <2>1 DEF Works, Begun
    <2>4. row[e].status = "COMPLETED" => file'[e] = "whole"
      BY <2>1 DEF Works, Kept
    <2>5. row'[e] = row[e] /\ told'[e] = told[e]
      OBVIOUS
    <2>6. Works(w, e)'
      BY <2>2, <2>3, <2>5 DEF Works
    <2>7. Kept(e)'
      BY <2>2, <2>3, <2>4, <2>5 DEF Kept
    <2> QED
      BY <2>6, <2>7
  <1>3. told' \in [ExportIds -> Nat] /\ lost' \subseteq ExportIds
    BY DEF RowTypes
  <1> QED
    BY <1>1, <1>2, <1>3, WorkerMoves

LEMMA BuildFailsKeeps ==
  ASSUME ExportInv, NEW w \in Workers, BuildFails(w)
  PROVE  ExportInv'
  <1>1. at[w] = "building" /\ UNCHANGED <<queue, row, create, sweep, file, told, lost>> /\ at' = [at EXCEPT ![w] = "catching"]
    BY DEF BuildFails, Steps
  <1>2. PICK e \in ExportIds : e = Target(w)
    BY <1>1, AtStep
  <1>3. file' \in [ExportIds -> {"none", "whole", "cut"} \cup Workers]
    BY <1>1 DEF ExportInv, RowInv, RowTypes
  <1> QED
    BY <1>1, <1>2, <1>3, Catching

LEMMA StatementFailsKeeps ==
  ASSUME ExportInv, NEW w \in Workers, StatementFails(w)
  PROVE  ExportInv'
  <1>1. /\ at[w] \in {"starting", "built", "notifying"} /\ UNCHANGED <<queue, row, create, sweep, file, told, lost>>
        /\ at' = [at EXCEPT ![w] = "catching"]
    BY DEF StatementFails, Steps
  <1>2. PICK e \in ExportIds : e = Target(w)
    BY <1>1, AtStep
  <1>3. file' \in [ExportIds -> {"none", "whole", "cut"} \cup Workers]
    BY <1>1 DEF ExportInv, RowInv, RowTypes
  <1> QED
    BY <1>1, <1>2, <1>3, Catching

(* The file is written, by nobody else.                                       *)
LEMMA Writing ==
  ASSUME ExportInv, NEW w \in Workers, NEW where \in {"writing", "built"}, at[w] \in {"building", "writing"},
         at' = [at EXCEPT ![w] = where], UNCHANGED <<queue, row, create, sweep, told, lost>>,
         NEW e \in ExportIds, e = Target(w),
         file' \in [ExportIds -> {"none", "whole", "cut"} \cup Workers],
         \A f \in ExportIds \ {e} : file'[f] = file[f],
         Works(w, e) => (where = "writing" /\ Local => file'[e] = w) /\ (where = "built" => file'[e] = "whole")
  PROVE  ExportInv'
  <1> QueueInv /\ QueueTypes /\ RowInv /\ RowTypes
    BY DEF ExportInv, QueueInv, RowInv
  <1>1. /\ row[e].status # None /\ run[w] # Free
        /\ e \notin lost => Current(w) /\ Works(w, e) /\ Kept(e)
    BY AtStep
  <1>2. ASSUME e \notin lost', Current(w)
        PROVE  Works(w, e)' /\ Kept(e)'
    <2>1. Works(w, e) /\ Kept(e)
      BY <1>1, <1>2
    <2>2. /\ at'[w] = where /\ (Ended(e)' <=> Ended(e))
          /\ OnIt(e, {"building", "writing", "built", "catching"})'
      BY <1>1, <1>2, StepFacts
    <2>3. ~Ended(e) /\ told[e] = 0 /\ row[e].status \in {"PROCESSING", "deleted"}
      BY <2>1 DEF Works, Begun
    <2>4. row'[e] = row[e] /\ told'[e] = told[e]
      OBVIOUS
    <2>5. Works(w, e)'
      BY <2>1, <2>2, <2>3, <2>4 DEF Works
    <2>6. Kept(e)'
      BY <2>2, <2>3, <2>4, ExportsAssumption DEF Kept, Unfinished
    <2> QED
      BY <2>5, <2>6
  <1>3. told' \in [ExportIds -> Nat] /\ lost' \subseteq ExportIds
    BY DEF RowTypes
  <1> QED
    BY <1>1, <1>2, <1>3, WorkerMoves

LEMMA OpenFileKeeps ==
  ASSUME ExportInv, NEW w \in Workers, OpenFile(w)
  PROVE  ExportInv'
  <1>1. at[w] = "building" /\ UNCHANGED <<queue, row, create, sweep, told, lost>> /\ RowTypes
    BY DEF OpenFile, ExportInv, RowInv
  <1>2. PICK e \in ExportIds : e = Target(w)
    BY <1>1, AtStep
  <1>3. CASE ~Local
    <2>1. file' = file /\ at' = [at EXCEPT ![w] = "writing"]
      BY <1>3 DEF OpenFile, Steps
    <2> QED
      BY <1>1, <1>2, <1>3, <2>1, Writing DEF RowTypes
  <1>4. CASE Local /\ file[e] = "none"
    <2>1. file' = [file EXCEPT ![e] = w] /\ at' = [at EXCEPT ![w] = "writing"]
      BY <1>2, <1>4 DEF OpenFile, Steps
    <2>2. file' \in [ExportIds -> {"none", "whole", "cut"} \cup Workers] /\ file'[e] = w /\ \A f \in ExportIds \ {e} : file'[f] = file[f]
      BY <1>1, <2>1 DEF RowTypes
    <2> QED
      BY <1>1, <1>2, <2>1, <2>2, Writing
  <1>5. CASE Local /\ file[e] # "none"
    <2>1. file' = [file EXCEPT ![e] = "none"] /\ at' = [at EXCEPT ![w] = "catching"]
      BY <1>2, <1>5 DEF OpenFile, Steps
    <2>2. file' \in [ExportIds -> {"none", "whole", "cut"} \cup Workers] /\ \A f \in ExportIds \ {e} : file'[f] = file[f]
      BY <1>1, <2>1 DEF RowTypes
    <2> QED
      BY <1>1, <1>2, <2>1, <2>2, Catching
  <1> QED
    BY <1>3, <1>4, <1>5, ExportsAssumption

LEMMA WriteFileKeeps ==
  ASSUME ExportInv, NEW w \in Workers, WriteFile(w)
  PROVE  ExportInv'
  <1>1. at[w] = "writing" /\ UNCHANGED <<queue, row, create, sweep, told, lost>> /\ RowTypes
    BY DEF WriteFile, ExportInv, RowInv
  <1>2. PICK e \in ExportIds : e = Target(w)
    BY <1>1, AtStep
  <1>3. \/ /\ file' = IF ~Local \/ file[e] = w THEN [file EXCEPT ![e] = "whole"] ELSE file
           /\ at' = [at EXCEPT ![w] = "built"]
        \/ /\ file' = IF Local THEN [file EXCEPT ![e] = "none"] ELSE file
           /\ at' = [at EXCEPT ![w] = "catching"]
    BY <1>2 DEF WriteFile, Steps
  <1>4. file' \in [ExportIds -> {"none", "whole", "cut"} \cup Workers] /\ \A f \in ExportIds \ {e} : file'[f] = file[f]
    BY <1>1, <1>3 DEF RowTypes
  <1>5. CASE /\ file' = IF ~Local \/ file[e] = w THEN [file EXCEPT ![e] = "whole"] ELSE file
             /\ at' = [at EXCEPT ![w] = "built"]
    <2>1. Works(w, e) => file'[e] = "whole"
      BY <1>1, <1>5 DEF Works, RowTypes
    <2> QED
      BY <1>1, <1>2, <1>4, <1>5, <2>1, Writing
  <1>6. CASE at' = [at EXCEPT ![w] = "catching"]
    BY <1>1, <1>2, <1>4, <1>6, Catching
  <1> QED
    BY <1>3, <1>5, <1>6

LEMMA MarkCompletedKeeps ==
  ASSUME ExportInv, NEW w \in Workers, MarkCompleted(w)
  PROVE  ExportInv'
  <1> QueueInv /\ QueueTypes /\ RowInv /\ RowTypes
    BY DEF ExportInv, QueueInv, RowInv
  <1>1. at[w] = "built" /\ UNCHANGED <<queue, create, sweep, file, told, lost>> /\ at' = [at EXCEPT ![w] = "notifying"]
    BY DEF MarkCompleted, Steps
  <1>2. PICK e \in ExportIds : /\ e = Target(w) /\ row[e].status # None /\ run[w] # Free
                               /\ e \notin lost => Current(w) /\ Works(w, e) /\ Kept(e)
    BY <1>1, AtStep
  <1>3. Sets(e, "COMPLETED")
    BY <1>2 DEF MarkCompleted
  <1>4. row'[e].status = "COMPLETED"
    BY <1>3 DEF Sets, RowTypes
  <1>5. ASSUME e \notin lost', Current(w)
        PROVE  Works(w, e)' /\ Kept(e)'
    <2>1. Works(w, e)
      BY <1>1, <1>2, <1>5
    <2>2. at'[w] = "notifying" /\ (Ended(e)' <=> Ended(e)) /\ OnIt(e, {"notifying", "catching"})'
      BY <1>1, <1>2, <1>5, StepFacts
    <2>3. file'[e] = "whole" /\ told'[e] = told[e] /\ ~Ended(e) /\ told[e] = 0
      BY <1>1, <2>1 DEF Works, Begun
    <2>4. Works(w, e)'
      BY <1>4, <2>2, <2>3 DEF Works
    <2>5. Kept(e)'
      BY <1>4, <2>2, <2>3, ExportsAssumption DEF Kept, Unfinished
    <2> QED
      BY <2>4, <2>5
  <1>6. row' = row \/ \E status \in (Unfinished \cup Gone \cup {"COMPLETED", "FAILED"}) \ {None} : Sets(e, status)
    BY <1>3, ExportsAssumption
  <1>7. file' \in [ExportIds -> {"none", "whole", "cut"} \cup Workers] /\ told' \in [ExportIds -> Nat] /\ lost' \subseteq ExportIds
    BY <1>1 DEF RowTypes
  <1> QED
    BY <1>1, <1>2, <1>5, <1>6, <1>7, WorkerMoves

LEMMA NotifyKeeps ==
  ASSUME ExportInv, NEW w \in Workers, Notify(w)
  PROVE  ExportInv'
  <1> QueueInv /\ QueueTypes /\ RowInv /\ RowTypes
    BY DEF ExportInv, QueueInv, RowInv
  <1>1. at[w] = "notifying" /\ UNCHANGED <<queue, row, create, sweep, file, lost>> /\ at' = [at EXCEPT ![w] = "returned"]
    BY DEF Notify, Steps
  <1>2. PICK e \in ExportIds : /\ e = Target(w) /\ row[e].status # None /\ run[w] # Free
                               /\ e \notin lost => Current(w) /\ Works(w, e) /\ Kept(e)
    BY <1>1, AtStep
  <1>3. told' = [told EXCEPT ![e] = told[e] + 1]
    BY <1>2 DEF Notify
  <1>4. told' \in [ExportIds -> Nat] /\ told'[e] = told[e] + 1 /\ \A f \in ExportIds \ {e} : told'[f] = told[f]
    BY <1>3 DEF RowTypes
  <1>5. ASSUME e \notin lost', Current(w)
        PROVE  Works(w, e)' /\ Kept(e)'
    <2>1. Works(w, e) /\ Kept(e)
      BY <1>1, <1>2, <1>5
    <2>2. at'[w] = "returned"
      BY <1>1, <1>2, <1>5, StepFacts
    <2>3. row[e].status \in {"COMPLETED", "deleted"} /\ told'[e] = 1
      BY <1>1, <1>4, <2>1 DEF Works, Begun
    <2>4. row'[e] = row[e] /\ file'[e] = file[e]
      BY <1>1
    <2>5. Works(w, e)'
      BY <2>2, <2>3, <2>4 DEF Works, Begun, Unfinished
    <2>6. Kept(e)'
      BY <2>1, <2>3, <2>4, ExportsAssumption DEF Kept, Unfinished
    <2> QED
      BY <2>5, <2>6
  <1>6. file' \in [ExportIds -> {"none", "whole", "cut"} \cup Workers] /\ lost' \subseteq ExportIds
    BY <1>1 DEF RowTypes
  <1> QED
    BY <1>1, <1>2, <1>4, <1>5, <1>6, WorkerMoves

LEMMA CatchKeeps ==
  ASSUME ExportInv, NEW w \in Workers, Catch(w)
  PROVE  ExportInv'
  <1> QueueInv /\ QueueTypes /\ RowInv /\ RowTypes
    BY DEF ExportInv, QueueInv, RowInv
  <1>1. at[w] = "catching" /\ UNCHANGED <<queue, create, sweep, file, told, lost>> /\ at' = [at EXCEPT ![w] = "throwing"]
    BY DEF Catch, Steps
  <1>2. PICK e \in ExportIds : /\ e = Target(w) /\ row[e].status # None /\ run[w] # Free
                               /\ e \notin lost => Current(w) /\ Works(w, e) /\ Kept(e)
    BY <1>1, AtStep
  <1>3. PICK status \in {"FAILED", "PENDING"} : status = (IF Final(w) THEN "FAILED" ELSE "PENDING") /\ Sets(e, status)
    BY <1>2 DEF Catch
  <1>4. row'[e].status = status
    BY <1>3 DEF Sets, RowTypes
  <1>5. ASSUME e \notin lost', Current(w)
        PROVE  Works(w, e)' /\ Kept(e)'
    <2>1. Works(w, e)
      BY <1>1, <1>2, <1>5
    <2>2. at'[w] = "throwing" /\ (Ended(e)' <=> Ended(e)) /\ (Final(w)' <=> Final(w))
      BY <1>1, <1>2, <1>5, StepFacts
    <2>3. told'[e] = told[e] /\ ~Ended(e) /\ told[e] = 0
      BY <1>1, <2>1 DEF Works, Begun
    <2>4. Works(w, e)'
      BY <1>3, <1>4, <2>2, <2>3 DEF Works, Begun
    <2>5. Kept(e)'
      BY <1>3, <1>4, <2>2, <2>3 DEF Kept
    <2> QED
      BY <2>4, <2>5
  <1>6. row' = row \/ \E s \in (Unfinished \cup Gone \cup {"COMPLETED", "FAILED"}) \ {None} : Sets(e, s)
    BY <1>3, ExportsAssumption DEF Unfinished
  <1>7. file' \in [ExportIds -> {"none", "whole", "cut"} \cup Workers] /\ told' \in [ExportIds -> Nat] /\ lost' \subseteq ExportIds
    BY <1>1 DEF RowTypes
  <1> QED
    BY <1>1, <1>2, <1>5, <1>6, <1>7, WorkerMoves

LEMMA EscapeKeeps ==
  ASSUME ExportInv, NEW w \in Workers, Escape(w)
  PROVE  ExportInv'
  <1> QueueInv /\ QueueTypes /\ RowInv /\ RowTypes
    BY DEF ExportInv, QueueInv, RowInv
  <1>1. /\ at[w] \in {"reading", "catching"} /\ UNCHANGED <<queue, row, create, sweep, file, told>> /\ at' = [at EXCEPT ![w] = "throwing"]
        /\ lost' = lost \cup {Target(w)}
    BY DEF Escape, Steps
  <1>2. PICK e \in ExportIds : e = Target(w) /\ run[w] # Free
    BY <1>1, AtStep
  <1>3. file' \in [ExportIds -> {"none", "whole", "cut"} \cup Workers] /\ told' \in [ExportIds -> Nat] /\ lost' \subseteq ExportIds
        /\ lost \subseteq lost' /\ e \in lost'
    BY <1>1, <1>2 DEF RowTypes
  <1> QED
    BY <1>1, <1>2, <1>3, WorkerMoves

----------------------------------------------------------------------------
(* The queue moves: jobs begin and end, workers come and go.                  *)

LEMMA ExecuteKeeps ==
  ASSUME ExportInv, NEW w \in Workers, NEW j \in Jobs, Execute(w, j)
  PROVE  ExportInv'
  <1> QueueInv /\ QueueTypes /\ RowInv /\ RowTypes
    BY DEF ExportInv, QueueInv, RowInv
  <1>1. /\ at[w] = "idle" /\ run[w] = Free /\ job[j].status = "waiting" /\ at' = [at EXCEPT ![w] = "reading"]
        /\ UNCHANGED <<row, create, sweep, file, told, lost>>
    BY DEF Execute, Start, Steps
  <1>2. PICK n : n = job[j].attempts + 1
    OBVIOUS
  <1>3. n \in Nat \ {0} /\ job[j].attempts \in Nat /\ n > job[j].attempts
    BY <1>2 DEF QueueTypes
  <1>4. PICK new : new = [status |-> "running", attempts |-> n]
    OBVIOUS
  <1>5. PICK mine : mine = [of |-> j, attempt |-> n]
    OBVIOUS
  <1>6. job' = [job EXCEPT ![j] = new] /\ run' = [run EXCEPT ![w] = mine]
    BY <1>2, <1>4, <1>5 DEF Execute, Start
  <1>7. mine \in RunRow /\ mine.of = j /\ mine.attempt = n /\ mine # Free
    BY <1>3, <1>5, Keyed DEF RunRow
  <1>8. new.status = "running" /\ new.attempts = n /\ new \in [status : States, attempts : Nat]
    BY <1>3, <1>4 DEF States, Live
  <1>9. /\ job'[j] = new /\ \A i \in Jobs \ {j} : job'[i] = job[i]
        /\ run'[w] = mine /\ at'[w] = "reading" /\ \A v \in Workers \ {w} : run'[v] = run[v] /\ at'[v] = at[v]
    BY <1>1, <1>6 DEF QueueTypes
  <1>10. QueueTypes'
    <2>1. job' \in [Jobs -> [status : States, attempts : Nat]] /\ run' \in [Workers -> RunRow \cup {Free}]
      BY <1>6, <1>7, <1>8 DEF QueueTypes
    <2>2. at' \in [Workers -> {"idle", "reading", "starting", "building", "writing", "built", "notifying", "returned",
                               "catching", "throwing"}]
      BY <1>1 DEF QueueTypes
    <2>3. \A v \in Workers : at'[v] = "idle" <=> run'[v] = Free
      BY <1>7, <1>9 DEF QueueTypes
    <2> QED
      BY <2>1, <2>2, <2>3 DEF QueueTypes
  <1>11. ASSUME NEW v \in Workers, run[v] # Free
         PROVE  run[v].attempt < n \/ run[v].of # j
    <2>1. run[v].of \in Jobs /\ run[v].attempt \in Nat /\ run[v].attempt <= job[run[v].of].attempts
      BY <1>11, RunningRow DEF QueueInv
    <2> QED
      BY <1>2, <1>3, <2>1
  <1>12. QueueInv'
    <2>1. \A i, k \in Jobs : Key[i] = Key[k] /\ {job'[i].status, job'[k].status} \subseteq Live => i = k
      <3>1. \A i \in Jobs : job'[i].status \in Live <=> job[i].status \in Live
        BY <1>1, <1>8, <1>9 DEF Live
      <3> QED
        BY <3>1 DEF QueueInv
    <2>2. ASSUME NEW v \in Workers, run'[v] # Free
          PROVE  run'[v].attempt <= job'[run'[v].of].attempts /\ job'[run'[v].of].status # None
      <3>1. CASE v = w
        <4>1. new.status # None
          BY <1>8, ExportsAssumption
        <4> QED
          BY <1>3, <1>7, <1>8, <1>9, <3>1, <4>1
      <3>2. CASE v # w
        <4>1. run'[v] = run[v] /\ run[v] # Free /\ run[v].of \in Jobs /\ run[v].attempt \in Nat
          BY <1>9, <2>2, <3>2, RunningRow
        <4>2. run[v].attempt <= job[run[v].of].attempts /\ job[run[v].of].status # None
          BY <4>1 DEF QueueInv
        <4>3. CASE run[v].of = j
          <5>1. new.status # None
            BY <1>8, ExportsAssumption
          <5> QED
            BY <1>3, <1>8, <1>9, <1>11, <4>1, <4>3, <5>1
        <4>4. CASE run[v].of # j
          BY <1>9, <4>1, <4>2, <4>4
        <4> QED
          BY <4>3, <4>4
      <3> QED
        BY <3>1, <3>2
    <2>3. ASSUME NEW v \in Workers, NEW u \in Workers, v # u, run'[v] # Free
          PROVE  run'[v] # run'[u]
      <3>1. \A x \in Workers : run[x] # Free => run[x] # mine
        BY <1>3, <1>7, <1>11, RunningRow
      <3>2. CASE v = w
        BY <1>7, <1>9, <2>3, <3>1, <3>2
      <3>3. CASE u = w
        BY <1>9, <2>3, <3>1, <3>3
      <3>4. CASE v # w /\ u # w
        BY <1>9, <2>3, <3>4 DEF QueueInv
      <3> QED
        BY <3>2, <3>3, <3>4
    <2> QED
      BY <1>10, <2>1, <2>2, <2>3 DEF QueueInv
  <1>13. \A i \in Jobs : job'[i].status = None <=> job[i].status = None
    BY <1>1, <1>8, <1>9, ExportsAssumption
  <1>14. RowInv'
    <2>1. RowTypes'
      BY <1>1 DEF RowTypes
    <2>2. \A e \in ExportIds : /\ create[e].with # None => create[e].with \in Jobs
                               /\ row[e].link # None => row[e].link \in Jobs
      BY DEF RowTypes
    <2>3. sweep.with # None => sweep.with \in Jobs
      BY DEF RowTypes
    <2> QED
      BY <1>1, <1>13, <2>1, <2>2, <2>3 DEF RowInv, Known
  <1>15. PICK e \in ExportIds : e = TargetOf[j]
    BY Keyed
  <1>16. ASSUME NEW v \in Workers, Current(v), TargetOf[run[v].of] = e
         PROVE  FALSE
    <2>1. run[v].of \in Jobs /\ run[v].of # j /\ job[run[v].of].status \in Live /\ job[j].status \in Live
      BY <1>1, <1>16, CurrentIsThere, RunningRow DEF Current, Live
    <2>2. Key[run[v].of] = Key[j]
      BY <1>15, <1>16, <2>1, Keyed
    <2> QED
      BY <2>1, <2>2 DEF QueueInv
  <1>17. ASSUME e \notin lost'
         PROVE  Kept(e)' /\ \A v \in Workers : run'[v] # Free /\ TargetOf[run'[v].of] = e => Held(v)'
    <2>1. Kept(e) /\ row'[e] = row[e] /\ file'[e] = file[e] /\ told'[e] = told[e]
      BY <1>1, <1>17 DEF ExportInv
    <2>2. Ended(e)' <=> Ended(e)
      <3>1. \A i \in Jobs : job'[i].status \in Over <=> job[i].status \in Over
        BY <1>1, <1>8, <1>9 DEF Over
      <3> QED
        BY <3>1 DEF Ended
    <2>3. \A steps : ~OnIt(e, steps)
      <3>1. ASSUME NEW v \in Workers, Current(v), Target(v) = e
            PROVE  FALSE
        BY <1>16, <3>1 DEF Target
      <3> QED
        BY <3>1 DEF OnIt
    <2>4. Kept(e)'
      BY <2>1, <2>2, <2>3 DEF Kept
    <2>5. ASSUME NEW v \in Workers, run'[v] # Free, TargetOf[run'[v].of] = e
          PROVE  Held(v)'
      <3>1. CASE v = w
        <4>1. Current(w)'
          BY <1>7, <1>8, <1>9, Keyed DEF Current
        <4>2. Works(w, e)'
          BY <1>9 DEF Works, Begun
        <4> QED
          BY <2>5, <3>1, <4>1, <4>2 DEF Held, Target
      <3>2. CASE v # w
        <4>1. run'[v] = run[v] /\ at'[v] = at[v] /\ run[v] # Free /\ run[v].of \in Jobs /\ Target(v) = e
          BY <1>9, <2>5, <3>2, RunningRow
        <4>2. ~Current(v)
          BY <1>16, <4>1 DEF Target
        <4>3. Held(v) /\ e \notin lost
          BY <1>1, <1>17, <4>1 DEF ExportInv
        <4>4. at[v] = "throwing" /\ job[run[v].of].status \in Over
          BY <4>2, <4>3 DEF Held
        <4>5. run[v].of # j
          BY <1>1, <4>4 DEF Over
        <4> QED
          BY <1>9, <4>1, <4>4, <4>5 DEF Held
      <3> QED
        BY <3>1, <3>2
    <2> QED
      BY <2>4, <2>5
  <1>18. \A i \in Jobs : TargetOf[i] # e => job'[i] = job[i]
    BY <1>9, <1>15
  <1>19. /\ w \in Workers => (run[w] = Free \/ TargetOf[run[w].of] = e) /\ (run'[w] = Free \/ TargetOf[run'[w].of] = e)
         /\ \A f \in ExportIds \ {e} : row'[f] = row[f] /\ told'[f] = told[f] /\ (file'[f] = file[f] \/ file[f] = w)
    BY <1>1, <1>7, <1>9, <1>15
  <1>20. lost \subseteq lost' /\ \A v \in Workers \ {w} : run'[v] = run[v] /\ at'[v] = at[v]
    BY <1>1, <1>9
  <1> QED
    BY <1>12, <1>14, <1>17, <1>18, <1>19, <1>20, OnlyExport

(* A run ends, or a job is given back: no job becomes live by that.           *)
LEMMA QueueEnds ==
  ASSUME QueueInv, RowInv, NEW j \in Jobs, NEW status \in {"waiting", "succeeded", "failed"},
         job' = job \/ (job[j].status = "running" /\ Becomes(j, status)),
         run' \in [Workers -> RunRow \cup {Free}], \A v \in Workers : run'[v] = run[v] \/ run'[v] = Free,
         at' \in [Workers -> {"idle", "reading", "starting", "building", "writing", "built", "notifying", "returned",
                              "catching", "throwing"}],
         \A v \in Workers : at'[v] = "idle" <=> run'[v] = Free,
         UNCHANGED <<row, create, sweep, told>>, file' \in [ExportIds -> {"none", "whole", "cut"} \cup Workers],
         lost' \subseteq ExportIds
  PROVE  /\ QueueInv' /\ RowInv'
         /\ \A i \in Jobs \ {j} : job'[i] = job[i]
         /\ job'[j] = job[j] \/ (job[j].status = "running" /\ job'[j].status = status)
  <1> QueueTypes /\ RowTypes
    BY DEF QueueInv, RowInv
  <1>1. \A i \in Jobs : /\ i # j => job'[i] = job[i]
                        /\ job'[i].attempts = job[i].attempts
                        /\ job'[i].status = job[i].status \/ (i = j /\ job[i].status = "running" /\ job'[i].status = status)
    <2>1. CASE job' = job
      BY <2>1
    <2>2. CASE job[j].status = "running" /\ Becomes(j, status)
      <3>1. PICK new : new = [status |-> status, attempts |-> job[j].attempts]
        OBVIOUS
      <3>2. job' = [job EXCEPT ![j] = new] /\ new.status = status /\ new.attempts = job[j].attempts
        BY <2>2, <3>1 DEF Becomes
      <3> QED
        BY <2>2, <3>2 DEF QueueTypes
    <2> QED
      BY <2>1, <2>2
  <1>2. job' \in [Jobs -> [status : States, attempts : Nat]]
    <2>1. CASE job' = job
      BY <2>1 DEF QueueTypes
    <2>2. CASE Becomes(j, status)
      <3>1. [status |-> status, attempts |-> job[j].attempts] \in [status : States, attempts : Nat]
        BY DEF QueueTypes, States, Live, Over
      <3> QED
        BY <2>2, <3>1 DEF Becomes, QueueTypes
    <2> QED
      BY <2>1, <2>2
  <1>3. \A i \in Jobs : /\ job'[i].status \in Live => job[i].status \in Live
                        /\ job'[i].status = None <=> job[i].status = None
    BY <1>1, ExportsAssumption DEF Live
  <1>4. QueueTypes'
    BY <1>2 DEF QueueTypes
  <1>5. \A i, k \in Jobs : Key[i] = Key[k] /\ {job'[i].status, job'[k].status} \subseteq Live => i = k
    BY <1>3 DEF QueueInv
  <1>6. \A v \in Workers : run'[v] # Free => run'[v].attempt <= job'[run'[v].of].attempts /\ job'[run'[v].of].status # None
    <2>1. \A v \in Workers : run'[v] # Free => run[v] # Free /\ run'[v] = run[v] /\ run[v].of \in Jobs
      BY RunningRow
    <2> QED
      BY <1>1, <1>3, <2>1 DEF QueueInv
  <1>7. \A v, w \in Workers : v # w /\ run'[v] # Free => run'[v] # run'[w]
    BY DEF QueueInv
  <1>8. QueueInv'
    BY <1>4, <1>5, <1>6, <1>7 DEF QueueInv
  <1>9. RowTypes'
    BY DEF RowTypes
  <1>10. \A e \in ExportIds : /\ create[e].with # None => create[e].with \in Jobs
                              /\ row[e].link # None => row[e].link \in Jobs
    BY DEF RowTypes
  <1>11. sweep.with # None => sweep.with \in Jobs
    BY DEF RowTypes
  <1>12. RowInv'
    BY <1>3, <1>9, <1>10, <1>11 DEF RowInv, Known
  <1>13. job'[j] = job[j] \/ (job[j].status = "running" /\ job'[j].status = status)
    <2>1. job'[j] \in [status : States, attempts : Nat] /\ job[j] \in [status : States, attempts : Nat]
      BY <1>2 DEF QueueTypes
    <2> QED
      BY <1>1, <2>1
  <1> QED
    BY <1>1, <1>8, <1>12, <1>13

(* The end of a current run, or the leave of one that no longer matters.      *)
LEMMA RunEnds ==
  ASSUME ExportInv, NEW w \in Workers, at[w] \in {"returned", "throwing"}, NEW e \in ExportIds, e = Target(w), run[w] # Free,
         NEW j \in Jobs, j = run[w].of, NEW status \in {"waiting", "succeeded", "failed"},
         UNCHANGED <<row, create, sweep, file, told, lost>>,
         NEW where \in {"idle", "throwing"}, at' = [at EXCEPT ![w] = where],
         \/ Current(w) /\ Becomes(j, status)
         \/ ~Current(w) /\ job' = job /\ where = "idle",
         run' = (IF where = "idle" THEN [run EXCEPT ![w] = Free] ELSE run),
         where = "throwing" => status = "succeeded",
         e \notin lost /\ Current(w) /\ Works(w, e) =>
           /\ status = "succeeded" => row[e].status \notin Unfinished
           /\ status = "failed" => row[e].status \notin Unfinished
  PROVE  ExportInv'
  <1> QueueInv /\ QueueTypes /\ RowInv /\ RowTypes
    BY DEF ExportInv, QueueInv, RowInv
  <1>1. /\ \A v \in Workers \ {w} : run'[v] = run[v] /\ at'[v] = at[v]
        /\ at'[w] = where /\ run'[w] = IF where = "idle" THEN Free ELSE run[w]
    BY DEF QueueTypes
  <1>2. TargetOf[j] = e /\ (Current(w) => job[j].status = "running")
    BY DEF Target, Current
  <1>3. /\ QueueInv' /\ RowInv' /\ \A i \in Jobs \ {j} : job'[i] = job[i]
        /\ job'[j] = job[j] \/ (job[j].status = "running" /\ job'[j].status = status)
    <2>1. job' = job \/ (job[j].status = "running" /\ Becomes(j, status))
      BY <1>2
    <2>2. run' \in [Workers -> RunRow \cup {Free}] /\ \A v \in Workers : run'[v] = run[v] \/ run'[v] = Free
      BY <1>1 DEF QueueTypes
    <2>3. at' \in [Workers -> {"idle", "reading", "starting", "building", "writing", "built", "notifying", "returned",
                              "catching", "throwing"}]
      BY DEF QueueTypes
    <2>4. \A v \in Workers : at'[v] = "idle" <=> run'[v] = Free
      BY <1>1 DEF QueueTypes
    <2>5. file' \in [ExportIds -> {"none", "whole", "cut"} \cup Workers] /\ lost' \subseteq ExportIds
      BY DEF RowTypes
    <2> QED
      BY <2>1, <2>2, <2>3, <2>4, <2>5, QueueEnds
  <1>4. \A i \in Jobs : job[i].status \in Over => job'[i] = job[i]
    BY <1>3 DEF Over
  <1>5. ASSUME e \notin lost'
        PROVE  Kept(e)' /\ \A v \in Workers : run'[v] # Free /\ TargetOf[run'[v].of] = e => Held(v)'
    <2>1. Kept(e) /\ Held(w) /\ row'[e] = row[e] /\ file'[e] = file[e] /\ told'[e] = told[e] /\ row[e].status # None
      <3>1. row[e].status # None
        BY <1>2 DEF QueueInv, RowInv
      <3> QED
        BY <1>5, <3>1 DEF ExportInv
    <2>2. CASE Current(w)
      <3>1. Works(w, e)
        <4>1. job[j].status \notin Over
          BY <1>2, <2>2 DEF Over
        <4> QED
          BY <2>1, <4>1 DEF Held
      <3>2. \A steps : OnIt(e, steps) <=> at[w] \in steps
        BY <2>2, Alone
      <3>3. job'[j].status = status
        BY <2>2 DEF Becomes, QueueTypes
      <3>4. row[e].status # "PROCESSING" /\ (row[e].status = "COMPLETED" => told[e] = 1)
        BY <2>1, <3>2 DEF Kept
      <3>5. row[e].status \in Unfinished => status = "waiting"
        BY <1>5, <2>2, <3>1
      <3>6. row[e].status \in Unfinished => ~Ended(e)'
        <4>1. ASSUME row[e].status \in Unfinished, NEW i \in Jobs, TargetOf[i] = e
              PROVE  job'[i].status \notin Over
          <5>1. job[i].status \notin Over
            BY <2>1, <4>1 DEF Kept, Ended
          <5> QED
            BY <1>3, <3>3, <3>5, <4>1, <5>1 DEF Over
        <4> QED
          BY <4>1 DEF Ended
      <3>7. Kept(e)'
        BY <2>1, <3>4, <3>6 DEF Kept
      <3>8. ASSUME NEW v \in Workers, run'[v] # Free, TargetOf[run'[v].of] = e
            PROVE  Held(v)'
        <4>1. CASE v = w
          <5>1. where = "throwing" /\ run'[w] = run[w] /\ status = "succeeded"
            BY <1>1, <3>8, <4>1
          <5> QED
            BY <1>1, <3>3, <4>1, <5>1 DEF Held, Over
        <4>2. CASE v # w
          <5>1. run'[v] = run[v] /\ at'[v] = at[v] /\ run[v] # Free /\ run[v].of \in Jobs /\ Target(v) = e
            BY <1>1, <3>8, <4>2, RunningRow
          <5>2. at[v] = "throwing" /\ job[run[v].of].status \in Over
            BY <1>5, <2>2, <4>2, <5>1, OthersLeave
          <5> QED
            BY <1>4, <5>1, <5>2 DEF Held
        <4> QED
          BY <4>1, <4>2
      <3> QED
        BY <3>7, <3>8
    <2>3. CASE ~Current(w)
      <3>1. job' = job /\ run'[w] = Free
        BY <1>1, <2>3
      <3>2. Ended(e)' <=> Ended(e)
        BY <3>1 DEF Ended
      <3>3. ASSUME NEW steps, OnIt(e, steps)
            PROVE  OnIt(e, steps)'
        <4>1. PICK v \in Workers : Current(v) /\ Target(v) = e /\ at[v] \in steps
          BY <3>3 DEF OnIt
        <4>2. v # w /\ run'[v] = run[v] /\ at'[v] = at[v]
          BY <1>1, <2>3, <4>1
        <4>3. Current(v)' /\ Target(v)' = e /\ at'[v] \in steps
          BY <3>1, <4>1, <4>2 DEF Current, Target
        <4> QED
          BY <4>3 DEF OnIt
      <3>4. OnIt(e, {"notifying", "catching"}) => OnIt(e, {"notifying", "catching"})'
        BY <3>3
      <3>5. OnIt(e, {"building", "writing", "built", "catching"}) => OnIt(e, {"building", "writing", "built", "catching"})'
        BY <3>3
      <3>6. Kept(e)'
        BY <2>1, <3>2, <3>4, <3>5 DEF Kept
      <3>7. ASSUME NEW v \in Workers, run'[v] # Free, TargetOf[run'[v].of] = e
            PROVE  Held(v)'
        <4>1. v # w /\ run'[v] = run[v] /\ at'[v] = at[v]
          BY <1>1, <3>1, <3>7
        <4>2. Target(v) = e /\ Target(v)' = e /\ run[v] # Free
          BY <3>7, <4>1 DEF Target
        <4>3. Held(v)
          BY <1>5, <4>2 DEF ExportInv
        <4>4. Works(v, e) => Works(v, e)'
          BY <2>1, <3>2, <4>1 DEF Works, Final
        <4>5. Current(v)' <=> Current(v)
          BY <3>1, <4>1 DEF Current
        <4> QED
          BY <3>1, <4>1, <4>2, <4>3, <4>4, <4>5 DEF Held
      <3> QED
        BY <3>6, <3>7
    <2> QED
      BY <2>2, <2>3
  <1>6. \A i \in Jobs : TargetOf[i] # e => job'[i] = job[i]
    BY <1>2, <1>3
  <1>7. (run[w] = Free \/ TargetOf[run[w].of] = e) /\ (run'[w] = Free \/ TargetOf[run'[w].of] = e)
    BY <1>1, <1>2
  <1> QED
    BY <1>1, <1>3, <1>5, <1>6, <1>7, OnlyExport

LEMMA ReturnKeeps ==
  ASSUME ExportInv, NEW w \in Workers, Return(w)
  PROVE  ExportInv'
  <1> QueueInv /\ QueueTypes /\ RowInv /\ RowTypes
    BY DEF ExportInv, QueueInv, RowInv
  <1>1. at[w] = "returned" /\ UNCHANGED <<row, create, sweep, file, told, lost>> /\ run[w] # Free
    BY DEF Return, QueueTypes
  <1>2. PICK j \in Jobs, e \in ExportIds : j = run[w].of /\ e = Target(w)
    BY <1>1, RunningRow
  <1>3. PICK where \in {"idle", "throwing"} : where = (IF run'[w] = Free THEN "idle" ELSE "throwing") /\ at' = [at EXCEPT ![w] = where]
    BY DEF Return, Steps
  <1>4. \/ Current(w) /\ Becomes(j, "succeeded") /\ (Leaves(w) \/ UNCHANGED run)
        \/ ~Current(w) /\ job' = job /\ Leaves(w)
    BY <1>2 DEF Return, Succeed, Quit
  <1>5. run' = (IF where = "idle" THEN [run EXCEPT ![w] = Free] ELSE run)
    <2>1. CASE Leaves(w)
      <3>1. run' = [run EXCEPT ![w] = Free] /\ run'[w] = Free
        BY <2>1 DEF Leaves, QueueTypes
      <3> QED
        BY <1>3, <3>1
    <2>2. CASE UNCHANGED run
      BY <1>1, <1>3, <2>2
    <2> QED
      BY <1>4, <2>1, <2>2
  <1>6. ~Current(w) => where = "idle"
    <2>1. Leaves(w) => run'[w] = Free
      BY DEF Leaves, QueueTypes
    <2> QED
      BY <1>3, <1>4, <2>1
  <1>7. Works(w, e) => row[e].status \notin Unfinished
    BY <1>1 DEF Works
  <1>8. (Current(w) /\ Becomes(j, "succeeded")) \/ (~Current(w) /\ job' = job /\ where = "idle")
    <2>1. CASE Current(w)
      BY <1>4, <2>1
    <2>2. CASE ~Current(w)
      BY <1>4, <1>6, <2>2
    <2> QED
      BY <2>1, <2>2
  <1> QED
    BY <1>1, <1>2, <1>3, <1>5, <1>7, <1>8, RunEnds

LEMMA ThrowKeeps ==
  ASSUME ExportInv, NEW w \in Workers, Throw(w)
  PROVE  ExportInv'
  <1> QueueInv /\ QueueTypes /\ RowInv /\ RowTypes
    BY DEF ExportInv, QueueInv, RowInv
  <1>1. at[w] = "throwing" /\ UNCHANGED <<row, create, sweep, file, told, lost>> /\ run[w] # Free /\ at' = [at EXCEPT ![w] = "idle"]
    BY DEF Throw, QueueTypes, Steps
  <1>2. PICK j \in Jobs, e \in ExportIds : j = run[w].of /\ e = Target(w)
    BY <1>1, RunningRow
  <1>3. PICK status \in {"waiting", "failed"} : status = IF Last(j) THEN "failed" ELSE "waiting"
    OBVIOUS
  <1>4. \/ Current(w) /\ Becomes(j, status)
        \/ ~Current(w) /\ job' = job
    BY <1>2, <1>3 DEF Throw, Fail, Quit
  <1>5. run' = [run EXCEPT ![w] = Free]
    BY DEF Throw, Fail, Quit, Leaves
  <1>6. Current(w) /\ Works(w, e) /\ status = "failed" => row[e].status \notin Unfinished
    <2>1. Current(w) /\ Last(j) => Final(w)
      BY <1>2 DEF Current, Last, Final
    <2>2. Works(w, e) => row[e].status # "PROCESSING" /\ (row[e].status = "PENDING" => ~Final(w))
      BY <1>1 DEF Works
    <2> QED
      BY <1>3, <2>1, <2>2 DEF Unfinished
  <1>7. status # "succeeded"
    BY <1>3
  <1> QED
    BY <1>1, <1>2, <1>4, <1>5, <1>6, <1>7, RunEnds

LEMMA DieKeeps ==
  ASSUME ExportInv, NEW w \in Workers, Die(w)
  PROVE  ExportInv'
  <1> QueueInv /\ QueueTypes /\ RowInv /\ RowTypes
    BY DEF ExportInv, QueueInv, RowInv
  <1>1. /\ run[w] # Free /\ run' = [run EXCEPT ![w] = Free] /\ job' = job /\ at' = [at EXCEPT ![w] = "idle"]
        /\ file' = [e \in ExportIds |-> IF file[e] = w THEN "cut" ELSE file[e]]
        /\ lost' = lost \cup {Target(w)} /\ UNCHANGED <<row, create, sweep, told>>
    BY DEF Die, Quit, Leaves, Steps
  <1>2. PICK j \in Jobs, e \in ExportIds : j = run[w].of /\ e = Target(w) /\ e = TargetOf[j]
    BY <1>1, RunningRow
  <1>3. /\ run'[w] = Free /\ at'[w] = "idle" /\ \A v \in Workers \ {w} : run'[v] = run[v] /\ at'[v] = at[v]
    BY <1>1 DEF QueueTypes
  <1>4. run' \in [Workers -> RunRow \cup {Free}] /\ \A v \in Workers : run'[v] = run[v] \/ run'[v] = Free
    BY <1>1, <1>3 DEF QueueTypes
  <1>5. at' \in [Workers -> {"idle", "reading", "starting", "building", "writing", "built", "notifying", "returned",
                             "catching", "throwing"}]
    BY <1>1 DEF QueueTypes
  <1>6. \A v \in Workers : at'[v] = "idle" <=> run'[v] = Free
    BY <1>3 DEF QueueTypes
  <1>7. file' \in [ExportIds -> {"none", "whole", "cut"} \cup Workers] /\ lost' \subseteq ExportIds /\ e \in lost'
    BY <1>1, <1>2 DEF RowTypes
  <1>8. QueueInv' /\ RowInv'
    BY <1>1, <1>4, <1>5, <1>6, <1>7, <1>2, QueueEnds
  <1>9. \A f \in ExportIds \ {e} : row'[f] = row[f] /\ told'[f] = told[f] /\ (file'[f] = file[f] \/ file[f] = w)
    BY <1>1
  <1>10. (run[w] = Free \/ TargetOf[run[w].of] = e) /\ (run'[w] = Free \/ TargetOf[run'[w].of] = e)
    BY <1>2, <1>3
  <1> QED
    BY <1>1, <1>3, <1>7, <1>8, <1>9, <1>10, OnlyExport

LEMMA RecoverKeeps ==
  ASSUME ExportInv, NEW j \in Jobs, Recover(j)
  PROVE  ExportInv'
  <1> QueueInv /\ QueueTypes /\ RowInv /\ RowTypes
    BY DEF ExportInv, QueueInv, RowInv
  <1>1. PICK status \in {"waiting", "failed"} : job[j].status = "running" /\ Becomes(j, status)
    BY DEF Recover, GiveBack
  <1>2. run' = run /\ lost' = lost \cup {TargetOf[j]} /\ UNCHANGED <<row, create, sweep, at, file, told>>
    BY DEF Recover, GiveBack
  <1>3. PICK e \in ExportIds : e = TargetOf[j]
    BY Keyed
  <1>4. lost' \subseteq ExportIds /\ e \in lost' /\ lost \subseteq lost'
    BY <1>2, <1>3 DEF RowTypes
  <1>5. QueueInv' /\ RowInv' /\ \A i \in Jobs \ {j} : job'[i] = job[i]
    <2>1. run' \in [Workers -> RunRow \cup {Free}] /\ \A v \in Workers : run'[v] = run[v] \/ run'[v] = Free
      BY <1>2 DEF QueueTypes
    <2>2. at' \in [Workers -> {"idle", "reading", "starting", "building", "writing", "built", "notifying", "returned",
                             "catching", "throwing"}]
      BY <1>2 DEF QueueTypes
    <2>3. \A v \in Workers : at'[v] = "idle" <=> run'[v] = Free
      BY <1>2 DEF QueueTypes
    <2>4. file' \in [ExportIds -> {"none", "whole", "cut"} \cup Workers]
      BY <1>2 DEF RowTypes
    <2> QED
      BY <1>1, <1>2, <1>4, <2>1, <2>2, <2>3, <2>4, QueueEnds
  <1>6. \A f \in ExportIds \ {e} : row'[f] = row[f] /\ told'[f] = told[f] /\ (file'[f] = file[f] \/ file[f] = None)
    BY <1>2
  <1>7. \A i \in Jobs : TargetOf[i] # e => job'[i] = job[i]
    BY <1>3, <1>5
  <1>8. None \notin Workers
    BY ExportsAssumption
  <1> QED
    BY <1>2, <1>4, <1>5, <1>6, <1>7, <1>8, OnlyExport

----------------------------------------------------------------------------
(* Requests and boots.                                                        *)

(* They leave the workers alone.                                              *)
LEMMA RequestMoves ==
  ASSUME ExportInv, RowInv', UNCHANGED <<queue, at, file, told, lost>>, NEW e \in ExportIds,
         \A f \in ExportIds \ {e} : row'[f] = row[f],
         \/ row'[e].status = row[e].status
         \/ row'[e].status = "deleted"
         \/ row[e].status = None /\ row'[e].status = "PENDING"
  PROVE  ExportInv'
  <1> QueueInv /\ QueueTypes /\ RowInv /\ RowTypes
    BY DEF ExportInv, QueueInv, RowInv
  <1>1. job' = job /\ run' = run /\ at' = at
    BY DEF queue
  <1>2. QueueInv'
    BY <1>1 DEF QueueInv, QueueTypes
  <1>3. Ended(e)' <=> Ended(e)
    BY <1>1 DEF Ended
  <1>4. \A steps : OnIt(e, steps)' <=> OnIt(e, steps)
    BY <1>1 DEF OnIt, Current, Target
  <1>5. e \notin lost' => Kept(e)'
    <2>1. SUFFICES ASSUME e \notin lost PROVE Kept(e)'
      OBVIOUS
    <2>2. Kept(e) /\ told'[e] = told[e] /\ file'[e] = file[e]
      BY <2>1 DEF ExportInv
    <2>3. CASE row'[e].status = row[e].status
      BY <1>3, <1>4, <2>2, <2>3 DEF Kept
    <2>4. CASE row'[e].status = "deleted"
      BY <2>4, ExportsAssumption DEF Kept, Unfinished
    <2>5. CASE row[e].status = None /\ row'[e].status = "PENDING"
      BY <1>3, <2>2, <2>5 DEF Kept
    <2> QED
      BY <2>3, <2>4, <2>5
  <1>6. ASSUME e \notin lost', NEW v \in Workers, run'[v] # Free, TargetOf[run'[v].of] = e
        PROVE  Held(v)'
    <2>1. Target(v) = e /\ run[v] # Free /\ row[e].status # None
      BY <1>1, <1>6, RunningRow DEF QueueInv, RowInv
    <2>2. Held(v)
      BY <1>6, <2>1 DEF ExportInv
    <2>3. Works(v, e) => Works(v, e)'
      <3>1. CASE row'[e].status = row[e].status
        BY <1>1, <1>3, <3>1 DEF Works, Final
      <3>2. CASE row'[e].status = "deleted"
        BY <1>1, <1>3, <3>2 DEF Works, Final, Unfinished
      <3> QED
        BY <2>1, <3>1, <3>2
    <2> QED
      BY <1>1, <2>1, <2>2, <2>3 DEF Held, Current, Target
  <1>7. None \notin Workers
    BY ExportsAssumption
  <1> QED
    BY <1>1, <1>2, <1>5, <1>6, <1>7, OnlyExport

(* A job is accepted, or the one in the way is the answer.                    *)
LEMMA EnqueuedKeeps ==
  ASSUME ExportInv, NEW e \in ExportIds, row[e].status # None, NEW j \in Jobs, Enqueued(e, j),
         UNCHANGED <<row, at, file, told, lost>>,
         create' \in [ExportIds -> [at : {"new", "free", "stored", "enqueued", "over"}, with : Jobs \cup {None}]],
         sweep' \in [of : ExportIds \cup {None}, with : Jobs \cup {None}],
         \A f \in ExportIds : create'[f] = create[f] \/ (f = e /\ create'[f] = [at |-> "enqueued", with |-> j]),
         sweep' = sweep \/ sweep' = [of |-> e, with |-> j]
  PROVE  ExportInv'
  <1> QueueInv /\ QueueTypes /\ RowInv /\ RowTypes
    BY DEF ExportInv, QueueInv, RowInv
  <1>1. run' = run
    BY DEF Enqueued, Accept, queue
  <1>2. \/ job' = job /\ job[j].status \in Live
        \/ /\ TargetOf[j] = e /\ job[j].status = None /\ Rivals(j) = {}
           /\ job' = [job EXCEPT ![j] = [status |-> "waiting", attempts |-> 0]]
    BY DEF Enqueued, Accept, queue
  <1>3. /\ \A i \in Jobs \ {j} : job'[i] = job[i]
        /\ job'[j] = job[j] \/ (/\ job[j].status = None /\ job'[j].status = "waiting" /\ TargetOf[j] = e
                                /\ \A i \in Jobs : Key[i] = Key[j] => job[i].status \notin Live)
    <2>1. CASE job' = job
      BY <2>1
    <2>2. CASE TargetOf[j] = e /\ job[j].status = None /\ Rivals(j) = {} /\ job' = [job EXCEPT ![j] = [status |-> "waiting", attempts |-> 0]]
      <3>1. \A i \in Jobs : Key[i] = Key[j] => job[i].status \notin Live
        BY <2>2, Keyed DEF Rivals
      <3>2. PICK new : new = [status |-> "waiting", attempts |-> 0]
        OBVIOUS
      <3>3. job' = [job EXCEPT ![j] = new] /\ new.status = "waiting"
        BY <2>2, <3>2
      <3> QED
        BY <2>2, <3>1, <3>3 DEF QueueTypes
    <2> QED
      BY <1>2, <2>1, <2>2
  <1>4. job' \in [Jobs -> [status : States, attempts : Nat]]
    <2>1. [status |-> "waiting", attempts |-> 0] \in [status : States, attempts : Nat]
      BY DEF States, Live
    <2> QED
      BY <1>2, <2>1 DEF QueueTypes
  <1>5. job'[j].status # None
    <2>1. None \notin Live /\ None # "waiting"
      BY ExportsAssumption DEF Live
    <2>2. CASE job' = job /\ job[j].status \in Live
      BY <2>1, <2>2
    <2>3. CASE ~(job' = job /\ job[j].status \in Live)
      <3>1. job'[j].status = "waiting" \/ (job'[j] = job[j] /\ job[j].status \in Live)
        BY <1>2, <1>3, <2>3 DEF QueueTypes
      <3> QED
        BY <2>1, <3>1
    <2> QED
      BY <2>2, <2>3
  <1>6. \A v \in Workers : run[v] # Free => job'[run[v].of] = job[run[v].of]
    BY <1>3, RunningRow DEF QueueInv
  <1>7. QueueInv'
    <2>1. QueueTypes'
      BY <1>1, <1>4 DEF QueueTypes
    <2>2. ASSUME NEW i \in Jobs, NEW k \in Jobs, Key[i] = Key[k], {job'[i].status, job'[k].status} \subseteq Live
          PROVE  i = k
      <3>1. CASE job'[j] = job[j]
        BY <1>3, <2>2, <3>1 DEF QueueInv
      <3>2. CASE \A l \in Jobs : Key[l] = Key[j] => job[l].status \notin Live
        BY <1>3, <2>2, <3>2 DEF QueueInv
      <3> QED
        BY <1>3, <3>1, <3>2
    <2> QED
      BY <1>1, <1>6, <2>1, <2>2 DEF QueueInv
  <1>8. \A i \in Jobs : /\ job[i].status # None => job'[i].status # None
                        /\ job'[i].status # None => job[i].status # None \/ i = j
                        /\ job'[i].status \in Over <=> job[i].status \in Over
    <2>1. None \notin Over /\ "waiting" \notin Over
      BY ExportsAssumption DEF Over
    <2> QED
      BY <1>3, <1>5, <2>1
  <1>9. RowInv'
    <2>1. RowTypes'
      BY DEF RowTypes
    <2>2. ASSUME NEW f \in ExportIds
          PROVE  /\ create'[f].at \in {"new", "free"} => row'[f].status = None
                 /\ create'[f].at \in {"stored", "enqueued"} => row'[f].status # None
                 /\ create'[f].at = "enqueued" => create'[f].with # None
                 /\ create'[f].with # None => job'[create'[f].with].status # None
      <3>1. create[f].with # None => create[f].with \in Jobs
        BY DEF RowTypes
      <3>2. CASE create'[f] = create[f]
        BY <1>8, <3>1, <3>2 DEF RowInv, Known
      <3>3. CASE f = e /\ create'[f] = [at |-> "enqueued", with |-> j]
        BY <1>5, <3>3, Keyed
      <3> QED
        BY <3>2, <3>3
    <2>3. ASSUME NEW f \in ExportIds, row[f].link # None
          PROVE  job'[row[f].link].status # None /\ TargetOf[row[f].link] = f
      <3>1. row[f].link \in Jobs
        BY <2>3 DEF RowTypes
      <3> QED
        BY <1>8, <2>3, <3>1 DEF RowInv, Known
    <2>4. /\ sweep'.of # None => row'[sweep'.of].status # None
          /\ sweep'.with # None => sweep'.of # None /\ job'[sweep'.with].status # None
      <3>1. sweep.with # None => sweep.with \in Jobs
        BY DEF RowTypes
      <3>2. CASE sweep' = sweep
        BY <1>8, <3>1, <3>2 DEF RowInv, Known
      <3>3. CASE sweep' = [of |-> e, with |-> j]
        <4>1. e # None
          BY ExportsAssumption
        <4> QED
          BY <1>5, <3>3, <4>1
      <3> QED
        BY <3>2, <3>3
    <2>5. ASSUME NEW i \in Jobs, job'[i].status # None
          PROVE  row'[TargetOf[i]].status # None
      <3>1. CASE job'[i] = job[i]
        BY <2>5, <3>1 DEF RowInv
      <3>2. CASE job'[i] # job[i]
        BY <1>3, <3>2
      <3> QED
        BY <3>1, <3>2
    <2> QED
      BY <2>1, <2>2, <2>3, <2>4, <2>5 DEF RowInv, Known
  <1>10. \A f \in ExportIds : Ended(f)' <=> Ended(f)
    BY <1>8 DEF Ended
  <1>11. \A v \in Workers : Current(v)' <=> Current(v)
    <2>1. \A v \in Workers : run[v] # Free => (Current(v)' <=> Current(v))
      BY <1>1, <1>6 DEF Current
    <2>2. \A v \in Workers : run[v] = Free => ~Current(v) /\ ~Current(v)'
      BY <1>1, Keyed DEF Current
    <2> QED
      BY <2>1, <2>2
  <1>12. ASSUME NEW v \in Workers, run'[v] # Free, Target(v)' \notin lost'
         PROVE  Held(v)'
    <2>1. Held(v) /\ run[v] # Free /\ Target(v)' = Target(v) /\ Target(v) \in ExportIds
      BY <1>1, <1>12, RunningRow DEF ExportInv, Target
    <2>2. PICK f \in ExportIds : f = Target(v)
      BY <2>1
    <2>3. Works(v, f) => Works(v, f)'
      BY <1>1, <1>10 DEF Works, Final
    <2> QED
      BY <1>1, <1>6, <1>11, <2>1, <2>2, <2>3 DEF Held
  <1>13. ASSUME NEW f \in ExportIds \ lost'
         PROVE  Kept(f)'
    <2>1. Kept(f)
      BY <1>13 DEF ExportInv
    <2>2. \A steps : OnIt(f, steps)' <=> OnIt(f, steps)
      BY <1>1, <1>11 DEF OnIt, Target
    <2> QED
      BY <1>10, <2>1, <2>2 DEF Kept
  <1> QED
    BY <1>7, <1>9, <1>12, <1>13 DEF ExportInv

(* One export is asked for, linked, dropped or swept.                         *)
LEMMA OneRequest ==
  ASSUME ExportInv, UNCHANGED <<queue, at, file, told, lost>>, NEW e \in ExportIds,
         row' \in [ExportIds -> [status : Unfinished \cup Gone \cup {"COMPLETED", "FAILED"}, link : Jobs \cup {None}]],
         create' \in [ExportIds -> [at : {"new", "free", "stored", "enqueued", "over"}, with : Jobs \cup {None}]],
         sweep' \in [of : ExportIds \cup {None}, with : Jobs \cup {None}],
         \A f \in ExportIds \ {e} : row'[f] = row[f] /\ create'[f] = create[f],
         row'[e].status = row[e].status \/ row'[e].status = "deleted" \/ (row[e].status = None /\ row'[e].status = "PENDING"),
         row'[e].link = row[e].link \/ (/\ row'[e].link # None /\ job[row'[e].link].status # None
                                        /\ TargetOf[row'[e].link] = e),
         create'[e] = create[e] \/ create'[e].with = None,
         create'[e].at \in {"new", "free"} => row'[e].status = None,
         create'[e].at \in {"stored", "enqueued"} => row'[e].status # None,
         create'[e].at = "enqueued" => create'[e].with # None,
         sweep' = sweep \/ sweep' = Resting \/ (sweep' = [of |-> e, with |-> None] /\ row'[e].status # None)
  PROVE  ExportInv'
  <1> RowInv /\ RowTypes
    BY DEF ExportInv, RowInv
  <1>1. job' = job /\ file' = file /\ told' = told /\ lost' = lost
    BY DEF queue
  <1>2. RowTypes'
    BY <1>1 DEF RowTypes
  <1>3. \A f \in ExportIds : row[f].status # None => row'[f].status # None
    <2>1. "deleted" # None /\ "PENDING" # None
      BY ExportsAssumption
    <2> QED
      BY <2>1
  <1>4. ASSUME NEW f \in ExportIds
        PROVE  /\ create'[f].at \in {"new", "free"} => row'[f].status = None
               /\ create'[f].at \in {"stored", "enqueued"} => row'[f].status # None
               /\ create'[f].at = "enqueued" => create'[f].with # None
               /\ create'[f].with # None => job'[create'[f].with].status # None
    <2>1. CASE f = e
      BY <1>1, <2>1 DEF RowInv, Known
    <2>2. CASE f # e
      BY <1>1, <2>2 DEF RowInv, Known
    <2> QED
      BY <2>1, <2>2
  <1>5. ASSUME NEW f \in ExportIds, row'[f].link # None
        PROVE  job'[row'[f].link].status # None /\ TargetOf[row'[f].link] = f
    <2>1. CASE row'[f].link = row[f].link
      BY <1>1, <1>5, <2>1 DEF RowInv, Known
    <2>2. CASE row'[f].link # row[f].link
      <3>1. f = e
        BY <2>2
      <3> QED
        BY <1>1, <2>2, <3>1
    <2> QED
      BY <2>1, <2>2
  <1>6. /\ sweep'.of # None => row'[sweep'.of].status # None
        /\ sweep'.with # None => sweep'.of # None /\ job'[sweep'.with].status # None
    <2>1. CASE sweep' = sweep
      <3>1. sweep.of # None => sweep.of \in ExportIds /\ row[sweep.of].status # None
        BY DEF RowTypes, RowInv
      <3>2. sweep.with # None => sweep.of # None /\ job[sweep.with].status # None
        BY DEF RowInv, Known
      <3> QED
        BY <1>1, <1>3, <2>1, <3>1, <3>2
    <2>2. CASE sweep' = Resting
      BY <2>2 DEF Resting
    <2>3. CASE sweep' = [of |-> e, with |-> None] /\ row'[e].status # None
      BY <2>3
    <2> QED
      BY <2>1, <2>2, <2>3
  <1>7. ASSUME NEW i \in Jobs, job'[i].status # None
        PROVE  row'[TargetOf[i]].status # None
    <2>1. TargetOf[i] \in ExportIds /\ row[TargetOf[i]].status # None
      BY <1>1, <1>7, Keyed DEF RowInv
    <2> QED
      BY <1>3, <2>1
  <1>8. RowInv'
    BY <1>2, <1>4, <1>5, <1>6, <1>7 DEF RowInv, Known
  <1>9. \A f \in ExportIds \ {e} : row'[f] = row[f]
    OBVIOUS
  <1> QED
    BY <1>8, <1>9, RequestMoves

LEMMA FindActiveKeeps ==
  ASSUME ExportInv, NEW e \in ExportIds, FindActive(e)
  PROVE  ExportInv'
  <1> RowInv /\ RowTypes
    BY DEF ExportInv, RowInv
  <1>1. /\ create[e].at = "new" /\ UNCHANGED <<queue, at, file, told, lost>> /\ row' = row /\ sweep' = sweep
    BY DEF FindActive
  <1>2. PICK where \in {"over", "free"} : create' = [create EXCEPT ![e] = [at |-> where, with |-> None]]
    BY DEF FindActive, Goes
  <1>3. PICK new : new = [at |-> where, with |-> None]
    OBVIOUS
  <1>4. new.at = where /\ new.with = None /\ new \in [at : {"new", "free", "stored", "enqueued", "over"}, with : Jobs \cup {None}]
    BY <1>3
  <1>5. create' = [create EXCEPT ![e] = new]
    BY <1>2, <1>3
  <1>6. /\ create' \in [ExportIds -> [at : {"new", "free", "stored", "enqueued", "over"}, with : Jobs \cup {None}]]
        /\ create'[e] = new /\ \A f \in ExportIds \ {e} : row'[f] = row[f] /\ create'[f] = create[f]
    BY <1>1, <1>4, <1>5 DEF RowTypes
  <1>7. row[e].status = None
    BY <1>1 DEF RowInv
  <1>8. /\ row' \in [ExportIds -> [status : Unfinished \cup Gone \cup {"COMPLETED", "FAILED"}, link : Jobs \cup {None}]]
        /\ sweep' \in [of : ExportIds \cup {None}, with : Jobs \cup {None}]
    BY <1>1 DEF RowTypes
  <1>9. /\ create'[e].with = None /\ row'[e].status = row[e].status /\ row'[e].link = row[e].link
        /\ create'[e].at \in {"over", "free"} /\ row'[e].status = None
    BY <1>1, <1>4, <1>6, <1>7
  <1> QED
    BY <1>1, <1>6, <1>8, <1>9, OneRequest

LEMMA CreateRowKeeps ==
  ASSUME ExportInv, NEW e \in ExportIds, CreateRow(e)
  PROVE  ExportInv'
  <1> RowInv /\ RowTypes
    BY DEF ExportInv, RowInv
  <1>1. create[e].at = "free" /\ UNCHANGED <<queue, at, file, told, lost>> /\ sweep' = sweep
    BY DEF CreateRow
  <1>2. PICK new : new = [at |-> "stored", with |-> None]
    OBVIOUS
  <1>3. PICK kept : kept = [status |-> "PENDING", link |-> row[e].link]
    OBVIOUS
  <1>4. /\ new.at = "stored" /\ new.with = None
        /\ new \in [at : {"new", "free", "stored", "enqueued", "over"}, with : Jobs \cup {None}]
    BY <1>2
  <1>5. /\ kept.status = "PENDING" /\ kept.link = row[e].link
        /\ kept \in [status : Unfinished \cup Gone \cup {"COMPLETED", "FAILED"}, link : Jobs \cup {None}]
    BY <1>3 DEF RowTypes, Unfinished
  <1>6. create' = [create EXCEPT ![e] = new] /\ row' = [row EXCEPT ![e] = kept]
    BY <1>2, <1>3 DEF CreateRow, Goes, Sets
  <1>7. /\ create' \in [ExportIds -> [at : {"new", "free", "stored", "enqueued", "over"}, with : Jobs \cup {None}]]
        /\ row' \in [ExportIds -> [status : Unfinished \cup Gone \cup {"COMPLETED", "FAILED"}, link : Jobs \cup {None}]]
        /\ create'[e] = new /\ row'[e] = kept /\ \A f \in ExportIds \ {e} : row'[f] = row[f] /\ create'[f] = create[f]
    BY <1>4, <1>5, <1>6 DEF RowTypes
  <1>8. row[e].status = None /\ row'[e].status = "PENDING" /\ "PENDING" # None /\ row'[e].link = row[e].link
    BY <1>1, <1>5, <1>7, ExportsAssumption DEF RowInv
  <1>9. create'[e].with = None /\ create'[e].at = "stored" /\ sweep' \in [of : ExportIds \cup {None}, with : Jobs \cup {None}]
    BY <1>1, <1>4, <1>7 DEF RowTypes
  <1> QED
    BY <1>1, <1>7, <1>8, <1>9, OneRequest

LEMMA CreateEnqueueKeeps ==
  ASSUME ExportInv, NEW e \in ExportIds, CreateEnqueue(e)
  PROVE  ExportInv'
  <1> RowInv /\ RowTypes
    BY DEF ExportInv, RowInv
  <1>1. create[e].at = "stored" /\ UNCHANGED <<row, at, file, told, lost>> /\ sweep' = sweep
    BY DEF CreateEnqueue
  <1>2. PICK j \in Jobs : Enqueued(e, j) /\ create' = [create EXCEPT ![e] = [at |-> "enqueued", with |-> j]]
    BY DEF CreateEnqueue, Goes
  <1>3. row[e].status # None
    BY <1>1 DEF RowInv
  <1>4. /\ create' \in [ExportIds -> [at : {"new", "free", "stored", "enqueued", "over"}, with : Jobs \cup {None}]]
        /\ sweep' \in [of : ExportIds \cup {None}, with : Jobs \cup {None}]
    BY <1>1, <1>2 DEF RowTypes
  <1>5. \A f \in ExportIds : create'[f] = create[f] \/ (f = e /\ create'[f] = [at |-> "enqueued", with |-> j])
    BY <1>2 DEF RowTypes
  <1> QED
    BY <1>1, <1>2, <1>3, <1>4, <1>5, EnqueuedKeeps

LEMMA SweepEnqueueKeeps ==
  ASSUME ExportInv, NEW e \in ExportIds, SweepEnqueue(e)
  PROVE  ExportInv'
  <1> RowInv /\ RowTypes
    BY DEF ExportInv, RowInv
  <1>1. sweep = [of |-> e, with |-> None] /\ UNCHANGED <<row, at, file, told, lost>> /\ create' = create
    BY DEF SweepEnqueue
  <1>2. PICK j \in Jobs : Enqueued(e, j) /\ sweep' = [of |-> e, with |-> j]
    BY DEF SweepEnqueue
  <1>3. row[e].status # None
    <2>1. sweep.of = e /\ e # None
      BY <1>1, ExportsAssumption
    <2> QED
      BY <2>1 DEF RowInv
  <1>4. /\ create' \in [ExportIds -> [at : {"new", "free", "stored", "enqueued", "over"}, with : Jobs \cup {None}]]
        /\ sweep' \in [of : ExportIds \cup {None}, with : Jobs \cup {None}]
    BY <1>1, <1>2 DEF RowTypes
  <1>5. \A f \in ExportIds : create'[f] = create[f] \/ (f = e /\ create'[f] = [at |-> "enqueued", with |-> j])
    BY <1>1
  <1> QED
    BY <1>1, <1>2, <1>3, <1>4, <1>5, EnqueuedKeeps

(* The row takes its job as its link, or gives way.                           *)
LEMMA Linked ==
  ASSUME ExportInv, NEW e \in ExportIds, NEW j \in Jobs, job[j].status # None, LinkOrDrop(e, j)
  PROVE  /\ row' \in [ExportIds -> [status : Unfinished \cup Gone \cup {"COMPLETED", "FAILED"}, link : Jobs \cup {None}]]
         /\ \A f \in ExportIds \ {e} : row'[f] = row[f]
         /\ row'[e].status = row[e].status \/ row'[e].status = "deleted"
         /\ row'[e].link = row[e].link \/ (/\ row'[e].link # None /\ job[row'[e].link].status # None
                                           /\ TargetOf[row'[e].link] = e)
  <1> RowTypes
    BY DEF ExportInv, RowInv
  <1>1. PICK new : /\ \/ new = [status |-> row[e].status, link |-> j] /\ TargetOf[j] = e
                      \/ new = [status |-> "deleted", link |-> row[e].link]
                   /\ row' = [row EXCEPT ![e] = new]
    BY DEF LinkOrDrop, Links, Sets
  <1>2. new \in [status : Unfinished \cup Gone \cup {"COMPLETED", "FAILED"}, link : Jobs \cup {None}]
    BY <1>1 DEF RowTypes, Gone
  <1>3. /\ row' \in [ExportIds -> [status : Unfinished \cup Gone \cup {"COMPLETED", "FAILED"}, link : Jobs \cup {None}]]
        /\ \A f \in ExportIds \ {e} : row'[f] = row[f]
        /\ row'[e] = new
    BY <1>1, <1>2 DEF RowTypes
  <1>4. CASE new = [status |-> row[e].status, link |-> j] /\ TargetOf[j] = e
    BY <1>3, <1>4, Keyed
  <1>5. CASE new = [status |-> "deleted", link |-> row[e].link]
    BY <1>3, <1>5
  <1> QED
    BY <1>1, <1>3, <1>4, <1>5

LEMMA CreateLinkKeeps ==
  ASSUME ExportInv, NEW e \in ExportIds, CreateLink(e)
  PROVE  ExportInv'
  <1> RowInv /\ RowTypes
    BY DEF ExportInv, RowInv
  <1>1. create[e].at = "enqueued" /\ row[e].status \notin Gone /\ UNCHANGED <<queue, at, file, told, lost>> /\ sweep' = sweep
    BY DEF CreateLink
  <1>2. PICK j \in Jobs : j = create[e].with /\ job[j].status # None
    BY <1>1 DEF RowInv, RowTypes, Known
  <1>3. LinkOrDrop(e, j)
    BY <1>2 DEF CreateLink
  <1>4. PICK new : new = [at |-> "over", with |-> None]
    OBVIOUS
  <1>5. /\ new.at = "over" /\ new.with = None
        /\ new \in [at : {"new", "free", "stored", "enqueued", "over"}, with : Jobs \cup {None}]
    BY <1>4
  <1>6. create' = [create EXCEPT ![e] = new]
    BY <1>4 DEF CreateLink, Goes
  <1>7. /\ create' \in [ExportIds -> [at : {"new", "free", "stored", "enqueued", "over"}, with : Jobs \cup {None}]]
        /\ create'[e] = new /\ \A f \in ExportIds \ {e} : create'[f] = create[f]
    BY <1>5, <1>6 DEF RowTypes
  <1>8. create'[e].with = None /\ create'[e].at = "over" /\ sweep' \in [of : ExportIds \cup {None}, with : Jobs \cup {None}]
    BY <1>1, <1>5, <1>7 DEF RowTypes
  <1> QED
    BY <1>1, <1>2, <1>3, <1>7, <1>8, Linked, OneRequest

LEMMA SweepLinkKeeps ==
  ASSUME ExportInv, SweepLink
  PROVE  ExportInv'
  <1> RowInv /\ RowTypes
    BY DEF ExportInv, RowInv
  <1>1. sweep.with # None /\ UNCHANGED <<queue, at, file, told, lost>> /\ create' = create /\ sweep' = Resting
    BY DEF SweepLink
  <1>2. PICK j \in Jobs : j = sweep.with /\ job[j].status # None
    BY <1>1 DEF RowInv, RowTypes, Known
  <1>3. PICK e \in ExportIds : e = sweep.of /\ row[e].status # None
    BY <1>1 DEF RowInv, RowTypes
  <1>4. LinkOrDrop(e, j)
    BY <1>2, <1>3 DEF SweepLink
  <1>5. /\ create' \in [ExportIds -> [at : {"new", "free", "stored", "enqueued", "over"}, with : Jobs \cup {None}]]
        /\ create'[e] = create[e] /\ \A f \in ExportIds \ {e} : create'[f] = create[f]
        /\ sweep' \in [of : ExportIds \cup {None}, with : Jobs \cup {None}]
    BY <1>1 DEF RowTypes, Resting
  <1>6. /\ create[e].at \notin {"new", "free"}
        /\ create[e].at = "enqueued" => create[e].with # None
    BY <1>3 DEF RowInv
  <1>7. row'[e].status # None
    <2>1. "deleted" # None
      BY ExportsAssumption
    <2> QED
      BY <1>2, <1>3, <1>4, <2>1, Linked
  <1> QED
    BY <1>1, <1>2, <1>4, <1>5, <1>6, <1>7, Linked, OneRequest

LEMMA CreateFailsKeeps ==
  ASSUME ExportInv, NEW e \in ExportIds, CreateFails(e)
  PROVE  ExportInv'
  <1> RowInv /\ RowTypes
    BY DEF ExportInv, RowInv
  <1>1. UNCHANGED <<queue, row, at, file, told, lost>> /\ sweep' = sweep
    BY DEF CreateFails
  <1>2. PICK new : new = [at |-> "over", with |-> None]
    OBVIOUS
  <1>3. /\ new.at = "over" /\ new.with = None
        /\ new \in [at : {"new", "free", "stored", "enqueued", "over"}, with : Jobs \cup {None}]
    BY <1>2
  <1>4. create' = [create EXCEPT ![e] = new]
    BY <1>2 DEF CreateFails, Goes
  <1>5. /\ create' \in [ExportIds -> [at : {"new", "free", "stored", "enqueued", "over"}, with : Jobs \cup {None}]]
        /\ create'[e] = new /\ \A f \in ExportIds \ {e} : row'[f] = row[f] /\ create'[f] = create[f]
    BY <1>1, <1>3, <1>4 DEF RowTypes
  <1>6. /\ row' \in [ExportIds -> [status : Unfinished \cup Gone \cup {"COMPLETED", "FAILED"}, link : Jobs \cup {None}]]
        /\ sweep' \in [of : ExportIds \cup {None}, with : Jobs \cup {None}]
        /\ row'[e].status = row[e].status /\ row'[e].link = row[e].link
    BY <1>1 DEF RowTypes
  <1>7. create'[e].with = None /\ create'[e].at = "over"
    BY <1>3, <1>5
  <1> QED
    BY <1>1, <1>5, <1>6, <1>7, OneRequest

(* A boot reads a row, or starts anew.                                        *)
LEMMA SweepMoves ==
  ASSUME ExportInv, UNCHANGED <<queue, row, create, at, file, told, lost>>, NEW e \in ExportIds,
         sweep' = Resting \/ (sweep' = [of |-> e, with |-> None] /\ row[e].status # None)
  PROVE  ExportInv'
  <1> RowInv /\ RowTypes
    BY DEF ExportInv, RowInv
  <1>1. sweep' \in [of : ExportIds \cup {None}, with : Jobs \cup {None}]
    BY DEF Resting
  <1>2. /\ row' \in [ExportIds -> [status : Unfinished \cup Gone \cup {"COMPLETED", "FAILED"}, link : Jobs \cup {None}]]
        /\ create' \in [ExportIds -> [at : {"new", "free", "stored", "enqueued", "over"}, with : Jobs \cup {None}]]
        /\ create'[e] = create[e] /\ row'[e].status = row[e].status /\ row'[e].link = row[e].link
        /\ \A f \in ExportIds \ {e} : row'[f] = row[f] /\ create'[f] = create[f]
    BY DEF RowTypes
  <1>3. /\ create'[e].at \in {"new", "free"} => row'[e].status = None
        /\ create'[e].at \in {"stored", "enqueued"} => row'[e].status # None
        /\ create'[e].at = "enqueued" => create'[e].with # None
    BY <1>2 DEF RowInv
  <1>4. sweep' = sweep \/ sweep' = Resting \/ (sweep' = [of |-> e, with |-> None] /\ row'[e].status # None)
    BY <1>2
  <1> QED
    BY <1>1, <1>2, <1>3, <1>4, OneRequest

LEMMA SweepReadKeeps ==
  ASSUME ExportInv, NEW e \in ExportIds, SweepRead(e)
  PROVE  ExportInv'
  <1>1. UNCHANGED <<queue, row, create, at, file, told, lost>> /\ sweep' = [of |-> e, with |-> None]
    BY DEF SweepRead
  <1>2. row[e].status # None
    BY ExportsAssumption DEF SweepRead
  <1> QED
    BY <1>1, <1>2, SweepMoves

LEMMA SweepEndsKeeps ==
  ASSUME ExportInv, SweepEnds
  PROVE  ExportInv'
  <1>1. UNCHANGED <<queue, row, create, at, file, told, lost>> /\ sweep' = Resting
    BY DEF SweepEnds
  <1>2. PICK e \in ExportIds : e = sweep.of
    <2>1. sweep # Resting /\ sweep \in [of : ExportIds \cup {None}, with : Jobs \cup {None}]
      BY DEF SweepEnds, ExportInv, RowInv, RowTypes
    <2>2. sweep.with # None => sweep.of # None
      BY DEF ExportInv, RowInv
    <2>3. sweep.of # None
      BY <2>1, <2>2 DEF Resting
    <2> QED
      BY <2>1, <2>3
  <1> QED
    BY <1>1, SweepMoves

----------------------------------------------------------------------------
(* Every step.                                                                *)
LEMMA ExportInit ==
  ASSUME Init
  PROVE  ExportInv
  <1>1. /\ \A j \in Jobs : job[j] = NoJob /\ \A w \in Workers : run[w] = Free /\ at[w] = "idle"
        /\ \A e \in ExportIds : row[e] = [status |-> None, link |-> None] /\ create[e] = [at |-> "new", with |-> None]
                                /\ told[e] = 0
    BY DEF Init, QueueInit
  <1>2. None \notin Live \cup Over \cup Unfinished \cup {"COMPLETED"}
    BY ExportsAssumption DEF Live, Over, Unfinished
  <1>3. QueueTypes
    BY DEF Init, QueueInit, QueueTypes, NoJob, States
  <1>4. QueueInv
    <2>0. \A j \in Jobs : job[j].status = None
      BY DEF Init, QueueInit, NoJob
    <2>1. \A i, j \in Jobs : ~({job[i].status, job[j].status} \subseteq Live)
      BY <1>2, <2>0
    <2>2. \A w \in Workers : run[w] = Free
      BY DEF Init, QueueInit
    <2> QED
      BY <1>3, <2>1, <2>2 DEF QueueInv
  <1>5. RowTypes
    BY DEF Init, RowTypes, Resting, Gone
  <1>6. sweep.of = None /\ sweep.with = None
    BY DEF Init, Resting
  <1>7. \A j \in Jobs : job[j].status = None
    BY DEF Init, QueueInit, NoJob
  <1>8. RowInv
    BY <1>1, <1>5, <1>6, <1>7 DEF RowInv, Known
  <1>9. \A e \in ExportIds : ~Ended(e)
    BY <1>2, <1>7 DEF Ended
  <1>10. \A e \in ExportIds : Kept(e)
    BY <1>1, <1>2, <1>9 DEF Kept, Unfinished
  <1>11. \A w \in Workers : run[w] = Free
    BY DEF Init, QueueInit
  <1> QED
    BY <1>4, <1>8, <1>10, <1>11 DEF ExportInv

LEMMA ExportStutters ==
  ASSUME ExportInv, UNCHANGED vars
  PROVE  ExportInv'
  <1>1. job' = job /\ run' = run /\ row' = row /\ create' = create /\ sweep' = sweep /\ at' = at /\ file' = file /\ told' = told
        /\ lost' = lost
    BY DEF vars, queue, exportVars
  <1>2. QueueInv'
    BY <1>1 DEF ExportInv, QueueInv, QueueTypes
  <1>3. RowInv'
    BY <1>1 DEF ExportInv, RowInv, RowTypes, Known
  <1>4. \A w \in Workers : run'[w] # Free /\ Target(w)' \notin lost' => Held(w)'
    BY <1>1 DEF ExportInv, Held, Works, Ended, Current, Target, Final
  <1>5. \A e \in ExportIds \ lost' : Kept(e)'
    BY <1>1 DEF ExportInv, Kept, OnIt, Ended, Current, Target
  <1> QED
    BY <1>2, <1>3, <1>4, <1>5 DEF ExportInv

LEMMA ExportSteps ==
  ASSUME ExportInv, [Next]_vars
  PROVE  ExportInv'
  <1>1. CASE \E e \in ExportIds :
               \/ FindActive(e) \/ CreateRow(e) \/ CreateEnqueue(e) \/ CreateLink(e) \/ CreateFails(e)
               \/ SweepRead(e) \/ SweepEnqueue(e)
    BY <1>1, FindActiveKeeps, CreateRowKeeps, CreateEnqueueKeeps, CreateLinkKeeps, CreateFailsKeeps, SweepReadKeeps,
       SweepEnqueueKeeps
  <1>2. CASE SweepLink \/ SweepEnds
    BY <1>2, SweepLinkKeeps, SweepEndsKeeps
  <1>3. CASE \E j \in Jobs : Recover(j) \/ \E w \in Workers : Execute(w, j)
    BY <1>3, RecoverKeeps, ExecuteKeeps
  <1>4. ASSUME NEW w \in Workers, Process(w) \/ Die(w)
        PROVE  ExportInv'
    <2>1. CASE Read(w) \/ MarkProcessing(w) \/ BuildFails(w) \/ OpenFile(w) \/ WriteFile(w) \/ MarkCompleted(w)
      BY <2>1, ReadKeeps, MarkProcessingKeeps, BuildFailsKeeps, OpenFileKeeps, WriteFileKeeps, MarkCompletedKeeps
    <2>2. CASE Notify(w) \/ StatementFails(w) \/ Catch(w) \/ Escape(w) \/ Return(w) \/ Throw(w) \/ Die(w)
      BY <2>2, NotifyKeeps, StatementFailsKeeps, CatchKeeps, EscapeKeeps, ReturnKeeps, ThrowKeeps, DieKeeps
    <2> QED
      BY <1>4, <2>1, <2>2 DEF Process
  <1>5. CASE UNCHANGED vars
    BY <1>5, ExportStutters
  <1> QED
    BY <1>1, <1>2, <1>3, <1>4, <1>5 DEF Next

(* What is promised follows.                                                  *)
LEMMA ExportPromised ==
  ASSUME ExportInv
  PROVE  ExportSafe
  <1> QueueInv /\ QueueTypes /\ RowInv /\ RowTypes
    BY DEF ExportInv, QueueInv, RowInv
  <1>1. TypeOK
    BY DEF TypeOK, QueueTypes, RowTypes
  <1>2. ASSUME NEW e \in ExportIds, NEW steps, OnIt(e, steps)
        PROVE  At(e) # {}
    <2>1. PICK w \in Workers : Current(w) /\ Target(w) = e
      BY <1>2 DEF OnIt
    <2> QED
      BY <2>1 DEF At, Current
  <1>3. FileServed
    <2>1. ASSUME NEW e \in ExportIds, row[e].status = "COMPLETED", e \notin lost
          PROVE  file[e] = "whole" /\ (At(e) = {} => told[e] = 1)
      <3>1. Kept(e)
        BY <2>1 DEF ExportInv
      <3> QED
        BY <1>2, <2>1, <3>1 DEF Kept
    <2> QED
      BY <2>1 DEF FileServed
  <1>4. BuiltOnce
    <2>1. ASSUME NEW v \in Workers, NEW w \in Workers, v # w, {at[v], at[w]} \subseteq {"building", "writing", "built"},
                 Fingerprint[Target(v)] = Fingerprint[Target(w)], {Target(v), Target(w)} \cap lost = {}
          PROVE  FALSE
      <3>1. run[v] # Free /\ run[w] # Free /\ at[v] # "throwing" /\ at[w] # "throwing"
        BY <2>1 DEF QueueTypes
      <3>2. Held(v) /\ Held(w)
        BY <2>1, <3>1 DEF ExportInv
      <3>3. Current(v) /\ Current(w)
        BY <3>1, <3>2 DEF Held
      <3>4. Key[run[v].of] = Key[run[w].of]
        BY <2>1, <3>1, RunningRow, Keyed
      <3> QED
        BY <2>1, <3>3, <3>4, OneCurrent
    <2> QED
      BY <2>1 DEF BuiltOnce
  <1>5. NotForgotten
    <2>1. ASSUME NEW e \in ExportIds, row[e].link # None, row[e].status \in Unfinished, e \notin lost
          PROVE  \E j \in Jobs : TargetOf[j] = e /\ job[j].status \in Live
      <3>1. PICK j \in Jobs : j = row[e].link /\ TargetOf[j] = e /\ job[j].status # None
        BY <2>1 DEF RowTypes, RowInv, Known
      <3>2. ~Ended(e)
        BY <2>1 DEF ExportInv, Kept
      <3>3. job[j].status \in States
        BY DEF QueueTypes
      <3>4. job[j].status \in Live
        BY <3>1, <3>2, <3>3 DEF Ended, States
      <3> QED
        BY <3>1, <3>4
    <2> QED
      BY <2>1 DEF NotForgotten
  <1> QED
    BY <1>1, <1>3, <1>4, <1>5 DEF ExportSafe

(* Whoever builds an export, and however often its job is handed out: none    *)
(* is forgotten, none is built twice, and a file that is offered is whole and *)
(* was announced once, as long as none of its runs was cut off                *)
(* (ExportJobWorker.process over the queue, and what ExportJobService.create  *)
(* and enqueueRecoverableExports do beside it).                               *)
THEOREM ExportsServe == Spec => []ExportSafe
  <1>1. Init => ExportInv
    BY ExportInit
  <1>2. ExportInv /\ [Next]_vars => ExportInv'
    BY ExportSteps
  <1>3. ExportInv => ExportSafe
    BY ExportPromised
  <1> QED
    BY <1>1, <1>2, <1>3, PTL DEF Spec
================================================================================
