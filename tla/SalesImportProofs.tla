--------------------------- MODULE SalesImportProofs ---------------------------
(***************************************************************************)
(* Proofs about SalesImport, for any number of runs, sales, workers and    *)
(* uploads.                                                                *)
(***************************************************************************)
EXTENDS SalesImport, TLAPS

----------------------------------------------------------------------------
(* Executions and the upload, and what they hold.                          *)
Fetches   == {"fetching", "recording", "catching", "ready", "partial", "blocked"}
Days      == {None, "FETCHING", "READY", "FAILED"}
WithSale  == {"attached", "duplicate", "checking", "creating", "releasing", "failing"}
Selling   == {"sales"} \cup WithSale
Confirms  == {"claiming", "listing"} \cup Selling
Statuses  == {None, "NEW", "DUPLICATE", "IMPORTED", "FAILED"}
Rows      == [status : Statuses, by : 0..world.previews]
Kinds     == {"preview", "confirm"}
Procs     == [at : {"idle", "returned", "throwing"} \cup Fetches \cup Confirms, job : {None} \cup (Kinds \X Runs),
              by : 0..world.previews, todo : SUBSET (Sales \cup (Sales \X Rows)), sale : Sales \cup {None}, bad : BOOLEAN]

(* An execution previews or confirms a run.                                *)
Previewing(p, r) == p.at \in Fetches /\ p.job = <<"preview", r>>
Confirming(p, r) == p.at \in Confirms /\ p.job = <<"confirm", r>>

ProcOK(p) ==
  /\ p \in Procs
  /\ p.at = "idle" => p = Idle
  /\ p.at # "idle" => p.job \in Kinds \X Runs
  /\ p.at \in Fetches => (\E r \in Runs : p.job = <<"preview", r>>) /\ p.todo \subseteq Sales
  /\ p.at \in Confirms => (\E r \in Runs : p.job = <<"confirm", r>>) /\ p.todo \subseteq Sales \X Rows
  /\ p.at \in WithSale => p.sale \in Sales

UploadOK ==
  /\ upload \in [at : {"idle", "rows", "creating", "undoing"}, seen : SUBSET Sales, todo : SUBSET Sales, sale : Sales \cup {None}]
  /\ upload.at \in {"creating", "undoing"} => upload.sale \in Sales

(* A sale with an identity is in one's hands at most, and before anybody   *)
(* created its order; it has its order, or is in somebody's hands, or was  *)
(* left by one who had it.                                                 *)
Ordered(s)   == identity[s] # None /\ identity[s].order # None
Holds(w, s)  == proc[w].at \in Claiming /\ proc[w].sale = s
FileHolds(s) == upload.at \in {"creating", "undoing"} /\ upload.sale = s
SaleOK(s) ==
  /\ orders[s] \in {0, 1} /\ (orders[s] = 1 => Ordered(s))
  /\ identity[s] # None /\ identity[s].order = "historical" => orders[s] = 1
  /\ \A w \in Workers : Holds(w, s) =>
       /\ identity[s] # None /\ ~FileHolds(s) /\ (proc[w].at \in {"checking", "creating"} => orders[s] = 0)
       /\ \A v \in Workers : Holds(v, s) => v = w
  /\ FileHolds(s) => identity[s] # None /\ orders[s] = 0
  /\ identity[s] # None => \/ s \in dropped \/ orders[s] = 1 \/ s \in linked \/ FileHolds(s)
                           \/ \E w \in Workers : Holds(w, s)

(* Somebody has dealt with a sale; that lasts.  Whatever is written of a   *)
(* sale, but that it is new, says so.                                      *)
Met(s) == identity[s] # None \/ s \in dropped \/ s \in linked
RowMet(c, s) == (c.status \in {"DUPLICATE", "FAILED"} => Met(s)) /\ (c.status = "IMPORTED" => Ordered(s))
ProcMet(p) ==
  /\ p.at = "attached" => Ordered(p.sale)
  /\ p.at \in {"duplicate", "failing"} => Met(p.sale)
  /\ p.at \in Selling => \A m \in p.todo : m[2].status # "NEW" => Met(m[1])
MetOK == (\A r \in Runs : \A s \in Sales : RowMet(row[r][s], s)) /\ \A w \in Workers : ProcMet(proc[w])

(* A run that was previewed once and can be confirmed has recorded the      *)
(* sales of its day if that is READY, and an execution that confirms it    *)
(* has met each of them or is going to.                                    *)
Confirmable == Ready \cup {"IMPORTING", "COMPLETED"}
Due(r) == {s \in Found[r] : day[r] = "READY"}
RunFits(r) ==
  /\ previews[r] = 0 => run[r] \notin Confirmable /\ day[r] # "READY"
  /\ previews[r] = 1 /\ run[r] \in Confirmable => \A s \in Due(r) : row[r][s].status # None
  /\ previews[r] = 1 /\ run[r] = "COMPLETED" => \A s \in Due(r) : Met(s)
Records(p, r) ==
  /\ p.at = "recording" => /\ \A s \in p.todo : s \in Found[r] /\ row[r][s] = NoRow
                           /\ \A s \in Found[r] \ p.todo : row[r][s].status # None
  /\ p.at = "ready" => \A s \in Found[r] : row[r][s].status # None
  /\ day[r] = "READY" => p.at = "ready"
PreviewFits(w, r) ==
  Previewing(proc[w], r) =>
    /\ previews[r] # 0
    /\ previews[r] = 1 => /\ run[r] = "FETCHING" /\ Records(proc[w], r)
                          /\ \A v \in Workers : Previewing(proc[v], r) => v = w
Meets(p, r) == p.at \in Selling => \A s \in Due(r) : Met(s) \/ \E m \in p.todo : m[1] = s
ConfirmFits(w, r) ==
  Confirming(proc[w], r) => previews[r] # 0 /\ (previews[r] = 1 => run[r] \in Confirmable /\ Meets(proc[w], r))
RunsOK == \A r \in Runs : RunFits(r) /\ \A w \in Workers : PreviewFits(w, r) /\ ConfirmFits(w, r)

ProcsOK  == proc \in [Workers -> Procs] /\ \A w \in Workers : ProcOK(proc[w])
ClaimsOK == \A s \in Sales : SaleOK(s)
SalesInv == TypeOK /\ ProcsOK /\ UploadOK /\ ClaimsOK /\ MetOK /\ RunsOK

----------------------------------------------------------------------------
(* What a step leaves as it was.                                           *)
LEMMA Execs ==
  ASSUME ProcsOK, NEW w \in Workers, NEW p, proc' = [proc EXCEPT ![w] = p]
  PROVE  /\ proc'[w] = p /\ \A v \in Workers : v # w => proc'[v] = proc[v]
         /\ p \in Procs => proc' \in [Workers -> Procs]
  BY DEF ProcsOK

LEMMA Lasts ==
  ASSUME identity' = identity, dropped \subseteq dropped', linked \subseteq linked'
  PROVE  \A s \in Sales : (Met(s) => Met(s)') /\ (Ordered(s) => Ordered(s)')
  BY DEF Met, Ordered

LEMMA FoundSales ==
  ASSUME NEW r \in Runs
  PROVE  Found[r] \subseteq Sales /\ Due(r) \subseteq Found[r] /\ (day'[r] = day[r] => Due(r)' = Due(r))
  BY SalesAssumption DEF Due

LEMMA ProcsKept ==
  ASSUME SalesInv, NEW w \in Workers, NEW p, proc' = [proc EXCEPT ![w] = p], ProcOK(p), world' = world
  PROVE  ProcsOK'
  <1>1. ProcsOK /\ p \in Procs
    BY DEF SalesInv, ProcOK
  <1>2. proc'[w] = p /\ \A v \in Workers : v # w => proc'[v] = proc[v]
    BY <1>1, Execs
  <1>3. proc' \in [Workers -> Procs]
    BY <1>1, Execs
  <1>4. Procs' = Procs /\ Rows' = Rows
    BY DEF Procs, Rows
  <1>5. \A q : ProcOK(q) => ProcOK(q)'
    BY <1>4 DEF ProcOK
  <1>6. \A v \in Workers : ProcOK(proc'[v])
    BY <1>1, <1>2 DEF ProcsOK
  <1>7. \A v \in Workers : ProcOK(proc[v])'
    <2>1. SUFFICES ASSUME NEW v \in Workers PROVE ProcOK(proc[v])'
      OBVIOUS
    <2>2. PICK q : q = proc'[v]
      OBVIOUS
    <2>3. ProcOK(q)'
      BY <1>5, <1>6, <2>2
    <2> QED
      BY <2>2, <2>3, <1>4 DEF ProcOK
  <1> QED
    BY <1>3, <1>4, <1>7 DEF ProcsOK

(* A worker has a sale in its hands as before, or gives it away.           *)
LEMMA ClaimsKept ==
  ASSUME SalesInv, NEW w \in Workers, NEW p, proc' = [proc EXCEPT ![w] = p], UNCHANGED <<identity, orders, upload>>,
         dropped \subseteq dropped', linked \subseteq linked',
         p.at \in Claiming => proc[w].at \in Claiming /\ p.sale = proc[w].sale,
         p.at \in {"checking", "creating"} => proc[w].at \in {"checking", "creating"},
         proc[w].at \in Claiming /\ p.at \notin Claiming => proc[w].sale \in dropped'
  PROVE  ClaimsOK'
  <1>1. proc'[w] = p /\ \A v \in Workers : v # w => proc'[v] = proc[v]
    BY Execs DEF SalesInv
  <1>2. SUFFICES ASSUME NEW s \in Sales PROVE SaleOK(s)'
    BY DEF ClaimsOK
  <1>3. SaleOK(s)
    BY DEF SalesInv, ClaimsOK
  <1>4. \A v \in Workers : Holds(v, s)' => Holds(v, s)
    BY <1>1 DEF Holds
  <1>5. \A v \in Workers : Holds(v, s) => Holds(v, s)' \/ s \in dropped'
    BY <1>1 DEF Holds
  <1>6. FileHolds(s)' = FileHolds(s) /\ Ordered(s)' = Ordered(s)
    BY DEF FileHolds, Ordered
  <1>7. \A v \in Workers : proc'[v].at \in {"checking", "creating"} => proc[v].at \in {"checking", "creating"}
    BY <1>1
  <1>8. orders[s]' \in {0, 1} /\ (orders[s]' = 1 => Ordered(s)') /\ (FileHolds(s)' => identity[s]' # None /\ orders[s]' = 0)
        /\ (identity[s]' # None /\ identity[s]'.order = "historical" => orders[s]' = 1)
    BY <1>3, <1>6 DEF SaleOK
  <1>9. \A v \in Workers : Holds(v, s)' =>
          /\ identity[s]' # None /\ ~FileHolds(s)' /\ (proc'[v].at \in {"checking", "creating"} => orders[s]' = 0)
          /\ \A u \in Workers : Holds(u, s)' => u = v
    BY <1>3, <1>4, <1>6, <1>7 DEF SaleOK
  <1>10. identity[s]' # None => \/ s \in dropped' \/ orders[s]' = 1 \/ s \in linked' \/ FileHolds(s)'
                                \/ \E v \in Workers : Holds(v, s)'
    BY <1>3, <1>5, <1>6 DEF SaleOK
  <1> QED
    BY <1>8, <1>9, <1>10 DEF SaleOK

LEMMA MetKept ==
  ASSUME SalesInv, NEW w \in Workers, NEW p, proc' = [proc EXCEPT ![w] = p],
         \A s \in Sales : (Met(s) => Met(s)') /\ (Ordered(s) => Ordered(s)'),
         \A r \in Runs : \A s \in Sales : row'[r][s] = row[r][s] \/ RowMet(row[r][s], s)',
         ProcMet(p)'
  PROVE  MetOK'
  <1>1. proc'[w] = p /\ \A v \in Workers : v # w => proc'[v] = proc[v]
    BY Execs DEF SalesInv
  <1>2. ASSUME NEW r \in Runs, NEW s \in Sales PROVE RowMet(row[r][s], s)'
    <2>1. RowMet(row[r][s], s)
      BY DEF SalesInv, MetOK
    <2> QED
      BY <2>1 DEF RowMet
  <1>3. ASSUME NEW v \in Workers PROVE ProcMet(proc[v])'
    <2>1. CASE v = w
      <3>1. proc'[v] = p
        BY <1>1, <2>1
      <3> QED
        BY <3>1 DEF ProcMet
    <2>2. CASE v # w
      <3>1. PICK q : q = proc[v]
        OBVIOUS
      <3>2. ProcMet(q) /\ ProcOK(q) /\ proc'[v] = q
        BY <1>1, <2>2, <3>1 DEF SalesInv, MetOK, ProcsOK
      <3>3. q.at \in WithSale => q.sale \in Sales
        BY <3>2 DEF ProcOK
      <3>4. q.at \in Selling => \A m \in q.todo : m[1] \in Sales
        BY <3>2 DEF ProcOK, Confirms
      <3>5. (q.at = "attached" => Ordered(q.sale)') /\ (q.at \in {"duplicate", "failing"} => Met(q.sale)')
        BY <3>2, <3>3 DEF ProcMet, WithSale
      <3>6. q.at \in Selling => \A m \in q.todo : m[2].status # "NEW" => Met(m[1])'
        BY <3>2, <3>4 DEF ProcMet
      <3> QED
        BY <3>2, <3>5, <3>6 DEF ProcMet
    <2> QED
      BY <2>1, <2>2
  <1> QED
    BY <1>2, <1>3 DEF MetOK

----------------------------------------------------------------------------
(* What a step makes of the runs.                                          *)
LEMMA Roles ==
  ASSUME NEW p, NEW r, NEW q
  PROVE  /\ Previewing(p, r) /\ Previewing(p, q) => r = q
         /\ Confirming(p, r) /\ Confirming(p, q) => r = q
         /\ ~(Previewing(p, r) /\ Confirming(p, q))
         /\ (Previewing(p, r) => p.job[2] = r) /\ (Confirming(p, r) => p.job[2] = r)
  <1>1. p.job = <<"preview", r>> \/ p.job = <<"confirm", r>> => p.job[2] = r
    OBVIOUS
  <1>2. p.job = <<"preview", q>> \/ p.job = <<"confirm", q>> => p.job[2] = q
    OBVIOUS
  <1>3. p.job = <<"preview", r>> => p.job # <<"confirm", q>>
    OBVIOUS
  <1> QED
    BY <1>1, <1>2, <1>3 DEF Previewing, Confirming

(* Whatever is confirmed or previewed otherwise stays as it was.           *)
LEMMA RunsOfOthers ==
  ASSUME SalesInv, NEW w \in Workers, NEW p, proc' = [proc EXCEPT ![w] = p], NEW q \in Runs,
         previews'[q] = previews[q], day'[q] = day[q], run'[q] = run[q], row'[q] = row[q], \A s \in Sales : Met(s) => Met(s)',
         Previewing(p, q) => Previewing(proc[w], q)
  PROVE  /\ RunFits(q)'
         /\ \A v \in Workers : v # w => PreviewFits(v, q)' /\ ConfirmFits(v, q)'
  <1>1. proc'[w] = p /\ \A v \in Workers : v # w => proc'[v] = proc[v]
    BY Execs DEF SalesInv
  <1>2. Found[q] \subseteq Sales /\ Due(q) \subseteq Found[q] /\ Due(q)' = Due(q)
    BY FoundSales
  <1>3. RunFits(q)'
    <2>1. RunFits(q)
      BY DEF SalesInv, RunsOK
    <2> QED
      BY <1>2, <2>1 DEF RunFits
  <1>4. ASSUME NEW v \in Workers, v # w PROVE PreviewFits(v, q)'
    <2>1. PreviewFits(v, q) /\ proc'[v] = proc[v]
      BY <1>1, <1>4 DEF SalesInv, RunsOK
    <2>2. \A u \in Workers : Previewing(proc'[u], q) => Previewing(proc[u], q)
      BY <1>1
    <2>3. Records(proc[v], q) => Records(proc[v], q)'
      BY <2>1 DEF Records
    <2> QED
      BY <2>1, <2>2, <2>3 DEF PreviewFits, Previewing
  <1>5. ASSUME NEW v \in Workers, v # w PROVE ConfirmFits(v, q)'
    <2>1. ConfirmFits(v, q) /\ proc'[v] = proc[v]
      BY <1>1, <1>5 DEF SalesInv, RunsOK
    <2>2. Meets(proc[v], q) => Meets(proc[v], q)'
      BY <1>2, <2>1 DEF Meets
    <2> QED
      BY <2>1, <2>2 DEF ConfirmFits, Confirming
  <1> QED
    BY <1>3, <1>4, <1>5

(* A worker leaves, or takes up a job, or goes on with its own.            *)
LEMMA RunsRest ==
  ASSUME SalesInv, NEW w \in Workers, NEW p, proc' = [proc EXCEPT ![w] = p], UNCHANGED <<previews, day, run, row>>,
         \A s \in Sales : Met(s) => Met(s)', p.at \notin Fetches,
         \A q \in Runs : Confirming(p, q) => previews[q] # 0 /\ (previews[q] = 1 => run[q] \in Confirmable /\ Meets(p, q)')
  PROVE  RunsOK'
  <1>1. proc'[w] = p
    BY Execs DEF SalesInv
  <1>2. SUFFICES ASSUME NEW q \in Runs PROVE RunFits(q)' /\ \A v \in Workers : PreviewFits(v, q)' /\ ConfirmFits(v, q)'
    BY DEF RunsOK
  <1>3. ~Previewing(p, q)
    BY DEF Previewing
  <1>4. RunFits(q)' /\ \A v \in Workers : v # w => PreviewFits(v, q)' /\ ConfirmFits(v, q)'
    BY <1>3, RunsOfOthers
  <1>5. PreviewFits(w, q)'
    BY <1>1, <1>3 DEF PreviewFits, Previewing
  <1>6. ConfirmFits(w, q)'
    BY <1>1 DEF ConfirmFits, Confirming, Meets
  <1> QED
    BY <1>4, <1>5, <1>6

(* The confirmation of r goes on.                                          *)
LEMMA ConfirmGoesOn ==
  ASSUME SalesInv, NEW w \in Workers, NEW r \in Runs, NEW p, Confirming(proc[w], r), proc' = [proc EXCEPT ![w] = p],
         previews' = previews, day' = day, p.at \notin Fetches, p.at \in Confirms => p.job = <<"confirm", r>>,
         \A s \in Sales : Met(s) => Met(s)',
         \A q \in Runs : q # r => row'[q] = row[q] /\ run'[q] = run[q],
         run'[r] = run[r] \/ run'[r] \in Confirmable,
         \A s \in Sales : row[r][s].status # None => row'[r][s].status # None,
         previews[r] = 1 /\ run'[r] = "COMPLETED" => run[r] = "COMPLETED" \/ \A s \in Due(r) : Met(s)',
         previews[r] = 1 => Meets(p, r)'
  PROVE  RunsOK'
  <1>1. proc'[w] = p /\ \A v \in Workers : v # w => proc'[v] = proc[v]
    BY Execs DEF SalesInv
  <1>2. \A q \in Runs : ~Previewing(p, q) /\ (Confirming(p, q) => q = r)
    BY Roles DEF Previewing, Confirming
  <1>3. Found[r] \subseteq Sales /\ Due(r) \subseteq Found[r] /\ Due(r)' = Due(r)
    BY FoundSales
  <1>4. ConfirmFits(w, r) /\ RunFits(r)
    BY DEF SalesInv, RunsOK
  <1>5. previews[r] # 0 /\ (previews[r] = 1 => run[r] \in Confirmable /\ run'[r] \in Confirmable)
    BY <1>4 DEF ConfirmFits
  <1>6. RunFits(r)'
    <2>1. previews[r] = 1 => \A s \in Due(r) : row'[r][s].status # None
      BY <1>3, <1>4, <1>5 DEF RunFits
    <2>2. previews[r] = 1 /\ run'[r] = "COMPLETED" => \A s \in Due(r) : Met(s)'
      BY <1>3, <1>4 DEF RunFits
    <2> QED
      BY <1>3, <1>5, <2>1, <2>2 DEF RunFits
  <1>7. ASSUME NEW v \in Workers PROVE PreviewFits(v, r)'
    <2>1. CASE v = w
      BY <1>1, <1>2, <2>1 DEF PreviewFits, Previewing
    <2>2. CASE v # w
      <3>1. PreviewFits(v, r) /\ proc'[v] = proc[v]
        BY <1>1, <2>2 DEF SalesInv, RunsOK
      <3>2. "FETCHING" \notin Confirmable
        BY DEF Confirmable, Ready
      <3>3. Previewing(proc[v], r) => previews[r] # 0 /\ previews[r] # 1
        BY <1>5, <3>1, <3>2 DEF PreviewFits
      <3> QED
        BY <3>1, <3>3 DEF PreviewFits, Previewing
    <2> QED
      BY <2>1, <2>2
  <1>8. ASSUME NEW v \in Workers PROVE ConfirmFits(v, r)'
    <2>1. CASE v = w
      BY <1>1, <1>5, <2>1 DEF ConfirmFits, Confirming, Meets
    <2>2. CASE v # w
      <3>1. ConfirmFits(v, r) /\ proc'[v] = proc[v]
        BY <1>1, <2>2 DEF SalesInv, RunsOK
      <3>2. Meets(proc[v], r) => Meets(proc[v], r)'
        BY <1>3, <3>1 DEF Meets
      <3> QED
        BY <1>5, <3>1, <3>2 DEF ConfirmFits, Confirming
    <2> QED
      BY <2>1, <2>2
  <1>9. ASSUME NEW q \in Runs, q # r
        PROVE  RunFits(q)' /\ \A v \in Workers : PreviewFits(v, q)' /\ ConfirmFits(v, q)'
    <2>1. ~Previewing(p, q) /\ ~Confirming(p, q)
      BY <1>2, <1>9
    <2>2. RunFits(q)' /\ \A v \in Workers : v # w => PreviewFits(v, q)' /\ ConfirmFits(v, q)'
      BY <1>9, <2>1, RunsOfOthers
    <2>3. PreviewFits(w, q)' /\ ConfirmFits(w, q)'
      BY <1>1, <2>1 DEF PreviewFits, ConfirmFits, Previewing, Confirming
    <2> QED
      BY <2>2, <2>3
  <1> QED
    BY <1>6, <1>7, <1>8, <1>9 DEF RunsOK

(* The preview of r goes on.                                               *)
LEMMA PreviewGoesOn ==
  ASSUME SalesInv, NEW w \in Workers, NEW r \in Runs, NEW p, Previewing(proc[w], r), proc' = [proc EXCEPT ![w] = p],
         previews' = previews, p.at \notin Confirms, p.at \in Fetches => p.job = <<"preview", r>>,
         \A s \in Sales : Met(s) => Met(s)',
         \A q \in Runs : q # r => row'[q] = row[q] /\ run'[q] = run[q] /\ day'[q] = day[q],
         previews[r] = 1 => RunFits(r)' /\ (p.at \in Fetches => run'[r] = run[r] /\ Records(p, r)')
  PROVE  RunsOK'
  <1>1. proc'[w] = p /\ \A v \in Workers : v # w => proc'[v] = proc[v]
    BY Execs DEF SalesInv
  <1>2. \A q \in Runs : ~Confirming(p, q) /\ (Previewing(p, q) => q = r)
    BY Roles DEF Previewing, Confirming
  <1>3. PreviewFits(w, r)
    BY DEF SalesInv, RunsOK
  <1>4. previews[r] # 0 /\ (previews[r] = 1 => run[r] = "FETCHING" /\ \A v \in Workers : Previewing(proc[v], r) => v = w)
    BY <1>3 DEF PreviewFits
  <1>5. RunFits(r)'
    BY <1>4 DEF RunFits
  <1>6. ASSUME NEW v \in Workers PROVE PreviewFits(v, r)'
    <2>1. \A u \in Workers : Previewing(proc'[u], r) /\ previews[r] = 1 => u = w
      BY <1>1, <1>4
    <2>2. CASE v = w
      BY <1>1, <1>4, <2>1, <2>2 DEF PreviewFits, Previewing, Records
    <2>3. CASE v # w
      BY <1>4, <2>1, <2>3 DEF PreviewFits, Previewing
    <2> QED
      BY <2>2, <2>3
  <1>7. ASSUME NEW v \in Workers PROVE ConfirmFits(v, r)'
    <2>1. CASE v = w
      BY <1>1, <1>2, <2>1 DEF ConfirmFits, Confirming
    <2>2. CASE v # w
      <3>1. ConfirmFits(v, r) /\ proc'[v] = proc[v] /\ "FETCHING" \notin Confirmable
        BY <1>1, <2>2 DEF SalesInv, RunsOK, Confirmable, Ready
      <3>2. Confirming(proc[v], r) => previews[r] # 1
        BY <1>4, <3>1 DEF ConfirmFits
      <3> QED
        BY <1>4, <3>1, <3>2 DEF ConfirmFits, Confirming
    <2> QED
      BY <2>1, <2>2
  <1>8. ASSUME NEW q \in Runs, q # r
        PROVE  RunFits(q)' /\ \A v \in Workers : PreviewFits(v, q)' /\ ConfirmFits(v, q)'
    <2>1. ~Previewing(p, q) /\ ~Confirming(p, q)
      BY <1>2, <1>8
    <2>2. RunFits(q)' /\ \A v \in Workers : v # w => PreviewFits(v, q)' /\ ConfirmFits(v, q)'
      BY <1>8, <2>1, RunsOfOthers
    <2>3. PreviewFits(w, q)' /\ ConfirmFits(w, q)'
      BY <1>1, <2>1 DEF PreviewFits, ConfirmFits, Previewing, Confirming
    <2> QED
      BY <2>2, <2>3
  <1> QED
    BY <1>5, <1>6, <1>7, <1>8 DEF RunsOK

----------------------------------------------------------------------------
(* Requests, boots, arrivals, and steps of the upload: workers rest.       *)
LEMMA ProcsStand ==
  ASSUME SalesInv, UNCHANGED <<world, proc>>
  PROVE  ProcsOK'
  BY DEF SalesInv, ProcsOK, ProcOK, Procs, Rows

LEMMA MetStands ==
  ASSUME SalesInv, UNCHANGED <<proc, row>>, \A s \in Sales : (Met(s) => Met(s)') /\ (Ordered(s) => Ordered(s)')
  PROVE  MetOK'
  <1>1. ASSUME NEW r \in Runs, NEW s \in Sales PROVE RowMet(row[r][s], s)'
    <2>1. RowMet(row[r][s], s)
      BY DEF SalesInv, MetOK
    <2> QED
      BY <2>1 DEF RowMet
  <1>2. ASSUME NEW v \in Workers PROVE ProcMet(proc[v])'
    <2>1. PICK q : q = proc[v]
      OBVIOUS
    <2>2. ProcMet(q) /\ ProcOK(q) /\ proc'[v] = q
      BY <2>1 DEF SalesInv, MetOK, ProcsOK
    <2>3. q.at \in WithSale => q.sale \in Sales
      BY <2>2 DEF ProcOK
    <2>4. q.at \in Selling => \A m \in q.todo : m[1] \in Sales
      BY <2>2 DEF ProcOK, Confirms
    <2>5. (q.at = "attached" => Ordered(q.sale)') /\ (q.at \in {"duplicate", "failing"} => Met(q.sale)')
      BY <2>2, <2>3 DEF ProcMet, WithSale
    <2>6. q.at \in Selling => \A m \in q.todo : m[2].status # "NEW" => Met(m[1])'
      BY <2>2, <2>4 DEF ProcMet
    <2> QED
      BY <2>2, <2>5, <2>6 DEF ProcMet
  <1> QED
    BY <1>1, <1>2 DEF MetOK

LEMMA RunsStand ==
  ASSUME SalesInv, UNCHANGED <<proc, previews, day, row>>, \A s \in Sales : Met(s) => Met(s)',
         \A r \in Runs : run'[r] = run[r] \/ (run[r] # "FETCHING" /\ run[r] \notin Confirmable /\ run'[r] \notin Confirmable)
  PROVE  RunsOK'
  <1>1. SUFFICES ASSUME NEW r \in Runs PROVE RunFits(r)' /\ \A v \in Workers : PreviewFits(v, r)' /\ ConfirmFits(v, r)'
    BY DEF RunsOK
  <1>2. Found[r] \subseteq Sales /\ Due(r) \subseteq Found[r] /\ Due(r)' = Due(r)
    BY FoundSales
  <1>3. RunFits(r)'
    <2>1. RunFits(r)
      BY DEF SalesInv, RunsOK
    <2>2. run'[r] = run[r] \/ run'[r] \notin Confirmable
      OBVIOUS
    <2>3. "COMPLETED" \in Confirmable
      BY DEF Confirmable
    <2> QED
      BY <1>2, <2>1, <2>2, <2>3 DEF RunFits
  <1>4. ASSUME NEW v \in Workers PROVE PreviewFits(v, r)'
    <2>1. PreviewFits(v, r)
      BY DEF SalesInv, RunsOK
    <2>2. Records(proc[v], r) => Records(proc[v], r)'
      BY DEF Records
    <2>3. run[r] = "FETCHING" => run'[r] = "FETCHING"
      OBVIOUS
    <2> QED
      BY <2>1, <2>2, <2>3 DEF PreviewFits, Previewing
  <1>5. ASSUME NEW v \in Workers PROVE ConfirmFits(v, r)'
    <2>1. ConfirmFits(v, r)
      BY DEF SalesInv, RunsOK
    <2>2. Meets(proc[v], r) => Meets(proc[v], r)'
      BY <1>2 DEF Meets
    <2>3. run[r] \in Confirmable => run'[r] \in Confirmable
      OBVIOUS
    <2> QED
      BY <2>1, <2>2, <2>3 DEF ConfirmFits, Confirming
  <1> QED
    BY <1>3, <1>4, <1>5

LEMMA ClaimsStand ==
  ASSUME SalesInv, UNCHANGED <<proc, identity, orders, upload, dropped>>, linked \subseteq linked'
  PROVE  ClaimsOK'
  <1>1. SUFFICES ASSUME NEW s \in Sales PROVE SaleOK(s)'
    BY DEF ClaimsOK
  <1>2. SaleOK(s)
    BY DEF SalesInv, ClaimsOK
  <1>3. FileHolds(s)' = FileHolds(s) /\ Ordered(s)' = Ordered(s) /\ \A w \in Workers : Holds(w, s)' = Holds(w, s)
    BY DEF FileHolds, Ordered, Holds
  <1> QED
    BY <1>2, <1>3 DEF SaleOK

LEMMA RequestsKeep ==
  ASSUME SalesInv,
         \/ \E r \in Runs : CheckOverlap(r) \/ CreateRun(r) \/ RequestConfirm(r) \/ BootEnqueue(r)
         \/ BootRead \/ UNCHANGED vars \/ \E s \in Sales : Ingest(s)
  PROVE  SalesInv'
  <1>1. UNCHANGED <<world, previews, day, row, identity, orders, proc, upload, uploads, dropped>>
    BY DEF CheckOverlap, CreateRun, RequestConfirm, BootEnqueue, BootRead, Ingest, vars
  <1>2. TypeOK
    BY DEF SalesInv
  <1>3. linked \subseteq linked' /\ linked' \subseteq Sales
    BY <1>2 DEF CheckOverlap, CreateRun, RequestConfirm, BootEnqueue, BootRead, Ingest, vars, TypeOK
  <1>4. run' = run \/ \E r \in Runs : \/ run[r] = None /\ run' = [run EXCEPT ![r] = "checked"]
                                      \/ run[r] = "checked" /\ run' = [run EXCEPT ![r] = "PENDING"]
    BY DEF CheckOverlap, CreateRun, RequestConfirm, BootEnqueue, BootRead, Ingest, vars, Become
  <1>5. /\ run' \in [Runs -> Active \cup Ready \cup {None, "checked", "COMPLETED", "FAILED"}]
        /\ \A r \in Runs : run'[r] = run[r] \/ (run[r] # "FETCHING" /\ run[r] \notin Confirmable /\ run'[r] \notin Confirmable)
    <2>1. None # "FETCHING" /\ None \notin Confirmable /\ {"checked", "PENDING"} \cap (Confirmable \cup {"FETCHING"}) = {}
      BY NoneAssumption DEF Confirmable, Ready, Active
    <2>2. "PENDING" \in Active
      BY DEF Active
    <2>3. run \in [Runs -> Active \cup Ready \cup {None, "checked", "COMPLETED", "FAILED"}]
      BY <1>2 DEF TypeOK
    <2>4. CASE run' = run
      BY <2>3, <2>4
    <2>5. ASSUME NEW r \in Runs, \/ run[r] = None /\ run' = [run EXCEPT ![r] = "checked"]
                                 \/ run[r] = "checked" /\ run' = [run EXCEPT ![r] = "PENDING"]
          PROVE  <1>5!:
      BY <2>1, <2>2, <2>3, <2>5
    <2> QED
      BY <1>4, <2>4, <2>5
  <1>6. jobs' \subseteq {"preview", "confirm"} \X Runs
    BY <1>2 DEF CheckOverlap, CreateRun, RequestConfirm, BootEnqueue, BootRead, Ingest, vars, TypeOK, Enqueue
  <1>7. boot' \in [Runs -> {None} \cup Active]
    BY <1>2 DEF CheckOverlap, CreateRun, RequestConfirm, BootEnqueue, BootRead, Ingest, vars, TypeOK
  <1>8. TypeOK'
    <2> DEFINE Progress(d, p) == d \in [Runs -> {None, "FETCHING", "READY", "FAILED"}] /\ p \in [Runs -> 0..world.previews]
    <2>1. Progress(day, previews) /\ Progress(day, previews)'
      BY <1>1, <1>2 DEF TypeOK
    <2>2. \A w \in Workers : proc'[w] # Idle => proc'[w].job \in {"preview", "confirm"} \X Runs
      BY <1>1, <1>2 DEF TypeOK
    <2>3. /\ world' \in Worlds /\ uploads' \in 0..MaxUploads /\ orders' \in [Sales -> Nat] /\ dropped' \subseteq Sales
          /\ identity' \in [Sales -> {None} \cup Identities]
      BY <1>1, <1>2 DEF TypeOK
    <2>4. row' \in [Runs -> [Sales -> [status : {None, "NEW", "DUPLICATE", "IMPORTED", "FAILED"}, by : 0..world'.previews]]]
      BY <1>1, <1>2 DEF TypeOK
    <2> QED
      BY <1>1, <1>3, <1>5, <1>6, <1>7, <2>1, <2>2, <2>3, <2>4 DEF TypeOK
  <1>9. \A s \in Sales : (Met(s) => Met(s)') /\ (Ordered(s) => Ordered(s)')
    BY <1>1, <1>3, Lasts
  <1>10. ProcsOK' /\ MetOK' /\ RunsOK' /\ ClaimsOK'
    BY <1>1, <1>3, <1>5, <1>9, ProcsStand, MetStands, RunsStand, ClaimsStand
  <1>11. UploadOK'
    BY <1>1 DEF SalesInv, UploadOK
  <1> QED
    BY <1>8, <1>10, <1>11 DEF SalesInv

----------------------------------------------------------------------------
(* Steps of a worker that leave the identities as they are.                *)
LEMMA WorkerGoesOn ==
  ASSUME SalesInv, NEW w \in Workers, NEW p, proc' = [proc EXCEPT ![w] = p], ProcOK(p), TypeOK',
         UNCHANGED <<world, identity, orders, linked, upload>>, dropped \subseteq dropped',
         p.at \in Claiming => proc[w].at \in Claiming /\ p.sale = proc[w].sale,
         p.at \in {"checking", "creating"} => proc[w].at \in {"checking", "creating"},
         proc[w].at \in Claiming /\ p.at \notin Claiming => proc[w].sale \in dropped',
         \A r \in Runs : \A s \in Sales : row'[r][s] = row[r][s] \/ RowMet(row[r][s], s)',
         ProcMet(p)', RunsOK'
  PROVE  SalesInv'
  <1>1. ProcsOK'
    BY ProcsKept
  <1>2. ClaimsOK'
    BY ClaimsKept
  <1>3. \A s \in Sales : (Met(s) => Met(s)') /\ (Ordered(s) => Ordered(s)')
    BY Lasts
  <1>4. MetOK'
    BY <1>3, MetKept
  <1>5. UploadOK'
    BY DEF SalesInv, UploadOK
  <1> QED
    BY <1>1, <1>2, <1>4, <1>5 DEF SalesInv

(* Places of the code.                                                     *)
LEMMA Places ==
  /\ Fetches \cap (Confirms \cup Claiming \cup {"idle", "returned", "throwing", "attached", "duplicate", "failing"}) = {}
  /\ Confirms \cap {"idle", "returned", "throwing"} = {} /\ WithSale \subseteq Selling /\ Selling \subseteq Confirms
  /\ Claiming \subseteq WithSale /\ {"idle", "returned", "throwing"} \cap Claiming = {}
  /\ {"claiming", "listing"} \cap Selling = {} /\ "sales" \notin WithSale /\ "sales" \in Selling
  BY DEF Fetches, Confirms, Selling, WithSale, Claiming

(* An execution that is over, or leaves its job.                           *)
LEMMA WorldIs ==
  ASSUME SalesInv
  PROVE  world.previews \in Nat /\ 0 \in 0..world.previews /\ world.provider \in {"PAGBANK", "IFOOD"}
  <1>1. world \in [provider : {"PAGBANK", "IFOOD"}, faults : SUBSET {"process", "lease", "preview", "database"}, runs : SUBSET Runs,
                   previews : Nat]
    BY SalesAssumption DEF SalesInv, TypeOK
  <1>2. world.previews \in Nat /\ world.provider \in {"PAGBANK", "IFOOD"}
    BY <1>1
  <1> QED
    BY <1>2

LEMMA IdleIs ==
  ASSUME SalesInv
  PROVE  Idle.at = "idle" /\ ProcOK(Idle)
  <1>1. Idle = [at |-> "idle", job |-> None, by |-> 0, todo |-> {}, sale |-> None, bad |-> FALSE]
    BY DEF Idle
  <1>2. Idle \in Procs /\ Idle.at = "idle"
    BY <1>1, WorldIs DEF Procs
  <1> QED
    BY <1>2, Places DEF ProcOK

LEMMA EndedIs ==
  ASSUME SalesInv, NEW w \in Workers, proc[w].at # "idle", NEW at \in {"returned", "throwing"}, Ends(w, at)
  PROVE  \E p : proc' = [proc EXCEPT ![w] = p] /\ ProcOK(p) /\ p.at = at
  <1>1. PICK job \in Kinds \X Runs : job = proc[w].job
    BY DEF SalesInv, ProcsOK, ProcOK
  <1>2. PICK q \in Procs : q = Idle /\ q.todo = {}
    BY IdleIs DEF ProcOK, Idle
  <1>3. PICK p : p = [q EXCEPT !.at = at, !.job = job]
    OBVIOUS
  <1>4. at \in {"idle", "returned", "throwing"} \cup Fetches \cup Confirms /\ job \in {None} \cup (Kinds \X Runs)
    BY <1>1
  <1>5. p.at = at /\ p.todo = {} /\ p.job = job
    BY <1>2, <1>3 DEF Procs
  <1>6. p \in Procs
    BY <1>2, <1>3, <1>4 DEF Procs
  <1>7. proc' = [proc EXCEPT ![w] = p]
    BY <1>1, <1>2, <1>3 DEF Ends
  <1>8. ProcOK(p)
    BY <1>1, <1>5, <1>6, Places DEF ProcOK
  <1> QED
    BY <1>5, <1>7, <1>8

LEMMA LeaveKeeps ==
  ASSUME SalesInv, NEW w \in Workers, Return(w) \/ Throw(w) \/ Die(w)
  PROVE  SalesInv'
  <1>1. /\ UNCHANGED <<world, run, previews, day, row, identity, orders, linked, boot, upload, uploads>>
        /\ proc' = [proc EXCEPT ![w] = Idle] /\ jobs' \subseteq jobs
    BY DEF Return, Throw, Die, Leave
  <1>2. TypeOK /\ ProcOK(proc[w])
    BY DEF SalesInv, ProcsOK
  <1>3. Idle.at = "idle" /\ ProcOK(Idle)
    BY IdleIs
  <1>4. /\ dropped' = dropped \/ (proc[w].at \in Claiming /\ dropped' = dropped \cup {proc[w].sale})
        /\ proc[w].at \in Claiming => proc[w].sale \in dropped'
    BY Places DEF Return, Throw, Die
  <1>5. dropped \subseteq dropped' /\ dropped' \subseteq Sales
    BY <1>2, <1>4, Places DEF ProcOK, TypeOK
  <1>6. \A s \in Sales : Met(s) => Met(s)'
    BY <1>1, <1>5, Lasts
  <1>7. RunsOK'
    <2>1. Idle.at \notin Fetches /\ \A q \in Runs : ~Confirming(Idle, q)
      BY <1>3, Places DEF Confirming
    <2> QED
      BY <1>1, <1>6, <2>1, RunsRest
  <1>8. ProcMet(Idle)'
    BY <1>3, Places DEF ProcMet
  <1>9. TypeOK'
    <2>1. \A v \in Workers : proc'[v] # Idle => proc'[v].job \in {"preview", "confirm"} \X Runs
      BY <1>1, <1>2, Execs DEF TypeOK, SalesInv
    <2> QED
      BY <1>1, <1>2, <1>5, <2>1 DEF TypeOK
  <1>10. Idle.at \notin Claiming /\ Idle.at \notin {"checking", "creating"}
    BY <1>3, Places
  <1> QED
    BY <1>1, <1>3, <1>4, <1>5, <1>7, <1>8, <1>9, <1>10, WorkerGoesOn

(* What a worker writes of TypeOK.                                         *)
LEMMA TypedByWorker ==
  ASSUME SalesInv, NEW w \in Workers, NEW p, proc' = [proc EXCEPT ![w] = p], ProcOK(p), UNCHANGED <<world, uploads, linked, boot>>,
         run' \in [Runs -> Active \cup Ready \cup {None, "checked", "COMPLETED", "FAILED"}],
         previews' \in [Runs -> 0..world.previews], day' \in [Runs -> Days], row' \in [Runs -> [Sales -> Rows]],
         identity' \in [Sales -> {None} \cup Identities], orders' \in [Sales -> Nat], dropped' \subseteq Sales,
         jobs' \subseteq jobs
  PROVE  TypeOK'
  <1>1. \A v \in Workers : proc'[v] # Idle => proc'[v].job \in {"preview", "confirm"} \X Runs
    <2>1. \A v \in Workers : ProcOK(proc'[v])
      BY Execs DEF SalesInv, ProcsOK
    <2> QED
      BY <2>1 DEF ProcOK, Kinds
  <1>2. Rows' = Rows /\ row' \in [Runs -> [Sales -> [status : {None, "NEW", "DUPLICATE", "IMPORTED", "FAILED"}, by : 0..world.previews]]]
    BY DEF Rows, Statuses
  <1>3. TypeOK
    BY DEF SalesInv
  <1> QED
    BY <1>1, <1>2, <1>3 DEF TypeOK, Days

LEMMA StartPreviewKeeps ==
  ASSUME SalesInv, NEW w \in Workers, NEW r \in Runs, StartPreview(w, r)
  PROVE  SalesInv'
  <1> TypeOK
    BY DEF SalesInv
  <1>1. /\ UNCHANGED <<world, day, row, identity, orders, linked, jobs, boot, upload, uploads, dropped>>
        /\ proc[w] = Idle /\ previews[r] < world.previews /\ run' = [run EXCEPT ![r] = "FETCHING"]
    BY DEF StartPreview, Become
  <1>2. \A q \in Runs : previews[q] \in Nat
    BY WorldIs DEF TypeOK
  <1>3. PICK n : n = previews[r] + 1
    OBVIOUS
  <1>4. n \in 0..world.previews /\ n # 0
    BY <1>1, <1>2, <1>3, WorldIs
  <1>5. previews' = [previews EXCEPT ![r] = n]
    BY <1>3 DEF StartPreview
  <1>6. PICK old \in Procs : old = Idle /\ old.todo = {}
    BY IdleIs DEF ProcOK, Idle
  <1>7. PICK p : p = [old EXCEPT !.at = "fetching", !.job = <<"preview", r>>, !.by = n]
    OBVIOUS
  <1>8. p.at = "fetching" /\ p.job = <<"preview", r>> /\ p.by = n /\ p.todo = {}
    BY <1>6, <1>7 DEF Procs
  <1>9. "fetching" \in Fetches /\ <<"preview", r>> \in Kinds \X Runs
    BY DEF Fetches, Kinds
  <1>10. p \in Procs
    BY <1>4, <1>6, <1>7, <1>9 DEF Procs
  <1>11. proc' = [proc EXCEPT ![w] = p]
    BY <1>3, <1>6, <1>7 DEF StartPreview
  <1>12. ProcOK(p)
    BY <1>8, <1>9, <1>10, Places DEF ProcOK
  <1>13. previews' \in [Runs -> 0..world.previews] /\ previews'[r] = n /\ \A q \in Runs : q # r => previews'[q] = previews[q]
    BY <1>4, <1>5 DEF TypeOK
  <1>14. /\ run' \in [Runs -> Active \cup Ready \cup {None, "checked", "COMPLETED", "FAILED"}]
         /\ run'[r] = "FETCHING" /\ \A q \in Runs : q # r => run'[q] = run[q]
    BY <1>1 DEF TypeOK, Active
  <1>15. TypeOK'
    <2>1. day' \in [Runs -> Days] /\ row' \in [Runs -> [Sales -> Rows]] /\ identity' \in [Sales -> {None} \cup Identities] /\ orders' \in [Sales -> Nat]
          /\ dropped' \subseteq Sales
      BY <1>1 DEF TypeOK, Rows, Statuses, Days
    <2> QED
      BY <1>1, <1>11, <1>12, <1>13, <1>14, <2>1, TypedByWorker
  <1>16. proc'[w] = p /\ \A v \in Workers : v # w => proc'[v] = proc[v]
    BY <1>11, Execs DEF SalesInv
  <1>17. \A q \in Runs : ~Confirming(p, q) /\ (Previewing(p, q) => q = r)
    <2>1. p.at \notin Confirms
      BY <1>8, <1>9, Places
    <2>2. Previewing(p, r)
      BY <1>8, <1>9 DEF Previewing
    <2> QED
      BY <2>1, <2>2, Roles DEF Confirming
  <1>18. RunsOK'
    <2>1. ASSUME NEW q \in Runs, q # r
          PROVE  RunFits(q)' /\ \A v \in Workers : PreviewFits(v, q)' /\ ConfirmFits(v, q)'
      <3>1. ~Previewing(p, q) /\ ~Confirming(p, q) /\ previews'[q] = previews[q] /\ day'[q] = day[q] /\ run'[q] = run[q] /\ row'[q] = row[q]
        BY <1>1, <1>13, <1>14, <1>17, <2>1
      <3>2. \A s \in Sales : Met(s) => Met(s)'
        BY <1>1 DEF Met
      <3>3. RunFits(q)' /\ \A v \in Workers : v # w => PreviewFits(v, q)' /\ ConfirmFits(v, q)'
        BY <1>11, <3>1, <3>2, RunsOfOthers
      <3>4. PreviewFits(w, q)' /\ ConfirmFits(w, q)'
        BY <1>16, <3>1 DEF PreviewFits, ConfirmFits, Previewing, Confirming
      <3> QED
        BY <3>3, <3>4
    <2>2. RunFits(r)'
      <3>1. "FETCHING" \notin Confirmable /\ "FETCHING" # "COMPLETED"
        BY DEF Confirmable, Ready
      <3> QED
        BY <1>4, <1>13, <1>14, <3>1 DEF RunFits
    <2>3. n = 1 => previews[r] = 0
      BY <1>2, <1>3
    <2>4. ASSUME NEW v \in Workers, v # w, n = 1
          PROVE  ~Previewing(proc[v], r) /\ ~Confirming(proc[v], r)
      <3>1. PreviewFits(v, r) /\ ConfirmFits(v, r)
        BY DEF SalesInv, RunsOK
      <3> QED
        BY <2>3, <2>4, <3>1 DEF PreviewFits, ConfirmFits
    <2>5. ASSUME NEW v \in Workers PROVE PreviewFits(v, r)' /\ ConfirmFits(v, r)'
      <3>1. n = 1 => \A u \in Workers : Previewing(proc'[u], r) => u = w
        BY <1>16, <2>4
      <3>2. CASE v = w
        <4>1. n = 1 => Records(p, r)'
          <5>1. RunFits(r)
            BY DEF SalesInv, RunsOK
          <5> QED
            BY <1>1, <1>8, <2>3, <5>1 DEF RunFits, Records
        <4>2. ~Confirming(p, r)
          BY <1>17
        <4> QED
          BY <1>4, <1>13, <1>14, <1>16, <3>1, <3>2, <4>1, <4>2 DEF PreviewFits, ConfirmFits, Previewing, Confirming, Records
      <3>3. CASE v # w
        BY <1>4, <1>13, <1>16, <2>4, <3>3 DEF PreviewFits, ConfirmFits, Previewing, Confirming
      <3> QED
        BY <3>2, <3>3
    <2> QED
      BY <2>1, <2>2, <2>5 DEF RunsOK
  <1>19. ProcMet(p)' /\ p.at \notin Claiming /\ p.at \notin {"checking", "creating"} /\ proc[w].at \notin Claiming
    BY <1>1, <1>8, <1>9, Places, IdleIs DEF ProcMet
  <1> QED
    BY <1>1, <1>11, <1>12, <1>15, <1>18, <1>19, WorkerGoesOn

(* A preview goes on, or ends.                                             *)
LEMMA PreviewFacts ==
  ASSUME SalesInv, NEW w \in Workers, proc[w].at \in Fetches
  PROVE  \E r \in Runs : /\ Previewing(proc[w], r) /\ RunOf(w) = r /\ proc[w].todo \subseteq Sales
                         /\ proc[w].at # "idle" /\ proc[w].at \notin Claiming
                         /\ previews[r] # 0 /\ (previews[r] = 1 => run[r] = "FETCHING" /\ Records(proc[w], r))
                         /\ RunFits(r)
  <1>1. ProcOK(proc[w])
    BY DEF SalesInv, ProcsOK
  <1>2. PICK r \in Runs : proc[w].job = <<"preview", r>>
    BY <1>1 DEF ProcOK
  <1>3. Previewing(proc[w], r) /\ RunOf(w) = r /\ proc[w].todo \subseteq Sales /\ proc[w].at # "idle" /\ proc[w].at \notin Claiming
    BY <1>1, <1>2, Places DEF ProcOK, Previewing, RunOf
  <1>4. PreviewFits(w, r) /\ RunFits(r)
    BY DEF SalesInv, RunsOK
  <1> QED
    BY <1>3, <1>4 DEF PreviewFits

(* The other variables of a preview.                                       *)
LEMMA PreviewStep ==
  ASSUME SalesInv, NEW w \in Workers, NEW r \in Runs, NEW p, Previewing(proc[w], r), proc' = [proc EXCEPT ![w] = p], ProcOK(p),
         UNCHANGED <<world, previews, identity, orders, linked, jobs, boot, upload, uploads, dropped>>, day' \in [Runs -> Days],
         run' \in [Runs -> Active \cup Ready \cup {None, "checked", "COMPLETED", "FAILED"}], row' \in [Runs -> [Sales -> Rows]],
         p.at \in Fetches \cup {"returned", "throwing"}, p.at \in Fetches => p.job = <<"preview", r>>,
         \A s \in Sales : row'[r][s] = row[r][s] \/ RowMet(row[r][s], s)',
         \A q \in Runs : q # r => row'[q] = row[q] /\ run'[q] = run[q] /\ day'[q] = day[q],
         previews[r] = 1 => RunFits(r)' /\ (p.at \in Fetches => run'[r] = run[r] /\ Records(p, r)')
  PROVE  SalesInv'
  <1>1. \A s \in Sales : Met(s) => Met(s)'
    BY Lasts
  <1>2. p.at \notin Confirms
    BY Places
  <1>3. RunsOK'
    BY <1>1, <1>2, PreviewGoesOn
  <1>4. TypeOK'
    <2>1. previews' \in [Runs -> 0..world.previews] /\ identity' \in [Sales -> {None} \cup Identities] /\ orders' \in [Sales -> Nat]
          /\ dropped' \subseteq Sales /\ jobs' \subseteq jobs
      BY DEF SalesInv, TypeOK
    <2> QED
      BY <2>1, TypedByWorker
  <1>5. p.at \notin Claiming /\ p.at \notin {"checking", "creating"} /\ proc[w].at \notin Claiming /\ ProcMet(p)'
    <2>1. "attached" \notin Fetches /\ "duplicate" \notin Fetches /\ "failing" \notin Fetches /\ "checking" \notin Fetches
          /\ "creating" \notin Fetches
      BY DEF Fetches
    <2> QED
      BY <2>1, Places DEF Previewing, ProcMet
  <1>6. \A q \in Runs : \A s \in Sales : row'[q][s] = row[q][s] \/ RowMet(row[q][s], s)'
    OBVIOUS
  <1> QED
    BY <1>3, <1>4, <1>5, <1>6, WorkerGoesOn

(* It goes to its next statement, and writes what became of the day.       *)
LEMMA PreviewMoves ==
  ASSUME SalesInv, NEW w \in Workers, proc[w].at \in Fetches, NEW at \in {"catching", "ready", "partial", "blocked"}, Goes(w, at),
         NEW status \in Days, DayIs(RunOf(w), status), previews[RunOf(w)] = 1 /\ status = "READY" => at = "ready",
         at = "ready" => proc[w].at = "recording" /\ proc[w].todo = {},
         UNCHANGED <<world, run, previews, row, identity, orders, linked, jobs, boot, upload, uploads, dropped>>
  PROVE  SalesInv'
  <1> TypeOK
    BY DEF SalesInv
  <1>1. PICK r \in Runs : /\ Previewing(proc[w], r) /\ RunOf(w) = r /\ proc[w].at # "idle" /\ RunFits(r)
                          /\ previews[r] # 0 /\ (previews[r] = 1 => run[r] = "FETCHING" /\ Records(proc[w], r))
    BY PreviewFacts
  <1>2. PICK old \in Procs : old = proc[w] /\ old.job = <<"preview", r>> /\ old.todo \subseteq Sales
    BY <1>1 DEF SalesInv, ProcsOK, ProcOK, Previewing
  <1>3. /\ run' \in [Runs -> Active \cup Ready \cup {None, "checked", "COMPLETED", "FAILED"}] /\ row' \in [Runs -> [Sales -> Rows]]
        /\ day' \in [Runs -> Days] /\ day'[r] = status /\ \A q \in Runs : q # r => day'[q] = day[q]
    BY <1>1 DEF TypeOK, Rows, Statuses, DayIs, Days
  <1>4. PICK p : p = [old EXCEPT !.at = at]
    OBVIOUS
  <1>5. p.at = at /\ p.job = <<"preview", r>> /\ p.todo = old.todo /\ at \in Fetches
    BY <1>2, <1>4 DEF Procs, Fetches
  <1>6. p \in Procs
    BY <1>2, <1>4, <1>5 DEF Procs
  <1>7. ProcOK(p)
    <2>1. p.job \in Kinds \X Runs
      BY <1>5 DEF Kinds
    <2> QED
      BY <1>2, <1>5, <1>6, <2>1, Places DEF ProcOK
  <1>8. proc' = [proc EXCEPT ![w] = p]
    BY <1>2, <1>4 DEF Goes
  <1>9. previews[r] = 1 => RunFits(r)'
    <2>1. "FETCHING" \notin Confirmable /\ "FETCHING" # "COMPLETED"
      BY DEF Confirmable, Ready
    <2> QED
      BY <1>1, <2>1 DEF RunFits
  <1>10. previews[r] = 1 => Records(p, r)'
    <2>1. at = "ready" /\ previews[r] = 1 => \A s \in Found[r] : row[r][s].status # None
      BY <1>1 DEF Records
    <2> QED
      BY <1>1, <1>3, <1>5, <2>1 DEF Records
  <1>11. \A q \in Runs : q # r => row'[q] = row[q] /\ run'[q] = run[q] /\ day'[q] = day[q]
    BY <1>3
  <1> QED
    BY <1>1, <1>3, <1>5, <1>7, <1>8, <1>9, <1>10, <1>11, PreviewStep

(* It throws out of the run.                                               *)
LEMMA PreviewThrows ==
  ASSUME SalesInv, NEW w \in Workers, proc[w].at \in Fetches, Ends(w, "throwing"),
         UNCHANGED <<world, run, previews, day, row, identity, orders, linked, jobs, boot, upload, uploads, dropped>>
  PROVE  SalesInv'
  <1>1. PICK r \in Runs : Previewing(proc[w], r) /\ proc[w].at # "idle" /\ RunFits(r)
    BY PreviewFacts
  <1>2. /\ run' \in [Runs -> Active \cup Ready \cup {None, "checked", "COMPLETED", "FAILED"}] /\ row' \in [Runs -> [Sales -> Rows]]
        /\ day' \in [Runs -> Days]
    BY DEF SalesInv, TypeOK, Rows, Statuses, Days
  <1>3. PICK p : proc' = [proc EXCEPT ![w] = p] /\ ProcOK(p) /\ p.at = "throwing"
    BY <1>1, EndedIs
  <1>4. p.at \notin Fetches
    BY <1>3, Places
  <1>5. RunFits(r)'
    <2>1. Due(r)' = Due(r) /\ \A s \in Sales : Met(s) => Met(s)'
      BY FoundSales, Lasts
    <2> QED
      BY <1>1, <2>1, FoundSales DEF RunFits
  <1>6. \A q \in Runs : q # r => row'[q] = row[q] /\ run'[q] = run[q] /\ day'[q] = day[q]
    OBVIOUS
  <1> QED
    BY <1>1, <1>2, <1>3, <1>4, <1>5, <1>6, PreviewStep

LEMMA FetchKeeps ==
  ASSUME SalesInv, NEW w \in Workers, Fetch(w)
  PROVE  SalesInv'
  <1> TypeOK
    BY DEF SalesInv
  <1>1. /\ UNCHANGED <<world, run, previews, identity, orders, linked, jobs, boot, upload, uploads, dropped>>
        /\ proc[w].at = "fetching" /\ proc[w].at \in Fetches
    BY DEF Fetch, Fetches
  <1>2. PICK r \in Runs : /\ Previewing(proc[w], r) /\ RunOf(w) = r /\ proc[w].at # "idle" /\ RunFits(r)
                          /\ previews[r] # 0 /\ (previews[r] = 1 => run[r] = "FETCHING" /\ Records(proc[w], r))
    BY <1>1, PreviewFacts
  <1>3. PICK old \in Procs : old = proc[w] /\ old.job = <<"preview", r>> /\ old.todo \subseteq Sales
    BY <1>1, <1>2 DEF SalesInv, ProcsOK, ProcOK, Previewing
  <1>4. /\ run' \in [Runs -> Active \cup Ready \cup {None, "checked", "COMPLETED", "FAILED"}] /\ row \in [Runs -> [Sales -> Rows]]
        /\ Found[r] \subseteq Sales
    BY <1>1, FoundSales DEF TypeOK, Rows, Statuses
  <1>5. previews[r] = 1 => RunFits(r)'
    <2>1. "FETCHING" \notin Confirmable /\ "FETCHING" # "COMPLETED"
      BY DEF Confirmable, Ready
    <2> QED
      BY <1>1, <1>2, <2>1 DEF RunFits
  <1>6. CASE Ends(w, "throwing") /\ UNCHANGED <<day, row>>
    BY <1>1, <1>6, PreviewThrows
  <1>7. CASE DayIs(RunOf(w), "FAILED") /\ Goes(w, "blocked") /\ UNCHANGED row
    <2>1. "FAILED" \in Days
      BY DEF Days
    <2> QED
      BY <1>1, <1>7, <2>1, PreviewMoves
  <1>8. CASE /\ row' = [row EXCEPT ![RunOf(w)] = [s \in Sales |-> NoRow]]
             /\ DayIs(RunOf(w), "FETCHING")
             /\ proc' = [proc EXCEPT ![w] = [@ EXCEPT !.at = "recording", !.todo = Found[RunOf(w)]]]
    <2>1. PICK p : p = [old EXCEPT !.at = "recording", !.todo = Found[r]]
      OBVIOUS
    <2>2. p.at = "recording" /\ p.job = <<"preview", r>> /\ p.todo = Found[r] /\ "recording" \in Fetches
      BY <1>3, <2>1 DEF Procs, Fetches
    <2>3. p \in Procs
      BY <1>3, <1>4, <2>1, <2>2 DEF Procs
    <2>4. ProcOK(p)
      <3>1. p.job \in Kinds \X Runs
        BY <2>2 DEF Kinds
      <3> QED
        BY <1>4, <2>2, <2>3, <3>1, Places DEF ProcOK
    <2>5. proc' = [proc EXCEPT ![w] = p]
      BY <1>2, <1>3, <1>8, <2>1
    <2>6. PICK none : none = [s \in Sales |-> NoRow]
      OBVIOUS
    <2>7. NoRow \in Rows /\ NoRow.status = None /\ none \in [Sales -> Rows] /\ \A s \in Sales : none[s] = NoRow
      BY <2>6, WorldIs DEF NoRow, Rows, Statuses
    <2>8. row' = [row EXCEPT ![r] = none]
      BY <1>2, <1>8, <2>6
    <2>9. /\ row' \in [Runs -> [Sales -> Rows]] /\ row'[r] = none /\ day' \in [Runs -> Days] /\ day'[r] = "FETCHING"
          /\ \A q \in Runs : q # r => row'[q] = row[q] /\ run'[q] = run[q] /\ day'[q] = day[q]
      BY <1>1, <1>2, <1>4, <1>8, <2>7, <2>8 DEF DayIs, Days, TypeOK
    <2>10. \A s \in Sales : RowMet(row[r][s], s)'
      BY <2>7, <2>9, NoneAssumption DEF RowMet
    <2>11. Records(p, r)'
      BY <1>4, <2>2, <2>7, <2>9 DEF Records
    <2> QED
      BY <1>1, <1>2, <1>4, <1>5, <2>2, <2>4, <2>5, <2>9, <2>10, <2>11, PreviewStep
  <1> QED
    BY <1>6, <1>7, <1>8 DEF Fetch

LEMMA RecordKeeps ==
  ASSUME SalesInv, NEW w \in Workers, NEW s \in Sales, Record(w, s)
  PROVE  SalesInv'
  <1> TypeOK
    BY DEF SalesInv
  <1>1. /\ UNCHANGED <<world, run, previews, day, identity, orders, linked, jobs, boot, upload, uploads, dropped>>
        /\ proc[w].at = "recording" /\ proc[w].at \in Fetches /\ s \in proc[w].todo
    BY DEF Record, Fetches
  <1>2. PICK r \in Runs : /\ Previewing(proc[w], r) /\ RunOf(w) = r /\ proc[w].at # "idle" /\ RunFits(r)
                          /\ previews[r] = 1 => run[r] = "FETCHING" /\ Records(proc[w], r)
    BY <1>1, PreviewFacts
  <1>3. PICK old \in Procs : old = proc[w] /\ old.job = <<"preview", r>> /\ old.todo \subseteq Sales
    BY <1>1, <1>2 DEF SalesInv, ProcsOK, ProcOK, Previewing
  <1>4. /\ run' \in [Runs -> Active \cup Ready \cup {None, "checked", "COMPLETED", "FAILED"}] /\ row \in [Runs -> [Sales -> Rows]]
        /\ day' \in [Runs -> Days] /\ Found[r] \subseteq Sales
    BY <1>1, FoundSales DEF TypeOK, Rows, Statuses, Days
  <1>5. previews[r] = 1 => run[r] \notin Confirmable
    BY <1>2 DEF Confirmable, Ready
  <1>6. previews[r] = 1 => RunFits(r)'
    BY <1>1, <1>5 DEF RunFits, Confirmable
  <1>7. PICK p : p = [old EXCEPT !.todo = old.todo \ {s}]
    OBVIOUS
  <1>8. p.at = "recording" /\ p.job = <<"preview", r>> /\ p.todo = old.todo \ {s} /\ "recording" \in Fetches
    BY <1>1, <1>3, <1>7 DEF Procs, Fetches
  <1>9. p \in Procs
    BY <1>3, <1>7, <1>8 DEF Procs
  <1>10. ProcOK(p)
    <2>1. p.job \in Kinds \X Runs
      BY <1>8 DEF Kinds
    <2> QED
      BY <1>3, <1>8, <1>9, <2>1, Places DEF ProcOK
  <1>11. PICK c : c = [status |-> IF identity[s] = None THEN "NEW" ELSE "DUPLICATE", by |-> old.by]
    OBVIOUS
  <1>12. c \in Rows /\ c.status # None /\ (c.status \in {"NEW", "DUPLICATE"}) /\ (c.status = "DUPLICATE" => identity[s] # None)
    BY <1>11, NoneAssumption DEF Rows, Statuses, Procs
  <1>13. row' = [row EXCEPT ![r][s] = c] /\ proc' = [proc EXCEPT ![w] = p]
    BY <1>2, <1>3, <1>7, <1>11 DEF Record
  <1>14. /\ row' \in [Runs -> [Sales -> Rows]] /\ row'[r][s] = c /\ \A t \in Sales : t # s => row'[r][t] = row[r][t]
         /\ \A q \in Runs : q # r => row'[q] = row[q]
    BY <1>4, <1>12, <1>13
  <1>15. \A t \in Sales : row'[r][t] = row[r][t] \/ RowMet(row[r][t], t)'
    BY <1>1, <1>12, <1>14 DEF RowMet, Met
  <1>16. previews[r] = 1 => Records(p, r)'
    BY <1>1, <1>2, <1>3, <1>4, <1>8, <1>12, <1>14 DEF Records
  <1>17. \A q \in Runs : q # r => row'[q] = row[q] /\ run'[q] = run[q] /\ day'[q] = day[q]
    BY <1>1, <1>14
  <1>18. previews[r] = 1 => RunFits(r)' /\ (p.at \in Fetches => run'[r] = run[r] /\ Records(p, r)')
    BY <1>1, <1>6, <1>16
  <1> QED
    <2>1. proc' = [proc EXCEPT ![w] = p] /\ row' \in [Runs -> [Sales -> Rows]] /\ Previewing(proc[w], r)
      BY <1>2, <1>13, <1>14
    <2>2. UNCHANGED <<world, previews, identity, orders, linked, jobs, boot, upload, uploads, dropped>>
      BY <1>1
    <2>3. p.at \in Fetches \cup {"returned", "throwing"} /\ (p.at \in Fetches => p.job = <<"preview", r>>)
      BY <1>8
    <2> QED
      BY <1>4, <1>10, <1>15, <1>17, <1>18, <2>1, <2>2, <2>3, PreviewStep

LEMMA RecordFailsKeeps ==
  ASSUME SalesInv, NEW w \in Workers, RecordFails(w)
  PROVE  SalesInv'
  <1> TypeOK
    BY DEF SalesInv
  <1>1. /\ UNCHANGED <<world, run, previews, day, row, identity, orders, linked, jobs, boot, upload, uploads, dropped>>
        /\ proc[w].at = "recording" /\ proc[w].at \in Fetches /\ Goes(w, "catching")
    BY DEF RecordFails, Fetches
  <1>2. PICK r \in Runs : RunOf(w) = r /\ (previews[r] = 1 => Records(proc[w], r))
    BY <1>1, PreviewFacts
  <1>3. PICK status \in Days : status = day[r]
    BY DEF TypeOK, Days
  <1>4. DayIs(RunOf(w), status)
    BY <1>1, <1>2, <1>3 DEF DayIs, TypeOK
  <1>5. ~(previews[r] = 1 /\ status = "READY")
    BY <1>1, <1>2, <1>3 DEF Records
  <1> QED
    BY <1>1, <1>2, <1>4, <1>5, PreviewMoves

LEMMA FinishDayKeeps ==
  ASSUME SalesInv, NEW w \in Workers, FinishDay(w)
  PROVE  SalesInv'
  <1>1. "READY" \in Days /\ "recording" \in Fetches
    BY DEF Days, Fetches
  <1> QED
    BY <1>1, PreviewMoves DEF FinishDay

LEMMA CatchDayKeeps ==
  ASSUME SalesInv, NEW w \in Workers, CatchDay(w)
  PROVE  SalesInv'
  <1>1. "FAILED" \in Days /\ proc[w].at \in Fetches
    BY DEF CatchDay, Days, Fetches
  <1>2. CASE DayIs(RunOf(w), "FAILED") /\ Goes(w, "partial")
    BY <1>1, <1>2, PreviewMoves DEF CatchDay
  <1>3. CASE UNCHANGED day /\ Ends(w, "throwing")
    BY <1>1, <1>3, PreviewThrows DEF CatchDay
  <1> QED
    BY <1>2, <1>3 DEF CatchDay

(* How a run ends.                                                         *)
LEMMA EndsDay ==
  /\ DOMAIN Outcome = {"ready", "partial", "blocked"} /\ DOMAIN Outcome \subseteq Fetches
  /\ \A at \in DOMAIN Outcome : /\ Outcome[at] \in {"PREVIEW_READY", "PARTIALLY_READY", "FAILED"}
                                /\ Outcome[at] # "COMPLETED" /\ (at = "blocked" => Outcome[at] = "FAILED")
  BY DEF Outcome, Fetches

LEMMA EndPreviewKeeps ==
  ASSUME SalesInv, NEW w \in Workers, EndPreview(w)
  PROVE  SalesInv'
  <1> TypeOK
    BY DEF SalesInv
  <1>1. /\ UNCHANGED <<world, previews, day, row, identity, orders, linked, jobs, boot, upload, uploads, dropped>>
        /\ proc[w].at \in DOMAIN Outcome /\ proc[w].at \in Fetches
    BY EndsDay DEF EndPreview
  <1>2. CASE UNCHANGED run /\ Ends(w, "throwing")
    BY <1>1, <1>2, PreviewThrows
  <1>3. CASE Become(RunOf(w), Outcome[proc[w].at]) /\ Ends(w, "returned")
    <2>1. PICK r \in Runs : /\ Previewing(proc[w], r) /\ RunOf(w) = r /\ proc[w].at # "idle" /\ RunFits(r)
                            /\ previews[r] # 0 /\ (previews[r] = 1 => run[r] = "FETCHING" /\ Records(proc[w], r))
      BY <1>1, PreviewFacts
    <2>2. PICK status \in {"PREVIEW_READY", "PARTIALLY_READY", "FAILED"} : run' = [run EXCEPT ![r] = status]
      BY <1>1, <1>3, <2>1, EndsDay DEF Become
    <2>3. /\ run' \in [Runs -> Active \cup Ready \cup {None, "checked", "COMPLETED", "FAILED"}] /\ row' \in [Runs -> [Sales -> Rows]]
          /\ day' \in [Runs -> Days]
          /\ run'[r] = status /\ \A q \in Runs : q # r => row'[q] = row[q] /\ run'[q] = run[q] /\ day'[q] = day[q]
      BY <1>1, <2>2 DEF TypeOK, Rows, Statuses, Ready, Days
    <2>4. PICK p : proc' = [proc EXCEPT ![w] = p] /\ ProcOK(p) /\ p.at = "returned"
      BY <1>3, <2>1, EndedIs
    <2>5. previews[r] = 1 => \A s \in Due(r) : row[r][s].status # None
      BY <2>1, FoundSales DEF Records, Due
    <2>6. Due(r)' = Due(r) /\ status # "COMPLETED"
      BY <1>1, <2>2, FoundSales
    <2>7. previews[r] = 1 => RunFits(r)'
      BY <1>1, <2>1, <2>3, <2>5, <2>6 DEF RunFits
    <2>8. p.at \notin Fetches
      BY <2>4, Places
    <2> QED
      BY <1>1, <2>1, <2>3, <2>4, <2>7, <2>8, PreviewStep
  <1> QED
    BY <1>2, <1>3 DEF EndPreview

----------------------------------------------------------------------------
(* A confirmation starts, goes on, or ends.                                *)
LEMMA StartConfirmKeeps ==
  ASSUME SalesInv, NEW w \in Workers, NEW r \in Runs, StartConfirm(w, r)
  PROVE  SalesInv'
  <1> TypeOK
    BY DEF SalesInv
  <1>1. UNCHANGED <<world, run, previews, day, row, identity, orders, linked, jobs, boot, upload, uploads, dropped>> /\ proc[w] = Idle
    BY DEF StartConfirm
  <1>2. PICK old \in Procs : old = Idle /\ old.todo = {}
    BY IdleIs DEF ProcOK, Idle
  <1>3. PICK at : at = IF run[r] = "COMPLETED" THEN "returned" ELSE IF run[r] = "IMPORTING" THEN "listing"
                       ELSE IF run[r] \in Ready THEN "claiming" ELSE "throwing"
    OBVIOUS
  <1>4. at \in {"returned", "throwing", "listing", "claiming"} /\ (at \in {"listing", "claiming"} => run[r] \in Confirmable)
    BY <1>3 DEF Confirmable
  <1>5. PICK p : p = [old EXCEPT !.job = <<"confirm", r>>, !.at = at]
    OBVIOUS
  <1>6. p.at = at /\ p.job = <<"confirm", r>> /\ p.todo = {}
    BY <1>2, <1>5 DEF Procs
  <1>7. p.job \in Kinds \X Runs /\ {"listing", "claiming"} \subseteq Confirms
    BY <1>6 DEF Kinds, Confirms
  <1>8. p \in Procs
    BY <1>2, <1>4, <1>5, <1>6, <1>7 DEF Procs
  <1>9. proc' = [proc EXCEPT ![w] = p]
    BY <1>2, <1>3, <1>5 DEF StartConfirm
  <1>10. p.at \notin Fetches /\ p.at \notin WithSale /\ p.at \notin Selling /\ p.at \notin Claiming /\ p.at # "idle"
    BY <1>4, <1>6, <1>7 DEF Fetches, WithSale, Selling, Claiming
  <1>11. ProcOK(p)
    BY <1>6, <1>7, <1>8, <1>10 DEF ProcOK
  <1>12. TypeOK'
    <2>1. /\ previews' \in [Runs -> 0..world.previews] /\ identity' \in [Sales -> {None} \cup Identities] /\ orders' \in [Sales -> Nat]
          /\ dropped' \subseteq Sales /\ jobs' \subseteq jobs /\ row' \in [Runs -> [Sales -> Rows]] /\ day' \in [Runs -> Days]
          /\ run' \in [Runs -> Active \cup Ready \cup {None, "checked", "COMPLETED", "FAILED"}]
      BY <1>1 DEF TypeOK, Rows, Statuses, Days
    <2> QED
      BY <1>1, <1>9, <1>11, <2>1, TypedByWorker
  <1>13. RunsOK'
    <2>1. RunFits(r)
      BY DEF SalesInv, RunsOK
    <2>2. \A q \in Runs : Confirming(p, q) => q = r /\ p.at \in {"listing", "claiming"}
      <3>1. p.job[2] = r
        BY <1>6
      <3>2. {"returned", "throwing"} \cap Confirms = {}
        BY Places
      <3> QED
        BY <1>4, <1>6, <3>1, <3>2, Roles DEF Confirming
    <2>3. \A q \in Runs : Confirming(p, q) => previews[q] # 0 /\ (previews[q] = 1 => run[q] \in Confirmable /\ Meets(p, q)')
      BY <1>4, <1>6, <1>10, <2>1, <2>2 DEF RunFits, Meets
    <2>4. \A s \in Sales : Met(s) => Met(s)'
      BY <1>1, Lasts
    <2> QED
      BY <1>1, <1>9, <1>10, <2>3, <2>4, RunsRest
  <1>14. ProcMet(p)' /\ proc[w].at \notin Claiming /\ p.at \notin {"checking", "creating"}
    BY <1>1, <1>4, <1>6, <1>10, IdleIs, Places DEF ProcMet
  <1> QED
    BY <1>1, <1>9, <1>10, <1>11, <1>12, <1>13, <1>14, WorkerGoesOn

LEMMA ConfirmFacts ==
  ASSUME SalesInv, NEW w \in Workers, proc[w].at \in Confirms
  PROVE  \E r \in Runs : /\ Confirming(proc[w], r) /\ RunOf(w) = r /\ proc[w].job = <<"confirm", r>> /\ proc[w].at # "idle"
                         /\ proc[w].todo \subseteq Sales \X Rows /\ (proc[w].at \in WithSale => proc[w].sale \in Sales)
                         /\ previews[r] # 0 /\ (previews[r] = 1 => run[r] \in Confirmable /\ Meets(proc[w], r))
                         /\ RunFits(r) /\ ProcMet(proc[w]) /\ proc[w] \in Procs
  <1>1. ProcOK(proc[w]) /\ ProcMet(proc[w])
    BY DEF SalesInv, ProcsOK, MetOK
  <1>2. PICK r \in Runs : proc[w].job = <<"confirm", r>>
    BY <1>1 DEF ProcOK
  <1>3. /\ Confirming(proc[w], r) /\ RunOf(w) = r /\ proc[w].todo \subseteq Sales \X Rows /\ proc[w].at # "idle"
        /\ (proc[w].at \in WithSale => proc[w].sale \in Sales) /\ proc[w] \in Procs
    BY <1>1, <1>2, Places DEF ProcOK, Confirming, RunOf
  <1>4. ConfirmFits(w, r) /\ RunFits(r)
    BY DEF SalesInv, RunsOK
  <1> QED
    BY <1>1, <1>2, <1>3, <1>4 DEF ConfirmFits

(* What a confirmation must respect that leaves the identities.            *)
LEMMA ConfirmStep ==
  ASSUME SalesInv, NEW w \in Workers, NEW r \in Runs, NEW p, Confirming(proc[w], r), proc' = [proc EXCEPT ![w] = p], ProcOK(p),
         UNCHANGED <<world, previews, day, identity, orders, linked, jobs, boot, upload, uploads, dropped>>,
         run' \in [Runs -> Active \cup Ready \cup {None, "checked", "COMPLETED", "FAILED"}], row' \in [Runs -> [Sales -> Rows]],
         p.at \notin Fetches, p.at \in Confirms => p.job = <<"confirm", r>>,
         p.at \in Claiming => proc[w].at \in Claiming /\ p.sale = proc[w].sale,
         p.at \in {"checking", "creating"} => proc[w].at \in {"checking", "creating"},
         proc[w].at \in Claiming => p.at \in Claiming,
         \A s \in Sales : row'[r][s] = row[r][s] \/ (row'[r][s].status # None /\ RowMet(row[r][s], s)'),
         \A q \in Runs : q # r => row'[q] = row[q] /\ run'[q] = run[q],
         run'[r] = run[r] \/ run'[r] \in Confirmable,
         previews[r] = 1 /\ run'[r] = "COMPLETED" => run[r] = "COMPLETED" \/ \A s \in Due(r) : Met(s),
         ProcMet(p), previews[r] = 1 => Meets(p, r)
  PROVE  SalesInv'
  <1>1. \A s \in Sales : Met(s) => Met(s)'
    BY Lasts
  <1>2. Found[r] \subseteq Sales /\ Due(r) \subseteq Found[r] /\ Due(r)' = Due(r)
    BY FoundSales
  <1>3. previews[r] = 1 => Meets(p, r)'
    BY <1>1, <1>2 DEF Meets
  <1>4. \A s \in Sales : row[r][s].status # None => row'[r][s].status # None
    OBVIOUS
  <1>5. previews[r] = 1 /\ run'[r] = "COMPLETED" => run[r] = "COMPLETED" \/ \A s \in Due(r) : Met(s)'
    BY <1>1, <1>2
  <1>6. RunsOK'
    BY <1>1, <1>3, <1>4, <1>5, ConfirmGoesOn
  <1>7. TypeOK'
    <2>1. previews' \in [Runs -> 0..world.previews] /\ identity' \in [Sales -> {None} \cup Identities] /\ orders' \in [Sales -> Nat]
          /\ dropped' \subseteq Sales /\ jobs' \subseteq jobs /\ day' \in [Runs -> Days]
      BY DEF SalesInv, TypeOK, Days
    <2> QED
      BY <2>1, TypedByWorker
  <1>8. ProcMet(p)'
    BY DEF ProcMet, Met, Ordered
  <1>9. \A q \in Runs : \A s \in Sales : row'[q][s] = row[q][s] \/ RowMet(row[q][s], s)'
    OBVIOUS
  <1> QED
    BY <1>6, <1>7, <1>8, <1>9, WorkerGoesOn

(* What stays when a confirmation changes nothing but itself.              *)
LEMMA RowsTyped ==
  ASSUME SalesInv
  PROVE  /\ row \in [Runs -> [Sales -> Rows]] /\ run \in [Runs -> Active \cup Ready \cup {None, "checked", "COMPLETED", "FAILED"}]
         /\ \A r \in Runs : \A s \in Sales : RowMet(row[r][s], s)
  BY DEF SalesInv, TypeOK, Rows, Statuses, MetOK

(* The shape of an execution that goes on to sell.                         *)
LEMMA SellingOK ==
  ASSUME SalesInv, NEW p \in Procs, NEW r \in Runs, p.job = <<"confirm", r>>, p.at \in Confirms, p.todo \subseteq Sales \X Rows,
         p.at \in WithSale => p.sale \in Sales
  PROVE  ProcOK(p) /\ p.at \notin Fetches
  <1>1. p.job \in Kinds \X Runs
    BY DEF Kinds
  <1> QED
    BY <1>1, Places DEF ProcOK

LEMMA ClaimRunKeeps ==
  ASSUME SalesInv, NEW w \in Workers, ClaimRun(w)
  PROVE  SalesInv'
  <1>1. /\ UNCHANGED <<world, previews, day, row, identity, orders, linked, jobs, boot, upload, uploads, dropped>>
        /\ proc[w].at = "claiming" /\ proc[w].at \in Confirms
    BY DEF ClaimRun, Confirms
  <1>2. PICK r \in Runs : /\ Confirming(proc[w], r) /\ RunOf(w) = r /\ proc[w].job = <<"confirm", r>> /\ proc[w].at # "idle"
                          /\ proc[w].todo \subseteq Sales \X Rows /\ proc[w] \in Procs
    BY <1>1, ConfirmFacts
  <1>3. row' \in [Runs -> [Sales -> Rows]] /\ run \in [Runs -> Active \cup Ready \cup {None, "checked", "COMPLETED", "FAILED"}]
    BY <1>1, RowsTyped
  <1>4. CASE run[r] \in Ready
    <2>1. PICK old \in Procs : old = proc[w]
      BY <1>2
    <2>2. PICK p : p = [old EXCEPT !.at = "listing"]
      OBVIOUS
    <2>3. p.at = "listing" /\ p.job = <<"confirm", r>> /\ p.todo = old.todo /\ "listing" \in Confirms
      BY <1>2, <2>1, <2>2 DEF Procs, Confirms
    <2>4. p \in Procs
      BY <2>1, <2>2, <2>3 DEF Procs
    <2>5. p.at \notin Selling /\ p.at \notin WithSale /\ p.at \notin Claiming /\ p.at \notin {"checking", "creating"}
          /\ proc[w].at \notin Claiming
      BY <1>1, <2>3 DEF Selling, WithSale, Claiming
    <2>6. ProcOK(p) /\ p.at \notin Fetches
      BY <1>2, <2>1, <2>3, <2>4, <2>5, SellingOK
    <2>7. run' = [run EXCEPT ![r] = "IMPORTING"] /\ proc' = [proc EXCEPT ![w] = p]
      BY <1>2, <1>4, <2>1, <2>2 DEF ClaimRun, Become, Goes
    <2>8. /\ run' \in [Runs -> Active \cup Ready \cup {None, "checked", "COMPLETED", "FAILED"}]
          /\ run'[r] = "IMPORTING" /\ \A q \in Runs : q # r => row'[q] = row[q] /\ run'[q] = run[q]
      BY <1>1, <1>3, <2>7 DEF Active
    <2>9. ProcMet(p) /\ Meets(p, r) /\ "IMPORTING" \in Confirmable
      BY <2>3, <2>5, Places DEF ProcMet, Meets, Confirmable
    <2> QED
      BY <1>1, <1>2, <1>3, <2>3, <2>5, <2>6, <2>7, <2>8, <2>9, ConfirmStep
  <1>5. CASE run[r] \notin Ready
    <2>1. run' = run /\ Ends(w, "returned")
      BY <1>2, <1>5 DEF ClaimRun
    <2>2. PICK p : proc' = [proc EXCEPT ![w] = p] /\ ProcOK(p) /\ p.at = "returned"
      BY <1>2, <2>1, EndedIs
    <2>3. p.at \notin Confirms /\ p.at \notin Fetches /\ p.at \notin Selling /\ p.at \notin Claiming /\ p.at \notin {"checking", "creating"}
          /\ proc[w].at \notin Claiming
      BY <1>1, <2>2, Places DEF Claiming
    <2>4. ProcMet(p) /\ Meets(p, r)
      BY <2>2, <2>3 DEF ProcMet, Meets
    <2> QED
      BY <1>1, <1>2, <1>3, <2>1, <2>2, <2>3, <2>4, ConfirmStep
  <1> QED
    BY <1>4, <1>5

LEMMA ListKeeps ==
  ASSUME SalesInv, NEW w \in Workers, List(w)
  PROVE  SalesInv'
  <1>1. /\ UNCHANGED <<world, run, previews, day, row, identity, orders, linked, jobs, boot, upload, uploads, dropped>>
        /\ proc[w].at = "listing" /\ proc[w].at \in Confirms
    BY DEF List, Confirms
  <1>2. PICK r \in Runs : /\ Confirming(proc[w], r) /\ RunOf(w) = r /\ proc[w].job = <<"confirm", r>> /\ proc[w].at # "idle"
                          /\ proc[w] \in Procs /\ RunFits(r) /\ (previews[r] = 1 => run[r] \in Confirmable)
    BY <1>1, ConfirmFacts
  <1>3. row \in [Runs -> [Sales -> Rows]] /\ \A s \in Sales : RowMet(row[r][s], s)
    BY RowsTyped
  <1>4. PICK old \in Procs : old = proc[w]
    BY <1>2
  <1>5. PICK todo : todo = {<<s, row[r][s]>> : s \in {t \in Sales : row[r][t].status \in {"NEW", "FAILED", "DUPLICATE"}}}
    OBVIOUS
  <1>6. PICK p : p = [old EXCEPT !.at = "sales", !.todo = todo]
    OBVIOUS
  <1>7. todo \subseteq Sales \X Rows
    BY <1>3, <1>5
  <1>8. p.at = "sales" /\ p.job = <<"confirm", r>> /\ p.todo = todo /\ "sales" \in Confirms
    BY <1>2, <1>4, <1>6 DEF Procs, Confirms, Selling
  <1>9. p \in Procs
    BY <1>4, <1>6, <1>7, <1>8 DEF Procs
  <1>10. p.at \in Selling /\ p.at \notin WithSale /\ p.at \notin Claiming /\ p.at \notin {"checking", "creating"}
         /\ proc[w].at \notin Claiming
    BY <1>1, <1>8 DEF Selling, WithSale, Claiming
  <1>11. ProcOK(p) /\ p.at \notin Fetches
    BY <1>7, <1>8, <1>9, <1>10, SellingOK
  <1>12. proc' = [proc EXCEPT ![w] = p]
    BY <1>2, <1>4, <1>5, <1>6 DEF List
  <1>13. ProcMet(p)
    <2>1. ASSUME NEW m \in todo, m[2].status # "NEW" PROVE Met(m[1])
      <3>1. PICK s \in Sales : m = <<s, row[r][s]>> /\ row[r][s].status \in {"NEW", "FAILED", "DUPLICATE"}
        BY <1>5
      <3>2. m[1] = s /\ m[2] = row[r][s]
        BY <3>1
      <3> QED
        BY <1>3, <2>1, <3>1, <3>2 DEF RowMet
    <2> QED
      BY <1>8, <2>1 DEF ProcMet
  <1>14. previews[r] = 1 => Meets(p, r)
    <2>1. SUFFICES ASSUME previews[r] = 1, NEW s \in Due(r) PROVE Met(s) \/ \E m \in todo : m[1] = s
      BY <1>8 DEF Meets
    <2>2. s \in Sales /\ row[r][s].status # None
      BY <1>2, <2>1, FoundSales DEF RunFits
    <2>3. row[r][s].status \in Statuses
      BY <1>3, <2>2 DEF Rows
    <2>4. CASE row[r][s].status = "IMPORTED"
      BY <1>3, <2>2, <2>4 DEF RowMet, Met, Ordered
    <2>5. CASE row[r][s].status \in {"NEW", "FAILED", "DUPLICATE"}
      <3>1. <<s, row[r][s]>> \in todo /\ <<s, row[r][s]>>[1] = s
        BY <1>5, <2>2, <2>5
      <3> QED
        BY <3>1
    <2> QED
      BY <2>2, <2>3, <2>4, <2>5 DEF Statuses
  <1>15. /\ run' \in [Runs -> Active \cup Ready \cup {None, "checked", "COMPLETED", "FAILED"}] /\ row' \in [Runs -> [Sales -> Rows]]
         /\ \A q \in Runs : q # r => row'[q] = row[q] /\ run'[q] = run[q]
    BY <1>1, RowsTyped
  <1> QED
    BY <1>1, <1>2, <1>8, <1>10, <1>11, <1>12, <1>13, <1>14, <1>15, ConfirmStep

LEMMA SkipKeeps ==
  ASSUME SalesInv, NEW w \in Workers, Skip(w)
  PROVE  SalesInv'
  <1>1. /\ UNCHANGED <<world, run, previews, day, row, identity, orders, linked, jobs, boot, upload, uploads, dropped>>
        /\ proc[w].at = "sales" /\ proc[w].at \in Confirms
    BY DEF Skip, Confirms, Selling
  <1>2. PICK r \in Runs : /\ Confirming(proc[w], r) /\ RunOf(w) = r /\ proc[w].job = <<"confirm", r>> /\ proc[w].at # "idle"
                          /\ proc[w] \in Procs /\ proc[w].todo \subseteq Sales \X Rows /\ ProcMet(proc[w])
                          /\ (previews[r] = 1 => Meets(proc[w], r))
    BY <1>1, ConfirmFacts
  <1>3. PICK old \in Procs : old = proc[w]
    BY <1>2
  <1>4. PICK m \in old.todo : m[2].status = "DUPLICATE" /\ proc' = [proc EXCEPT ![w].todo = @ \ {m}]
    BY <1>3 DEF Skip
  <1>5. PICK p : p = [old EXCEPT !.todo = old.todo \ {m}]
    OBVIOUS
  <1>6. p.at = "sales" /\ p.job = <<"confirm", r>> /\ p.todo = old.todo \ {m} /\ "sales" \in Confirms
    BY <1>1, <1>2, <1>3, <1>5 DEF Procs, Confirms, Selling
  <1>7. p \in Procs
    BY <1>3, <1>5, <1>6 DEF Procs
  <1>8. p.at \in Selling /\ p.at \notin WithSale /\ p.at \notin Claiming /\ p.at \notin {"checking", "creating"}
         /\ proc[w].at \notin Claiming /\ proc[w].at \in Selling
    BY <1>1, <1>6 DEF Selling, WithSale, Claiming
  <1>9. ProcOK(p) /\ p.at \notin Fetches
    BY <1>2, <1>3, <1>6, <1>7, <1>8, SellingOK
  <1>10. proc' = [proc EXCEPT ![w] = p]
    BY <1>3, <1>4, <1>5
  <1>11. ProcMet(p)
    BY <1>2, <1>3, <1>6, <1>8 DEF ProcMet
  <1>12. Met(m[1])
    BY <1>2, <1>3, <1>4, <1>8 DEF ProcMet
  <1>13. previews[r] = 1 => Meets(p, r)
    BY <1>2, <1>3, <1>6, <1>8, <1>12 DEF Meets
  <1>14. /\ run' \in [Runs -> Active \cup Ready \cup {None, "checked", "COMPLETED", "FAILED"}] /\ row' \in [Runs -> [Sales -> Rows]]
         /\ \A q \in Runs : q # r => row'[q] = row[q] /\ run'[q] = run[q]
    BY <1>1, RowsTyped
  <1> QED
    BY <1>1, <1>2, <1>6, <1>8, <1>9, <1>10, <1>11, <1>13, <1>14, ConfirmStep

LEMMA MarkKeeps ==
  ASSUME SalesInv, NEW w \in Workers, MarkMovement(w)
  PROVE  SalesInv'
  <1>1. /\ UNCHANGED <<world, run, previews, day, identity, orders, linked, jobs, boot, upload, uploads, dropped>>
        /\ proc[w].at \in {"attached", "duplicate", "failing"} /\ proc[w].at \in Confirms /\ proc[w].at \in WithSale
        /\ proc[w].at \in Selling /\ proc[w].at \notin Claiming
    BY DEF MarkMovement, Confirms, Selling, WithSale, Claiming
  <1>2. PICK r \in Runs : /\ Confirming(proc[w], r) /\ RunOf(w) = r /\ proc[w].job = <<"confirm", r>> /\ proc[w].at # "idle"
                          /\ proc[w] \in Procs /\ proc[w].todo \subseteq Sales \X Rows /\ ProcMet(proc[w])
                          /\ proc[w].sale \in Sales /\ (previews[r] = 1 => Meets(proc[w], r))
    BY <1>1, ConfirmFacts
  <1>3. /\ run' \in [Runs -> Active \cup Ready \cup {None, "checked", "COMPLETED", "FAILED"}] /\ row \in [Runs -> [Sales -> Rows]]
        /\ \A q \in Runs : run'[q] = run[q]
    BY <1>1, RowsTyped
  <1>4. CASE Written(w)
    <2>1. PICK old \in Procs : old = proc[w]
      BY <1>2
    <2>2. PICK failed \in BOOLEAN : failed = (old.at = "failing")
      OBVIOUS
    <2>3. PICK p : p = [old EXCEPT !.at = "sales", !.by = 0, !.sale = None, !.bad = old.bad \/ failed]
      OBVIOUS
    <2>4. p.at = "sales" /\ p.job = <<"confirm", r>> /\ p.todo = old.todo /\ "sales" \in Confirms
      BY <1>2, <2>1, <2>3 DEF Procs, Confirms, Selling
    <2>5. p \in Procs
      <3>1. (old.bad \/ failed) \in BOOLEAN
        BY <2>1, <2>2 DEF Procs
      <3> QED
        BY <2>1, <2>3, <2>4, <3>1, WorldIs DEF Procs
    <2>6. p.at \in Selling /\ p.at \notin WithSale /\ p.at \notin Claiming /\ p.at \notin {"checking", "creating"}
      BY <2>4 DEF Selling, WithSale, Claiming
    <2>7. ProcOK(p) /\ p.at \notin Fetches
      BY <1>2, <2>1, <2>4, <2>5, <2>6, SellingOK
    <2>8. proc' = [proc EXCEPT ![w] = p]
      BY <1>4, <2>1, <2>2, <2>3 DEF MarkMovement, Leaves
    <2>9. PICK status \in {"IMPORTED", "DUPLICATE", "FAILED"} :
            /\ Mark(w, status) /\ status = CASE proc[w].at = "attached" -> "IMPORTED" [] proc[w].at = "duplicate" -> "DUPLICATE"
                                             [] OTHER -> "FAILED"
      BY <1>4 DEF MarkMovement
    <2>10. (status = "IMPORTED" => Ordered(proc[w].sale)) /\ (status \in {"DUPLICATE", "FAILED"} => Met(proc[w].sale))
      BY <1>1, <1>2, <2>9 DEF ProcMet
    <2>11. PICK s \in Sales, was \in Rows : s = proc[w].sale /\ was = row[r][s]
      BY <1>2, <1>3
    <2>12. PICK c : c = [was EXCEPT !.status = status]
      OBVIOUS
    <2>13. c \in Rows /\ c.status = status
      BY <2>12 DEF Rows, Statuses
    <2>14. row' = [row EXCEPT ![r][s] = c]
      BY <1>2, <2>9, <2>11, <2>12 DEF Mark
    <2>15. /\ row' \in [Runs -> [Sales -> Rows]] /\ row'[r][s] = c /\ \A t \in Sales : t # s => row'[r][t] = row[r][t]
           /\ \A q \in Runs : q # r => row'[q] = row[q]
      BY <1>3, <2>13, <2>14
    <2>16. \A t \in Sales : row'[r][t] = row[r][t] \/ (row'[r][t].status # None /\ RowMet(row[r][t], t)')
      BY <1>1, <2>10, <2>11, <2>13, <2>15, NoneAssumption DEF RowMet, Met, Ordered
    <2>17. ProcMet(p) /\ (previews[r] = 1 => Meets(p, r))
      BY <1>1, <1>2, <2>1, <2>4, <2>6 DEF ProcMet, Meets
    <2>18. \A q \in Runs : q # r => row'[q] = row[q] /\ run'[q] = run[q]
      BY <1>3, <2>15
    <2>19. row' \in [Runs -> [Sales -> Rows]] /\ run'[r] = run[r]
      BY <1>3, <2>15
    <2> QED
      BY <1>1, <1>2, <1>3, <2>4, <2>6, <2>7, <2>8, <2>16, <2>17, <2>18, <2>19, ConfirmStep
  <1>5. CASE ~Written(w)
    <2>1. row' = row /\ Ends(w, "throwing")
      BY <1>5 DEF MarkMovement
    <2>2. PICK p : proc' = [proc EXCEPT ![w] = p] /\ ProcOK(p) /\ p.at = "throwing"
      BY <1>2, <2>1, EndedIs
    <2>3. p.at \notin Confirms /\ p.at \notin Fetches /\ p.at \notin Selling /\ p.at \notin Claiming /\ p.at \notin {"checking", "creating"}
      BY <2>2, Places
    <2>4. ProcMet(p) /\ Meets(p, r)
      BY <2>2, <2>3 DEF ProcMet, Meets
    <2> QED
      BY <1>1, <1>2, <1>3, <2>1, <2>2, <2>3, <2>4, ConfirmStep
  <1> QED
    BY <1>4, <1>5

(* With a sale in its hands.                                               *)
LEMMA HandsOn ==
  ASSUME SalesInv, NEW w \in Workers, FindExisting(w) \/ CreateFails(w)
  PROVE  SalesInv'
  <1>1. /\ UNCHANGED <<world, run, previews, day, row, identity, orders, linked, jobs, boot, upload, uploads, dropped>>
        /\ proc[w].at \in {"checking", "creating"} /\ proc[w].at \in Confirms /\ proc[w].at \in WithSale
        /\ proc[w].at \in Selling /\ proc[w].at \in Claiming
    BY DEF FindExisting, CreateFails, Confirms, Selling, WithSale, Claiming
  <1>2. PICK r \in Runs : /\ Confirming(proc[w], r) /\ RunOf(w) = r /\ proc[w].job = <<"confirm", r>> /\ proc[w].at # "idle"
                          /\ proc[w] \in Procs /\ proc[w].todo \subseteq Sales \X Rows /\ ProcMet(proc[w])
                          /\ proc[w].sale \in Sales /\ (previews[r] = 1 => Meets(proc[w], r))
    BY <1>1, ConfirmFacts
  <1>3. PICK old \in Procs : old = proc[w]
    BY <1>2
  <1>4. PICK at \in {"creating", "releasing"} : Goes(w, at)
    BY DEF FindExisting, CreateFails
  <1>5. PICK p : p = [old EXCEPT !.at = at]
    OBVIOUS
  <1>6. at \in Claiming /\ at \in WithSale /\ at \in Confirms /\ at \in Selling
    BY DEF Confirms, Selling, WithSale, Claiming
  <1>7. p.at = at /\ p.job = <<"confirm", r>> /\ p.todo = old.todo /\ p.sale = old.sale
    BY <1>2, <1>3, <1>5, <1>6 DEF Procs
  <1>8. p \in Procs
    BY <1>3, <1>5, <1>6 DEF Procs
  <1>9. ProcOK(p) /\ p.at \notin Fetches
    BY <1>2, <1>3, <1>6, <1>7, <1>8, SellingOK
  <1>10. proc' = [proc EXCEPT ![w] = p]
    BY <1>3, <1>4, <1>5 DEF Goes
  <1>11. ProcMet(p) /\ (previews[r] = 1 => Meets(p, r))
    BY <1>1, <1>2, <1>3, <1>6, <1>7 DEF ProcMet, Meets
  <1>12. /\ run' \in [Runs -> Active \cup Ready \cup {None, "checked", "COMPLETED", "FAILED"}] /\ row' \in [Runs -> [Sales -> Rows]]
         /\ \A q \in Runs : q # r => row'[q] = row[q] /\ run'[q] = run[q]
    BY <1>1, RowsTyped
  <1>13. p.at \in Claiming /\ p.sale = proc[w].sale
    BY <1>3, <1>6, <1>7
  <1> QED
    BY <1>1, <1>2, <1>7, <1>9, <1>10, <1>11, <1>12, <1>13, ConfirmStep

LEMMA EndConfirmKeeps ==
  ASSUME SalesInv, NEW w \in Workers, EndConfirm(w)
  PROVE  SalesInv'
  <1>1. /\ UNCHANGED <<world, previews, day, row, identity, orders, linked, jobs, boot, upload, uploads, dropped>>
        /\ proc[w].at = "sales" /\ proc[w].todo = {} /\ proc[w].at \in Confirms /\ proc[w].at \in Selling
        /\ proc[w].at \notin Claiming /\ Ends(w, "returned")
    BY DEF EndConfirm, Confirms, Selling, Claiming
  <1>2. PICK r \in Runs : /\ Confirming(proc[w], r) /\ RunOf(w) = r /\ proc[w].at # "idle"
                          /\ previews[r] = 1 => Meets(proc[w], r)
    BY <1>1, ConfirmFacts
  <1>3. PICK status \in {"COMPLETED_WITH_ERRORS", "COMPLETED"} : run' = [run EXCEPT ![r] = status]
    BY <1>2 DEF EndConfirm, Become
  <1>4. /\ run' \in [Runs -> Active \cup Ready \cup {None, "checked", "COMPLETED", "FAILED"}] /\ row' \in [Runs -> [Sales -> Rows]]
        /\ run'[r] \in Confirmable /\ \A q \in Runs : q # r => row'[q] = row[q] /\ run'[q] = run[q]
    BY <1>1, <1>3, RowsTyped DEF Ready, Confirmable
  <1>5. PICK p : proc' = [proc EXCEPT ![w] = p] /\ ProcOK(p) /\ p.at = "returned"
    BY <1>1, <1>2, EndedIs
  <1>6. p.at \notin Confirms /\ p.at \notin Fetches /\ p.at \notin Selling /\ p.at \notin Claiming /\ p.at \notin {"checking", "creating"}
    BY <1>5, Places
  <1>7. ProcMet(p) /\ Meets(p, r)
    BY <1>5, <1>6 DEF ProcMet, Meets
  <1>8. previews[r] = 1 => \A s \in Due(r) : Met(s)
    BY <1>1, <1>2 DEF Meets
  <1> QED
    BY <1>1, <1>2, <1>4, <1>5, <1>6, <1>7, <1>8, ConfirmStep

----------------------------------------------------------------------------
(* The identity of a sale changes.                                         *)
LEMMA SaleStep ==
  ASSUME SalesInv, NEW w \in Workers, NEW r \in Runs, NEW p, NEW s \in Sales, Confirming(proc[w], r),
         proc' = [proc EXCEPT ![w] = p], ProcOK(p), UNCHANGED <<world, run, previews, day, linked, jobs, boot, upload, uploads>>,
         identity' \in [Sales -> {None} \cup Identities], orders' \in [Sales -> Nat], row' \in [Runs -> [Sales -> Rows]],
         dropped \subseteq dropped', dropped' \subseteq Sales,
         \A t \in Sales : t # s => identity'[t] = identity[t] /\ orders'[t] = orders[t],
         p.at \in Claiming => p.sale = s, proc[w].at \in Claiming => proc[w].sale = s,
         Met(s) => Met(s)', Ordered(s) => Ordered(s)', SaleOK(s)',
         p.at \notin Fetches, p.at \in Confirms => p.job = <<"confirm", r>>,
         \A t \in Sales : row'[r][t] = row[r][t] \/ (row'[r][t].status # None /\ RowMet(row[r][t], t)'),
         \A q \in Runs : q # r => row'[q] = row[q],
         ProcMet(p)', previews[r] = 1 => Meets(p, r)'
  PROVE  SalesInv'
  <1>1. \A t \in Sales : (Met(t) => Met(t)') /\ (Ordered(t) => Ordered(t)')
    BY DEF Met, Ordered
  <1>2. proc'[w] = p /\ \A v \in Workers : v # w => proc'[v] = proc[v]
    BY Execs DEF SalesInv
  <1>3. ASSUME NEW t \in Sales, t # s PROVE SaleOK(t)'
    <2>1. SaleOK(t)
      BY DEF SalesInv, ClaimsOK
    <2>2. identity'[t] = identity[t] /\ orders'[t] = orders[t] /\ linked' = linked /\ dropped \subseteq dropped'
      BY <1>3
    <2>3. FileHolds(t)' = FileHolds(t) /\ Ordered(t)' = Ordered(t)
      BY <2>2 DEF FileHolds, Ordered
    <2>4. \A v \in Workers : Holds(v, t)' = Holds(v, t)
      BY <1>2, <1>3 DEF Holds
    <2>5. \A v \in Workers : Holds(v, t) => proc'[v] = proc[v]
      BY <1>2, <1>3 DEF Holds
    <2>6. \A v \in Workers : Holds(v, t)' =>
            /\ identity'[t] # None /\ ~FileHolds(t)' /\ (proc'[v].at \in {"checking", "creating"} => orders'[t] = 0)
            /\ \A u \in Workers : Holds(u, t)' => u = v
      BY <2>1, <2>2, <2>3, <2>4, <2>5 DEF SaleOK
    <2>7. /\ orders'[t] \in {0, 1} /\ (orders'[t] = 1 => Ordered(t)') /\ (FileHolds(t)' => identity'[t] # None /\ orders'[t] = 0)
          /\ identity'[t] # None /\ identity'[t].order = "historical" => orders'[t] = 1
      BY <2>1, <2>2, <2>3 DEF SaleOK
    <2>8. identity'[t] # None => \/ t \in dropped' \/ orders'[t] = 1 \/ t \in linked' \/ FileHolds(t)'
                                 \/ \E v \in Workers : Holds(v, t)'
      BY <2>1, <2>2, <2>3, <2>4 DEF SaleOK
    <2> QED
      BY <2>6, <2>7, <2>8 DEF SaleOK
  <1>4. ClaimsOK'
    BY <1>3 DEF ClaimsOK
  <1>5. RunsOK'
    <2>1. \A t \in Sales : row[r][t].status # None => row'[r][t].status # None
      OBVIOUS
    <2> QED
      BY <1>1, <2>1, ConfirmGoesOn
  <1>6. TypeOK'
    <2>1. /\ previews' \in [Runs -> 0..world.previews] /\ jobs' \subseteq jobs /\ day' \in [Runs -> Days]
          /\ run' \in [Runs -> Active \cup Ready \cup {None, "checked", "COMPLETED", "FAILED"}]
      BY DEF SalesInv, TypeOK, Days
    <2> QED
      BY <2>1, TypedByWorker
  <1>7. ProcsOK'
    BY ProcsKept
  <1>8. MetOK'
    <2>1. \A q \in Runs : \A t \in Sales : row'[q][t] = row[q][t] \/ RowMet(row[q][t], t)'
      OBVIOUS
    <2> QED
      BY <1>1, <2>1, MetKept
  <1>9. UploadOK'
    BY DEF SalesInv, UploadOK
  <1> QED
    BY <1>4, <1>5, <1>6, <1>7, <1>8, <1>9 DEF SalesInv

LEMMA SalesTyped ==
  ASSUME SalesInv, NEW s \in Sales
  PROVE  /\ identity \in [Sales -> {None} \cup Identities] /\ orders \in [Sales -> Nat] /\ dropped \subseteq Sales
         /\ SaleOK(s) /\ (identity[s] # None => identity[s] \in Identities)
  BY DEF SalesInv, TypeOK, ClaimsOK

LEMMA AttachKeeps ==
  ASSUME SalesInv, NEW w \in Workers, Attach(w)
  PROVE  SalesInv'
  <1>1. /\ UNCHANGED <<world, run, previews, day, row, orders, linked, jobs, boot, upload, uploads, dropped>>
        /\ proc[w].at = "sales" /\ proc[w].at \in Confirms /\ proc[w].at \in Selling /\ proc[w].at \notin Claiming
    BY DEF Attach, Confirms, Selling, Claiming
  <1>2. PICK r \in Runs : /\ Confirming(proc[w], r) /\ RunOf(w) = r /\ proc[w].job = <<"confirm", r>>
                          /\ proc[w] \in Procs /\ proc[w].todo \subseteq Sales \X Rows /\ ProcMet(proc[w])
                          /\ (previews[r] = 1 => Meets(proc[w], r))
    BY <1>1, ConfirmFacts
  <1>3. PICK old \in Procs : old = proc[w]
    BY <1>2
  <1>4. PICK m \in old.todo :
          /\ m[1] \in linked /\ Take(w, m, "attached")
          /\ identity' = [identity EXCEPT ![m[1]] = [channel |-> IF @ = None THEN "api" ELSE @.channel, order |-> "operational"]]
    BY <1>3 DEF Attach
  <1>5. PICK s \in Sales, c \in Rows : s = m[1] /\ c = m[2] /\ m \in Sales \X Rows
    BY <1>2, <1>3
  <1>6. PICK new : new = [channel |-> IF identity[s] = None THEN "api" ELSE identity[s].channel, order |-> "operational"]
    OBVIOUS
  <1>7. new \in Identities /\ new # None /\ new.order = "operational" /\ "operational" # None
    <2>1. identity[s] # None => identity[s].channel \in {"api", "file"}
      BY SalesTyped DEF Identities
    <2> QED
      BY <1>6, <2>1, NoneAssumption DEF Identities
  <1>8. identity' = [identity EXCEPT ![s] = new]
    BY <1>4, <1>5, <1>6
  <1>9. /\ identity' \in [Sales -> {None} \cup Identities] /\ identity'[s] = new
        /\ \A t \in Sales : t # s => identity'[t] = identity[t]
    BY <1>7, <1>8, SalesTyped
  <1>10. PICK p : p = [old EXCEPT !.at = "attached", !.todo = old.todo \ {m}, !.by = c.by, !.sale = s]
    OBVIOUS
  <1>11. c.by \in 0..world.previews /\ "attached" \in Confirms /\ "attached" \in Selling
    BY DEF Rows, Confirms, Selling, WithSale
  <1>12. p.at = "attached" /\ p.job = <<"confirm", r>> /\ p.todo = old.todo \ {m} /\ p.sale = s
    BY <1>2, <1>3, <1>10 DEF Procs
  <1>13. p \in Procs
    BY <1>3, <1>10, <1>11, <1>12 DEF Procs
  <1>14. p.at \in Confirms /\ p.at \in Selling /\ p.at \notin Claiming
    BY <1>11, <1>12 DEF Claiming
  <1>15. ProcOK(p) /\ p.at \notin Fetches
    BY <1>2, <1>3, <1>12, <1>13, <1>14, SellingOK
  <1>16. proc' = [proc EXCEPT ![w] = p]
    BY <1>3, <1>4, <1>5, <1>10 DEF Take
  <1>17. Met(s)' /\ Ordered(s)' /\ \A t \in Sales : Met(t) => Met(t)'
    BY <1>1, <1>7, <1>9 DEF Met, Ordered
  <1>18. SaleOK(s)'
    <2>1. SaleOK(s)
      BY SalesTyped
    <2>2. proc'[w] = p /\ \A v \in Workers : v # w => proc'[v] = proc[v]
      BY <1>16, Execs DEF SalesInv
    <2>3. \A v \in Workers : Holds(v, s)' <=> Holds(v, s)
      BY <1>1, <1>14, <2>2 DEF Holds
    <2>4. \A v \in Workers : Holds(v, s) => proc'[v] = proc[v]
      BY <1>1, <2>2 DEF Holds
    <2>5. FileHolds(s)' = FileHolds(s)
      BY <1>1 DEF FileHolds
    <2>6. orders'[s] = orders[s] /\ s \in linked' /\ identity'[s] # None /\ identity'[s].order # "historical"
      BY <1>1, <1>4, <1>5, <1>7, <1>9
    <2> QED
      BY <1>17, <2>1, <2>3, <2>4, <2>5, <2>6 DEF SaleOK
  <1>19. ProcMet(p)'
    BY <1>2, <1>3, <1>12, <1>14, <1>17, <1>1 DEF ProcMet
  <1>20. previews[r] = 1 => Meets(p, r)'
    BY <1>1, <1>2, <1>3, <1>5, <1>12, <1>17, FoundSales DEF Meets
  <1>21. orders' \in [Sales -> Nat] /\ dropped' \subseteq Sales /\ dropped \subseteq dropped' /\ row' \in [Runs -> [Sales -> Rows]]
    BY <1>1, SalesTyped, RowsTyped
  <1> QED
    BY <1>1, <1>2, <1>9, <1>12, <1>14, <1>15, <1>16, <1>17, <1>18, <1>19, <1>20, <1>21, SaleStep

LEMMA ClaimKeeps ==
  ASSUME SalesInv, NEW w \in Workers, Claim(w)
  PROVE  SalesInv'
  <1>1. /\ UNCHANGED <<world, run, previews, day, row, orders, linked, jobs, boot, upload, uploads, dropped>>
        /\ proc[w].at = "sales" /\ proc[w].at \in Confirms /\ proc[w].at \in Selling /\ proc[w].at \notin Claiming
    BY DEF Claim, Confirms, Selling, Claiming
  <1>2. PICK r \in Runs : /\ Confirming(proc[w], r) /\ RunOf(w) = r /\ proc[w].job = <<"confirm", r>>
                          /\ proc[w] \in Procs /\ proc[w].todo \subseteq Sales \X Rows /\ ProcMet(proc[w])
                          /\ (previews[r] = 1 => Meets(proc[w], r))
    BY <1>1, ConfirmFacts
  <1>3. PICK old \in Procs : old = proc[w]
    BY <1>2
  <1>4. PICK m \in old.todo :
          IF identity[m[1]] = None THEN identity' = [identity EXCEPT ![m[1]] = Claimed("api")] /\ Take(w, m, "checking")
                                   ELSE UNCHANGED identity /\ Take(w, m, "duplicate")
    BY <1>3 DEF Claim
  <1>5. PICK s \in Sales, c \in Rows : s = m[1] /\ c = m[2]
    BY <1>2, <1>3
  <1>6. PICK at \in {"checking", "duplicate"} : Take(w, m, at) /\ (at = "checking" <=> identity[s] = None)
    BY <1>4, <1>5
  <1>7. PICK p : p = [old EXCEPT !.at = at, !.todo = old.todo \ {m}, !.by = c.by, !.sale = s]
    OBVIOUS
  <1>8. c.by \in 0..world.previews /\ at \in Confirms /\ at \in Selling /\ (at \in Claiming <=> at = "checking")
    BY DEF Rows, Confirms, Selling, WithSale, Claiming
  <1>9. p.at = at /\ p.job = <<"confirm", r>> /\ p.todo = old.todo \ {m} /\ p.sale = s
    BY <1>2, <1>3, <1>7, <1>8 DEF Procs
  <1>10. p \in Procs
    BY <1>3, <1>7, <1>8, <1>9 DEF Procs
  <1>11. ProcOK(p) /\ p.at \notin Fetches
    BY <1>2, <1>3, <1>8, <1>9, <1>10, SellingOK
  <1>12. proc' = [proc EXCEPT ![w] = p]
    BY <1>3, <1>5, <1>6, <1>7 DEF Take
  <1>13. IF identity[s] = None THEN identity' = [identity EXCEPT ![s] = Claimed("api")] ELSE identity' = identity
    BY <1>4, <1>5
  <1>14. Claimed("api") \in Identities /\ Claimed("api") # None /\ Claimed("api").order = None
    BY NoneAssumption DEF Claimed, Identities
  <1>15. /\ identity' \in [Sales -> {None} \cup Identities] /\ identity'[s] # None
         /\ identity[s] = None => identity'[s].order = None
         /\ identity[s] # None => identity'[s] = identity[s]
         /\ \A t \in Sales : t # s => identity'[t] = identity[t]
    BY <1>13, <1>14, SalesTyped
  <1>16. Met(s)' /\ (Ordered(s) => Ordered(s)') /\ \A t \in Sales : Met(t) => Met(t)'
    BY <1>1, <1>15 DEF Met, Ordered
  <1>17. SaleOK(s)'
    <2>1. SaleOK(s)
      BY SalesTyped
    <2>2. proc'[w] = p /\ \A v \in Workers : v # w => proc'[v] = proc[v]
      BY <1>12, Execs DEF SalesInv
    <2>3. Holds(w, s)' <=> at = "checking"
      BY <1>8, <1>9, <2>2 DEF Holds
    <2>4. \A v \in Workers : v # w => (Holds(v, s)' <=> Holds(v, s)) /\ proc'[v] = proc[v]
      BY <2>2 DEF Holds
    <2>5. ~Holds(w, s) /\ FileHolds(s)' = FileHolds(s) /\ orders'[s] = orders[s] /\ linked' = linked /\ dropped' = dropped
      BY <1>1 DEF Holds, FileHolds
    <2>6. CASE identity[s] = None
      <3>1. at = "checking" /\ orders[s] = 0 /\ ~FileHolds(s) /\ \A v \in Workers : ~Holds(v, s)
        BY <1>6, <2>1, <2>6 DEF SaleOK, Ordered
      <3>2. \A v \in Workers : Holds(v, s)' <=> v = w
        BY <2>3, <2>4, <3>1
      <3>3. identity'[s] # None /\ identity'[s].order # "historical"
        BY <1>15, <2>6, NoneAssumption
      <3> QED
        BY <2>5, <3>1, <3>2, <3>3 DEF SaleOK
    <2>7. CASE identity[s] # None
      <3>1. at # "checking" /\ identity'[s] = identity[s] /\ Ordered(s)' = Ordered(s)
        BY <1>6, <1>15, <2>7 DEF Ordered
      <3>2. \A v \in Workers : (Holds(v, s)' <=> Holds(v, s)) /\ (Holds(v, s) => proc'[v] = proc[v])
        BY <2>3, <2>4, <2>5, <3>1
      <3> QED
        BY <2>1, <2>5, <3>1, <3>2 DEF SaleOK
    <2> QED
      BY <2>6, <2>7
  <1>18. ProcMet(p)'
    BY <1>1, <1>2, <1>3, <1>8, <1>9, <1>16 DEF ProcMet
  <1>19. previews[r] = 1 => Meets(p, r)'
    BY <1>1, <1>2, <1>3, <1>5, <1>8, <1>9, <1>16, FoundSales DEF Meets
  <1>20. orders' \in [Sales -> Nat] /\ dropped' \subseteq Sales /\ dropped \subseteq dropped' /\ row' \in [Runs -> [Sales -> Rows]]
         /\ orders' = orders
    BY <1>1, SalesTyped, RowsTyped
  <1> QED
    BY <1>1, <1>2, <1>9, <1>11, <1>12, <1>15, <1>16, <1>17, <1>18, <1>19, <1>20, SaleStep

(* What a worker with a sale in its hands knows.                           *)
LEMMA InHands ==
  ASSUME SalesInv, NEW w \in Workers, proc[w].at \in Claiming
  PROVE  /\ proc[w].sale \in Sales /\ identity[proc[w].sale] \in Identities /\ ~FileHolds(proc[w].sale)
         /\ identity[proc[w].sale] # None
         /\ proc[w].at = "creating" => orders[proc[w].sale] = 0
         /\ \A v \in Workers : Holds(v, proc[w].sale) => v = w
  <1>1. proc[w].sale \in Sales
    BY Places DEF SalesInv, ProcsOK, ProcOK
  <1>2. PICK s \in Sales : s = proc[w].sale
    BY <1>1
  <1>3. SaleOK(s) /\ Holds(w, s) /\ (identity[s] # None => identity[s] \in Identities)
    BY <1>2, SalesTyped DEF Holds
  <1> QED
    BY <1>2, <1>3 DEF SaleOK

LEMMA ReleaseKeeps ==
  ASSUME SalesInv, NEW w \in Workers, Release(w)
  PROVE  SalesInv'
  <1>1. /\ UNCHANGED <<world, run, previews, day, row, orders, linked, jobs, boot, upload, uploads>>
        /\ proc[w].at = "releasing" /\ proc[w].at \in Confirms /\ proc[w].at \in Selling /\ proc[w].at \in Claiming
        /\ proc[w].at \in WithSale
    BY DEF Release, Confirms, Selling, WithSale, Claiming
  <1>2. PICK r \in Runs : /\ Confirming(proc[w], r) /\ RunOf(w) = r /\ proc[w].job = <<"confirm", r>>
                          /\ proc[w] \in Procs /\ proc[w].todo \subseteq Sales \X Rows /\ ProcMet(proc[w])
                          /\ (previews[r] = 1 => Meets(proc[w], r))
    BY <1>1, ConfirmFacts
  <1>3. PICK old \in Procs, s \in Sales : old = proc[w] /\ s = old.sale
    BY <1>1, <1>2, InHands
  <1>4. identity[s] \in Identities /\ ~FileHolds(s) /\ identity[s] # None /\ \A v \in Workers : Holds(v, s) => v = w
    BY <1>1, <1>3, InHands
  <1>5. /\ identity' = IF identity[s] = Claimed("api") THEN [identity EXCEPT ![s] = None] ELSE identity
        /\ dropped' = dropped \cup {s}
    BY <1>3 DEF Release, Releasable
  <1>6. PICK p : p = [old EXCEPT !.at = "failing"]
    OBVIOUS
  <1>7. "failing" \in Confirms /\ "failing" \in Selling /\ "failing" \notin Claiming
    BY DEF Confirms, Selling, WithSale, Claiming
  <1>8. p.at = "failing" /\ p.job = <<"confirm", r>> /\ p.todo = old.todo /\ p.sale = s
    BY <1>2, <1>3, <1>6 DEF Procs
  <1>9. p \in Procs
    BY <1>3, <1>6, <1>7 DEF Procs
  <1>10. ProcOK(p) /\ p.at \notin Fetches
    BY <1>2, <1>3, <1>7, <1>8, <1>9, SellingOK
  <1>11. proc' = [proc EXCEPT ![w] = p]
    BY <1>3, <1>6 DEF Release, Goes
  <1>12. /\ identity' \in [Sales -> {None} \cup Identities] /\ (identity'[s] = None \/ identity'[s] = identity[s])
         /\ Ordered(s) => identity'[s] = identity[s]
         /\ \A t \in Sales : t # s => identity'[t] = identity[t]
    <2>1. Claimed("api").order = None
      BY DEF Claimed
    <2> QED
      BY <1>5, <2>1, SalesTyped DEF Ordered
  <1>13. Met(s)' /\ (Ordered(s) => Ordered(s)') /\ (\A t \in Sales : Met(t) => Met(t)') /\ s \in dropped'
    BY <1>1, <1>5, <1>12 DEF Met, Ordered
  <1>14. SaleOK(s)'
    <2>1. SaleOK(s)
      BY SalesTyped
    <2>2. proc'[w] = p /\ \A v \in Workers : v # w => proc'[v] = proc[v]
      BY <1>11, Execs DEF SalesInv
    <2>3. \A v \in Workers : ~Holds(v, s)'
      BY <1>4, <1>7, <1>8, <2>2 DEF Holds
    <2>4. ~FileHolds(s)' /\ orders'[s] = orders[s]
      BY <1>1, <1>4 DEF FileHolds
    <2>5. orders'[s] \in {0, 1} /\ (orders'[s] = 1 => Ordered(s)')
      BY <1>13, <2>1, <2>4 DEF SaleOK
    <2>6. identity'[s] # None /\ identity'[s].order = "historical" => orders'[s] = 1
      BY <1>12, <2>1, <2>4 DEF SaleOK
    <2> QED
      BY <1>13, <2>3, <2>4, <2>5, <2>6 DEF SaleOK
  <1>15. ProcMet(p)'
    BY <1>1, <1>2, <1>3, <1>7, <1>8, <1>13 DEF ProcMet
  <1>16. previews[r] = 1 => Meets(p, r)'
    BY <1>1, <1>2, <1>3, <1>7, <1>8, <1>13, FoundSales DEF Meets
  <1>17. orders' \in [Sales -> Nat] /\ dropped' \subseteq Sales /\ dropped \subseteq dropped' /\ row' \in [Runs -> [Sales -> Rows]]
         /\ orders' = orders
    BY <1>1, <1>5, SalesTyped, RowsTyped
  <1> QED
    BY <1>1, <1>2, <1>3, <1>8, <1>10, <1>11, <1>12, <1>13, <1>14, <1>15, <1>16, <1>17, SaleStep

LEMMA CreateOrderKeeps ==
  ASSUME SalesInv, NEW w \in Workers, CreateOrder(w)
  PROVE  SalesInv'
  <1>1. /\ UNCHANGED <<world, run, previews, day, linked, jobs, boot, upload, uploads, dropped>>
        /\ proc[w].at = "creating" /\ proc[w].at \in Confirms /\ proc[w].at \in Selling /\ proc[w].at \in Claiming
        /\ proc[w].at \in WithSale
    BY DEF CreateOrder, Confirms, Selling, WithSale, Claiming
  <1>2. PICK r \in Runs : /\ Confirming(proc[w], r) /\ RunOf(w) = r /\ proc[w].job = <<"confirm", r>>
                          /\ proc[w] \in Procs /\ proc[w].todo \subseteq Sales \X Rows /\ ProcMet(proc[w])
                          /\ (previews[r] = 1 => Meets(proc[w], r))
    BY <1>1, ConfirmFacts
  <1>3. PICK old \in Procs, s \in Sales : old = proc[w] /\ s = old.sale
    BY <1>1, <1>2, InHands
  <1>4. /\ identity[s] \in Identities /\ ~FileHolds(s) /\ identity[s] # None /\ orders[s] = 0
        /\ \A v \in Workers : Holds(v, s) => v = w
    BY <1>1, <1>3, InHands
  <1>5. PICK was \in Identities : was = identity[s]
    BY <1>4
  <1>6. PICK new : new = [was EXCEPT !.order = "historical"]
    OBVIOUS
  <1>7. new \in Identities /\ new.order = "historical" /\ new # None /\ "historical" # None
    BY <1>6, NoneAssumption DEF Identities
  <1>8. identity' = [identity EXCEPT ![s] = new]
    BY <1>3, <1>5, <1>6 DEF CreateOrder
  <1>9. /\ identity' \in [Sales -> {None} \cup Identities] /\ identity'[s] = new
        /\ \A t \in Sales : t # s => identity'[t] = identity[t]
    BY <1>7, <1>8, SalesTyped
  <1>10. orders' \in [Sales -> Nat] /\ orders'[s] = 1 /\ \A t \in Sales : t # s => orders'[t] = orders[t]
    <2>1. orders' = [orders EXCEPT ![s] = orders[s] + 1]
      BY <1>3 DEF CreateOrder
    <2> QED
      BY <1>4, <2>1, SalesTyped
  <1>11. PICK row1 \in Rows : row1 = row[r][s]
    BY RowsTyped
  <1>12. PICK c : c = [row1 EXCEPT !.status = "IMPORTED"]
    OBVIOUS
  <1>13. c \in Rows /\ c.status = "IMPORTED"
    BY <1>12 DEF Rows, Statuses
  <1>14. row' = [row EXCEPT ![r][s] = c]
    BY <1>2, <1>3, <1>11, <1>12 DEF CreateOrder, Mark
  <1>15. /\ row' \in [Runs -> [Sales -> Rows]] /\ row'[r][s] = c /\ \A t \in Sales : t # s => row'[r][t] = row[r][t]
         /\ \A q \in Runs : q # r => row'[q] = row[q]
    BY <1>13, <1>14, RowsTyped
  <1>16. Met(s)' /\ Ordered(s)' /\ \A t \in Sales : Met(t) => Met(t)'
    BY <1>1, <1>7, <1>9 DEF Met, Ordered
  <1>17. \A t \in Sales : row'[r][t] = row[r][t] \/ (row'[r][t].status # None /\ RowMet(row[r][t], t)')
    BY <1>13, <1>15, <1>16, NoneAssumption DEF RowMet
  <1>18. \E p \in Procs : /\ proc' = [proc EXCEPT ![w] = p] /\ p.at \in {"sales", "releasing"} /\ p.job = <<"confirm", r>>
                          /\ p.todo = old.todo /\ (p.at = "releasing" => p.sale = s)
    <2>1. CASE Leaves(w, FALSE)
      <3>1. PICK p : p = [old EXCEPT !.at = "sales", !.by = 0, !.sale = None, !.bad = old.bad \/ FALSE]
        OBVIOUS
      <3>2. p.at = "sales" /\ p.job = <<"confirm", r>> /\ p.todo = old.todo /\ "sales" \in Confirms
        BY <1>2, <1>3, <3>1 DEF Procs, Confirms, Selling
      <3>3. (old.bad \/ FALSE) \in BOOLEAN
        BY <1>3 DEF Procs
      <3>4. p \in Procs
        BY <1>3, <3>1, <3>2, <3>3, WorldIs DEF Procs
      <3>5. proc' = [proc EXCEPT ![w] = p]
        BY <1>3, <2>1, <3>1 DEF Leaves
      <3> QED
        BY <3>2, <3>4, <3>5
    <2>2. CASE Goes(w, "releasing")
      <3>1. PICK p : p = [old EXCEPT !.at = "releasing"]
        OBVIOUS
      <3>2. p.at = "releasing" /\ p.job = <<"confirm", r>> /\ p.todo = old.todo /\ p.sale = s /\ "releasing" \in Confirms
        BY <1>2, <1>3, <3>1 DEF Procs, Confirms, Selling, WithSale
      <3>3. p \in Procs
        BY <1>3, <3>1, <3>2 DEF Procs
      <3>4. proc' = [proc EXCEPT ![w] = p]
        BY <1>3, <2>2, <3>1 DEF Goes
      <3> QED
        BY <3>2, <3>3, <3>4
    <2> QED
      BY <2>1, <2>2 DEF CreateOrder
  <1>19. PICK p \in Procs : /\ proc' = [proc EXCEPT ![w] = p] /\ p.at \in {"sales", "releasing"} /\ p.job = <<"confirm", r>>
                            /\ p.todo = old.todo /\ (p.at = "releasing" => p.sale = s)
    BY <1>18
  <1>20. p.at \in Confirms /\ p.at \in Selling /\ (p.at \in WithSale => p.sale = s) /\ (p.at \in Claiming => p.sale = s)
    BY <1>19 DEF Confirms, Selling, WithSale, Claiming
  <1>21. ProcOK(p) /\ p.at \notin Fetches
    BY <1>2, <1>3, <1>19, <1>20, SellingOK
  <1>22. SaleOK(s)'
    <2>1. proc'[w] = p /\ \A v \in Workers : v # w => proc'[v] = proc[v]
      BY <1>19, Execs DEF SalesInv
    <2>2. \A v \in Workers : Holds(v, s)' => v = w
      BY <1>4, <2>1 DEF Holds
    <2>3. ~FileHolds(s)'
      BY <1>1, <1>4 DEF FileHolds
    <2>4. proc'[w].at \notin {"checking", "creating"}
      BY <1>19, <2>1
    <2>5. identity'[s] # None
      BY <1>7, <1>9
    <2> QED
      BY <1>10, <1>16, <2>2, <2>3, <2>4, <2>5 DEF SaleOK
  <1>23. ProcMet(p)'
    BY <1>1, <1>2, <1>3, <1>19, <1>16 DEF ProcMet
  <1>24. previews[r] = 1 => Meets(p, r)'
    BY <1>1, <1>2, <1>3, <1>19, <1>16, FoundSales DEF Meets
  <1>25. dropped' \subseteq Sales /\ dropped \subseteq dropped'
    BY <1>1, SalesTyped
  <1>26. \A t \in Sales : t # s => identity'[t] = identity[t] /\ orders'[t] = orders[t]
    BY <1>9, <1>10
  <1>27. (Met(s) => Met(s)') /\ (Ordered(s) => Ordered(s)')
    BY <1>16
  <1>28. /\ p.at \in Claiming => p.sale = s
         /\ proc[w].at \in Claiming => proc[w].sale = s
         /\ p.at \in Confirms => p.job = <<"confirm", r>>
    BY <1>2, <1>3, <1>19, <1>20
  <1>29. identity' \in [Sales -> {None} \cup Identities] /\ orders' \in [Sales -> Nat]
    BY <1>9, <1>10
  <1>30. row' \in [Runs -> [Sales -> Rows]] /\ \A q \in Runs : q # r => row'[q] = row[q]
    BY <1>15
  <1>31. proc' = [proc EXCEPT ![w] = p]
    BY <1>19
  <1> QED
    BY <1>1, <1>2, <1>17, <1>21, <1>22, <1>23, <1>24, <1>25, <1>26, <1>27, <1>28, <1>29, <1>30, <1>31, SaleStep

----------------------------------------------------------------------------
(* The upload of the file.                                                 *)
LEMMA UploadStep ==
  ASSUME SalesInv, UNCHANGED <<world, run, previews, day, row, linked, jobs, boot, proc>>,
         uploads' \in 0..MaxUploads, identity' \in [Sales -> {None} \cup Identities], orders' \in [Sales -> Nat],
         dropped \subseteq dropped', dropped' \subseteq Sales, UploadOK',
         \A s \in Sales : (Met(s) => Met(s)') /\ (Ordered(s) => Ordered(s)'),
         \A s \in Sales : SaleOK(s)' \/ (identity'[s] = identity[s] /\ orders'[s] = orders[s] /\ (FileHolds(s)' <=> FileHolds(s)))
  PROVE  SalesInv'
  <1>1. ClaimsOK'
    <2>1. SUFFICES ASSUME NEW s \in Sales, identity'[s] = identity[s], orders'[s] = orders[s], (FileHolds(s)' <=> FileHolds(s))
                   PROVE  SaleOK(s)'
      BY DEF ClaimsOK
    <2>2. SaleOK(s)
      BY SalesTyped
    <2>3. Ordered(s)' = Ordered(s) /\ \A w \in Workers : Holds(w, s)' = Holds(w, s)
      BY <2>1 DEF Ordered, Holds
    <2> QED
      BY <2>1, <2>2, <2>3 DEF SaleOK
  <1>2. TypeOK'
    BY DEF SalesInv, TypeOK
  <1>3. RunsOK'
    <2>1. \A r \in Runs : run'[r] = run[r] \/ (run[r] # "FETCHING" /\ run[r] \notin Confirmable /\ run'[r] \notin Confirmable)
      OBVIOUS
    <2> QED
      BY <2>1, RunsStand
  <1>4. ProcsOK' /\ MetOK'
    BY ProcsStand, MetStands
  <1> QED
    BY <1>1, <1>2, <1>3, <1>4 DEF SalesInv

(* The fields of an upload.                                                *)
LEMMA UploadIs ==
  ASSUME SalesInv
  PROVE  /\ upload \in [at : {"idle", "rows", "creating", "undoing"}, seen : SUBSET Sales, todo : SUBSET Sales, sale : Sales \cup {None}]
         /\ upload.at \in {"creating", "undoing"} => upload.sale \in Sales /\ FileHolds(upload.sale)
         /\ \A s \in Sales : FileHolds(s) => upload.sale = s
         /\ NoFile.at = "idle" /\ NoFile \in [at : {"idle", "rows", "creating", "undoing"}, seen : SUBSET Sales, todo : SUBSET Sales, sale : Sales \cup {None}]
         /\ uploads \in 0..MaxUploads /\ MaxUploads \in Nat /\ InFile \subseteq Sales
         /\ identity \in [Sales -> {None} \cup Identities] /\ orders \in [Sales -> Nat] /\ dropped \subseteq Sales
  BY SalesAssumption DEF SalesInv, TypeOK, UploadOK, FileHolds, NoFile

LEMMA StartUploadKeeps ==
  ASSUME SalesInv, StartUpload
  PROVE  SalesInv'
  <1>1. /\ UNCHANGED <<world, run, previews, day, row, identity, orders, linked, jobs, boot, proc, dropped>>
        /\ upload = NoFile /\ uploads < MaxUploads /\ uploads' = uploads + 1
        /\ upload' = [at |-> "rows", seen |-> {s \in InFile : orders[s] > 0}, todo |-> InFile, sale |-> None]
    BY DEF StartUpload
  <1>2. uploads' \in 0..MaxUploads
    BY <1>1, UploadIs
  <1>3. UploadOK' /\ upload'.at = "rows"
    BY <1>1, UploadIs DEF UploadOK
  <1>4. \A s \in Sales : ~FileHolds(s)' /\ ~FileHolds(s)
    BY <1>1, <1>3, UploadIs DEF FileHolds
  <1>5. \A s \in Sales : (Met(s) => Met(s)') /\ (Ordered(s) => Ordered(s)')
    BY <1>1, Lasts
  <1>6. \A s \in Sales : (FileHolds(s)' <=> FileHolds(s))
    BY <1>4
  <1>7. identity' \in [Sales -> {None} \cup Identities] /\ orders' \in [Sales -> Nat] /\ dropped' \subseteq Sales
    BY <1>1, UploadIs
  <1> QED
    BY <1>1, <1>2, <1>3, <1>5, <1>6, <1>7, UploadStep

LEMMA UploadFailsKeeps ==
  ASSUME SalesInv, UploadFails
  PROVE  SalesInv'
  <1>1. /\ UNCHANGED <<world, run, previews, day, row, identity, orders, linked, jobs, boot, proc, uploads, dropped>>
        /\ upload.at = "creating" /\ upload' = [upload EXCEPT !.at = "undoing"]
    BY DEF UploadFails
  <1>2. /\ upload' \in [at : {"idle", "rows", "creating", "undoing"}, seen : SUBSET Sales, todo : SUBSET Sales, sale : Sales \cup {None}]
        /\ upload'.at = "undoing" /\ upload'.sale = upload.sale
    BY <1>1, UploadIs
  <1>3. UploadOK' /\ \A s \in Sales : (FileHolds(s)' <=> FileHolds(s))
    BY <1>1, <1>2, UploadIs DEF UploadOK, FileHolds
  <1>4. \A s \in Sales : (Met(s) => Met(s)') /\ (Ordered(s) => Ordered(s)')
    BY <1>1, Lasts
  <1>5. uploads' \in 0..MaxUploads /\ identity' \in [Sales -> {None} \cup Identities] /\ orders' \in [Sales -> Nat] /\ dropped' \subseteq Sales
    BY <1>1, UploadIs
  <1> QED
    BY <1>1, <1>3, <1>4, <1>5, UploadStep

LEMMA UploadRowKeeps ==
  ASSUME SalesInv, NEW s \in Sales, UploadRow(s)
  PROVE  SalesInv'
  <1>1. /\ UNCHANGED <<world, run, previews, day, row, orders, linked, jobs, boot, proc, uploads, dropped>>
        /\ upload.at = "rows"
    BY DEF UploadRow
  <1>2. PICK claims \in BOOLEAN :
          /\ claims => identity[s] = None
          /\ identity' = IF claims THEN [identity EXCEPT ![s] = Claimed("file")] ELSE identity
          /\ upload' = [upload EXCEPT !.todo = upload.todo \ {s}, !.at = IF claims THEN "creating" ELSE "rows",
                                      !.sale = IF claims THEN s ELSE None]
    <2>1. (s \notin upload.seen /\ identity[s] = None) \in BOOLEAN
      OBVIOUS
    <2> QED
      BY <2>1 DEF UploadRow
  <1>3. /\ upload' \in [at : {"idle", "rows", "creating", "undoing"}, seen : SUBSET Sales, todo : SUBSET Sales, sale : Sales \cup {None}]
        /\ upload'.at = IF claims THEN "creating" ELSE "rows"
        /\ upload'.sale = IF claims THEN s ELSE None
    BY <1>2, UploadIs
  <1>4. UploadOK'
    BY <1>3 DEF UploadOK
  <1>5. \A t \in Sales : ~FileHolds(t) /\ (FileHolds(t)' <=> claims /\ t = s)
    BY <1>1, <1>3 DEF FileHolds
  <1>6. Claimed("file") \in Identities /\ Claimed("file") # None /\ Claimed("file").order = None
    BY NoneAssumption DEF Claimed, Identities
  <1>7. /\ identity' \in [Sales -> {None} \cup Identities]
        /\ \A t \in Sales : t # s \/ ~claims => identity'[t] = identity[t]
        /\ claims => identity'[s] = Claimed("file")
    BY <1>2, <1>6, UploadIs
  <1>8. \A t \in Sales : (Met(t) => Met(t)') /\ (Ordered(t) => Ordered(t)')
    BY <1>1, <1>2, <1>6, <1>7 DEF Met, Ordered
  <1>9. claims => SaleOK(s)'
    <2>1. SUFFICES ASSUME claims PROVE SaleOK(s)'
      OBVIOUS
    <2>2. SaleOK(s) /\ identity[s] = None
      BY <1>2, <2>1, SalesTyped
    <2>3. orders'[s] = 0 /\ \A w \in Workers : ~Holds(w, s)
      BY <1>1, <2>2 DEF SaleOK, Ordered
    <2>4. \A w \in Workers : ~Holds(w, s)'
      BY <1>1, <2>3 DEF Holds
    <2>5. identity'[s] # None /\ identity'[s].order # "historical" /\ FileHolds(s)'
      BY <1>5, <1>6, <1>7, <2>1, NoneAssumption
    <2> QED
      BY <2>3, <2>4, <2>5 DEF SaleOK
  <1>10. \A t \in Sales : SaleOK(t)' \/ (identity'[t] = identity[t] /\ orders'[t] = orders[t] /\ (FileHolds(t)' <=> FileHolds(t)))
    <2>1. SUFFICES ASSUME NEW t \in Sales, t # s \/ ~claims
                   PROVE  identity'[t] = identity[t] /\ orders'[t] = orders[t] /\ (FileHolds(t)' <=> FileHolds(t))
      BY <1>9
    <2>2. ~FileHolds(t) /\ ~FileHolds(t)'
      BY <1>5, <2>1
    <2> QED
      BY <1>1, <1>7, <2>1, <2>2
  <1>11. uploads' \in 0..MaxUploads /\ orders' \in [Sales -> Nat] /\ dropped' \subseteq Sales /\ dropped \subseteq dropped'
    BY <1>1, UploadIs
  <1> QED
    BY <1>1, <1>4, <1>7, <1>8, <1>10, <1>11, UploadStep

LEMMA UploadCreateKeeps ==
  ASSUME SalesInv, UploadCreate
  PROVE  SalesInv'
  <1>1. /\ UNCHANGED <<world, run, previews, day, row, linked, jobs, boot, proc, uploads, dropped>>
        /\ upload.at = "creating"
    BY DEF UploadCreate
  <1>2. PICK s \in Sales : s = upload.sale /\ FileHolds(s) /\ \A t \in Sales : FileHolds(t) => t = s
    BY <1>1, UploadIs
  <1>3. SaleOK(s) /\ identity[s] \in Identities /\ identity[s] # None /\ orders[s] = 0 /\ \A w \in Workers : ~Holds(w, s)
    <2>1. SaleOK(s) /\ (identity[s] # None => identity[s] \in Identities)
      BY SalesTyped
    <2> QED
      BY <1>2, <2>1 DEF SaleOK
  <1>4. PICK was \in Identities : was = identity[s]
    BY <1>3
  <1>5. PICK new : new = [was EXCEPT !.order = "historical"]
    OBVIOUS
  <1>6. new \in Identities /\ new.order = "historical" /\ new # None /\ "historical" # None
    BY <1>5, NoneAssumption DEF Identities
  <1>7. /\ identity' = [identity EXCEPT ![s] = new] /\ orders' = [orders EXCEPT ![s] = orders[s] + 1]
        /\ upload' = [upload EXCEPT !.at = "rows", !.sale = None]
    BY <1>2, <1>3, <1>4, <1>5 DEF UploadCreate
  <1>8. /\ identity' \in [Sales -> {None} \cup Identities] /\ identity'[s] = new
        /\ \A t \in Sales : t # s => identity'[t] = identity[t]
    BY <1>6, <1>7, UploadIs
  <1>9. orders' \in [Sales -> Nat] /\ orders'[s] = 1 /\ \A t \in Sales : t # s => orders'[t] = orders[t]
    BY <1>3, <1>7, UploadIs
  <1>10. /\ upload' \in [at : {"idle", "rows", "creating", "undoing"}, seen : SUBSET Sales, todo : SUBSET Sales, sale : Sales \cup {None}]
         /\ upload'.at = "rows"
    BY <1>7, UploadIs
  <1>11. UploadOK' /\ \A t \in Sales : ~FileHolds(t)'
    BY <1>10 DEF UploadOK, FileHolds
  <1>12. \A t \in Sales : (Met(t) => Met(t)') /\ (Ordered(t) => Ordered(t)')
    BY <1>1, <1>6, <1>8 DEF Met, Ordered
  <1>13. SaleOK(s)'
    <2>1. \A w \in Workers : ~Holds(w, s)'
      BY <1>1, <1>3 DEF Holds
    <2>2. Ordered(s)'
      BY <1>6, <1>8 DEF Ordered
    <2>3. identity'[s] # None /\ ~FileHolds(s)'
      BY <1>6, <1>8, <1>11
    <2> QED
      BY <1>9, <2>1, <2>2, <2>3 DEF SaleOK
  <1>14. \A t \in Sales : SaleOK(t)' \/ (identity'[t] = identity[t] /\ orders'[t] = orders[t] /\ (FileHolds(t)' <=> FileHolds(t)))
    <2>1. SUFFICES ASSUME NEW t \in Sales, t # s
                   PROVE  identity'[t] = identity[t] /\ orders'[t] = orders[t] /\ (FileHolds(t)' <=> FileHolds(t))
      BY <1>13
    <2>2. ~FileHolds(t) /\ ~FileHolds(t)'
      BY <1>2, <1>11, <2>1
    <2> QED
      BY <1>8, <1>9, <2>1, <2>2
  <1>15. uploads' \in 0..MaxUploads /\ dropped' \subseteq Sales /\ dropped \subseteq dropped'
    BY <1>1, UploadIs
  <1> QED
    BY <1>1, <1>8, <1>9, <1>11, <1>12, <1>14, <1>15, UploadStep

(* The upload ends, and gives up the sale it has in its hands.             *)
LEMMA UploadLeavesKeeps ==
  ASSUME SalesInv, UploadUndo \/ EndUpload
  PROVE  SalesInv'
  <1>1. UNCHANGED <<world, run, previews, day, row, orders, linked, jobs, boot, proc, uploads>> /\ upload' = NoFile
    BY DEF UploadUndo, EndUpload
  <1>2. UploadOK' /\ \A s \in Sales : ~FileHolds(s)'
    BY <1>1, UploadIs DEF UploadOK, FileHolds
  <1>3. /\ \A s \in Sales : FileHolds(s) => s \in dropped'
        /\ dropped \subseteq dropped' /\ dropped' \subseteq Sales
    <2>1. CASE UploadUndo
      <3>1. dropped' = dropped \cup {upload.sale} /\ upload.at = "undoing"
        BY <2>1 DEF UploadUndo
      <3> QED
        BY <3>1, UploadIs
    <2>2. CASE EndUpload
      <3>1. dropped' = IF upload.at \in {"creating", "undoing"} THEN dropped \cup {upload.sale} ELSE dropped
        BY <2>2 DEF EndUpload
      <3> QED
        BY <3>1, UploadIs DEF FileHolds
    <2> QED
      BY <2>1, <2>2
  <1>4. /\ identity' \in [Sales -> {None} \cup Identities]
        /\ \A s \in Sales : ~FileHolds(s) => identity'[s] = identity[s]
        /\ \A s \in Sales : identity'[s] = identity[s] \/ (~Ordered(s) /\ identity'[s] = None)
    <2>1. CASE UploadUndo
      <3>1. upload.at = "undoing"
        BY <2>1 DEF UploadUndo
      <3>2. PICK t \in Sales : t = upload.sale /\ FileHolds(t)
        BY <3>1, UploadIs
      <3>3. identity' = IF identity[t] # None /\ identity[t].order = None THEN [identity EXCEPT ![t] = None] ELSE identity
        BY <2>1, <3>2 DEF UploadUndo
      <3> QED
        BY <3>2, <3>3, UploadIs DEF Ordered
    <2>2. CASE EndUpload
      BY <2>2, UploadIs DEF EndUpload
    <2> QED
      BY <2>1, <2>2
  <1>5. \A s \in Sales : (Met(s) => Met(s)') /\ (Ordered(s) => Ordered(s)')
    BY <1>1, <1>3, <1>4 DEF Met, Ordered
  <1>6. ASSUME NEW s \in Sales, FileHolds(s) PROVE SaleOK(s)'
    <2>1. SaleOK(s)
      BY SalesTyped
    <2>2. orders'[s] = 0 /\ s \in dropped' /\ ~FileHolds(s)' /\ \A w \in Workers : ~Holds(w, s)
      BY <1>1, <1>2, <1>3, <1>6, <2>1 DEF SaleOK
    <2>3. \A w \in Workers : ~Holds(w, s)'
      BY <1>1, <2>2 DEF Holds
    <2>4. ~(identity'[s] # None /\ identity'[s].order = "historical")
      BY <1>1, <1>4, <2>1, <2>2 DEF SaleOK
    <2> QED
      BY <2>2, <2>3, <2>4 DEF SaleOK
  <1>7. \A s \in Sales : SaleOK(s)' \/ (identity'[s] = identity[s] /\ orders'[s] = orders[s] /\ (FileHolds(s)' <=> FileHolds(s)))
    BY <1>1, <1>2, <1>4, <1>6
  <1>8. uploads' \in 0..MaxUploads /\ orders' \in [Sales -> Nat]
    BY <1>1, UploadIs
  <1> QED
    BY <1>1, <1>2, <1>3, <1>4, <1>5, <1>7, <1>8, UploadStep

----------------------------------------------------------------------------
(* The invariant holds at first, and every step keeps it.                  *)
LEMMA SalesInit ==
  ASSUME Init
  PROVE  SalesInv
  <1>1. world \in [provider : {"PAGBANK", "IFOOD"}, faults : SUBSET {"process", "lease", "preview", "database"}, runs : SUBSET Runs,
                   previews : Nat] /\ MaxUploads \in Nat
    BY SalesAssumption DEF Init
  <1>2. world.previews \in Nat /\ 0 \in 0..world.previews
    BY <1>1
  <1>3. NoRow = [status |-> None, by |-> 0] /\ Idle = [at |-> "idle", job |-> None, by |-> 0, todo |-> {}, sale |-> None, bad |-> FALSE]
        /\ NoFile = [at |-> "idle", seen |-> {}, todo |-> {}, sale |-> None]
    BY DEF NoRow, Idle, NoFile
  <1>4. Idle \in Procs /\ Idle.at = "idle"
    BY <1>2, <1>3 DEF Procs
  <1>5. ProcsOK /\ \A w \in Workers : proc[w] = Idle
    <2>1. ProcOK(Idle)
      BY <1>4, Places DEF ProcOK
    <2>2. proc = [w \in Workers |-> Idle]
      BY DEF Init
    <2> QED
      BY <1>4, <2>1, <2>2 DEF ProcsOK
  <1>6. TypeOK
    <2>1. NoRow \in [status : {None, "NEW", "DUPLICATE", "IMPORTED", "FAILED"}, by : 0..world.previews]
      BY <1>2, <1>3
    <2>2. row \in [Runs -> [Sales -> [status : {None, "NEW", "DUPLICATE", "IMPORTED", "FAILED"}, by : 0..world.previews]]]
      BY <2>1 DEF Init
    <2> QED
      BY <1>1, <1>2, <1>5, <2>2 DEF TypeOK, Init
  <1>7. UploadOK /\ upload.at = "idle"
    BY <1>3 DEF UploadOK, Init
  <1>8. \A s \in Sales : identity[s] = None /\ orders[s] = 0 /\ ~FileHolds(s) /\ \A w \in Workers : ~Holds(w, s)
    BY <1>4, <1>5, <1>7, Places DEF Init, FileHolds, Holds
  <1>9. ClaimsOK
    BY <1>8 DEF ClaimsOK, SaleOK
  <1>10. MetOK
    <2>1. \A r \in Runs : \A s \in Sales : row[r][s].status = None
      BY <1>3 DEF Init
    <2>2. ProcMet(Idle)
      BY <1>4, Places DEF ProcMet
    <2> QED
      BY <1>5, <2>1, <2>2, NoneAssumption DEF MetOK, RowMet
  <1>11. RunsOK
    <2>1. \A r \in Runs : run[r] = None /\ previews[r] = 0 /\ day[r] # "READY"
      BY NoneAssumption DEF Init
    <2>2. None \notin Confirmable
      BY NoneAssumption DEF Confirmable, Active, Ready
    <2>3. \A r \in Runs : ~Previewing(Idle, r) /\ ~Confirming(Idle, r)
      BY <1>4, Places DEF Previewing, Confirming
    <2>4. ASSUME NEW r \in Runs PROVE RunFits(r)
      <3>1. run[r] \notin Confirmable /\ previews[r] # 1 /\ day[r] # "READY"
        BY <2>1, <2>2
      <3> QED
        BY <3>1 DEF RunFits
    <2>5. \A w \in Workers : \A r \in Runs : ~Previewing(proc[w], r) /\ ~Confirming(proc[w], r)
      BY <1>5, <2>3
    <2>6. \A w \in Workers : \A r \in Runs : PreviewFits(w, r) /\ ConfirmFits(w, r)
      BY <2>5 DEF PreviewFits, ConfirmFits
    <2> QED
      BY <2>4, <2>6 DEF RunsOK
  <1> QED
    BY <1>5, <1>6, <1>7, <1>9, <1>10, <1>11 DEF SalesInv

LEMMA SalesStep ==
  SalesInv /\ [Next]_vars => SalesInv'
  <1> SUFFICES ASSUME SalesInv, [Next]_vars PROVE SalesInv'
    OBVIOUS
  <1>1. ASSUME NEW w \in Workers, Execute(w) PROVE SalesInv'
    <2>1. CASE Fetch(w)
      BY <2>1, FetchKeeps
    <2>2. CASE RecordFails(w) \/ FinishDay(w) \/ CatchDay(w) \/ EndPreview(w)
      BY <2>2, RecordFailsKeeps, FinishDayKeeps, CatchDayKeeps, EndPreviewKeeps
    <2>3. CASE ClaimRun(w)
      BY <2>3, ClaimRunKeeps
    <2>4. CASE List(w)
      BY <2>4, ListKeeps
    <2>5. CASE Attach(w)
      BY <2>5, AttachKeeps
    <2>6. CASE Skip(w)
      BY <2>6, SkipKeeps
    <2>7. CASE Claim(w)
      BY <2>7, ClaimKeeps
    <2>8. CASE MarkMovement(w)
      BY <2>8, MarkKeeps
    <2>9. CASE FindExisting(w) \/ CreateFails(w)
      BY <2>9, HandsOn
    <2>10. CASE CreateOrder(w)
      BY <2>10, CreateOrderKeeps
    <2>11. CASE Release(w)
      BY <2>11, ReleaseKeeps
    <2>12. CASE EndConfirm(w)
      BY <2>12, EndConfirmKeeps
    <2>13. CASE Return(w) \/ Throw(w)
      BY <2>13, LeaveKeeps
    <2> QED
      BY <1>1, <2>1, <2>2, <2>3, <2>4, <2>5, <2>6, <2>7, <2>8, <2>9, <2>10, <2>11, <2>12, <2>13 DEF Execute
  <1>2. ASSUME NEW w \in Workers, Die(w) PROVE SalesInv'
    BY <1>2, LeaveKeeps
  <1>3. ASSUME NEW w \in Workers, NEW s \in Sales, Record(w, s) PROVE SalesInv'
    BY <1>3, RecordKeeps
  <1>4. ASSUME NEW w \in Workers, NEW r \in Runs, StartPreview(w, r) \/ StartConfirm(w, r) PROVE SalesInv'
    BY <1>4, StartPreviewKeeps, StartConfirmKeeps
  <1>5. CASE StartUpload \/ UploadCreate \/ UploadFails \/ UploadUndo \/ EndUpload
    BY <1>5, StartUploadKeeps, UploadCreateKeeps, UploadFailsKeeps, UploadLeavesKeeps
  <1>6. ASSUME NEW s \in Sales, UploadRow(s) PROVE SalesInv'
    BY <1>6, UploadRowKeeps
  <1>7. CASE \/ \E r \in Runs : CheckOverlap(r) \/ CreateRun(r) \/ RequestConfirm(r) \/ BootEnqueue(r)
             \/ BootRead \/ UNCHANGED vars \/ \E s \in Sales : Ingest(s)
    BY <1>7, RequestsKeep
  <1> QED
    BY <1>1, <1>2, <1>3, <1>4, <1>5, <1>6, <1>7 DEF Next

(* One order a sale at most; what is IMPORTED has its order; and what a    *)
(* run that ended without errors lists has one, or somebody still has it.  *)
LEMMA SalesInvSays ==
  SalesInv => ImportSafe
  <1> SUFFICES ASSUME SalesInv PROVE ImportSafe
    OBVIOUS
  <1>1. TypeOK
    BY DEF SalesInv
  <1>2. SaleOnce
    <2>1. SUFFICES ASSUME NEW s \in Sales PROVE orders[s] <= 1
      BY DEF SaleOnce
    <2>2. orders[s] \in {0, 1}
      BY SalesTyped DEF SaleOK
    <2> QED
      BY <2>2
  <1>3. ImportedHasOrder
    <2>1. SUFFICES ASSUME NEW s \in Sales
                   PROVE  /\ (\E r \in Runs : row[r][s].status = "IMPORTED") => Ordered(s)
                          /\ identity[s] # None /\ identity[s].order = "historical" => orders[s] = 1
      BY DEF ImportedHasOrder, Ordered
    <2>2. SaleOK(s) /\ \A r \in Runs : RowMet(row[r][s], s)
      BY DEF SalesInv, ClaimsOK, MetOK
    <2> QED
      BY <2>2 DEF SaleOK, RowMet
  <1>4. NothingSkipped
    <2>1. SUFFICES ASSUME NEW r \in Runs, run[r] = "COMPLETED", day[r] = "READY", previews[r] = 1, NEW s \in Found[r] \ dropped
                   PROVE  \/ orders[s] = 1 \/ s \in linked
                          \/ identity[s] # None /\ (FileHolds(s) \/ \E w \in Workers : Holds(w, s))
      BY DEF NothingSkipped, FileHolds, Holds
    <2>2. s \in Sales /\ Met(s)
      <3>1. RunFits(r) /\ "COMPLETED" \in Confirmable
        BY DEF SalesInv, RunsOK, Confirmable
      <3>2. s \in Due(r) /\ s \in Sales
        BY <2>1, FoundSales DEF Due
      <3> QED
        BY <2>1, <3>1, <3>2 DEF RunFits
    <2>3. SaleOK(s)
      BY <2>2, SalesTyped
    <2> QED
      BY <2>1, <2>2, <2>3 DEF SaleOK, Met
  <1> QED
    BY <1>1, <1>2, <1>3, <1>4 DEF ImportSafe

----------------------------------------------------------------------------
(* Only the end of a confirmation changes a run that completed after one   *)
(* preview.                                                                *)
LEMMA CompletedStep ==
  ASSUME SalesInv, [Next]_vars, NEW r \in Runs, run[r] = "COMPLETED", previews'[r] = 1
  PROVE  run'[r] \in {"COMPLETED", "COMPLETED_WITH_ERRORS"}
  <1>1. run \in [Runs -> Active \cup Ready \cup {None, "checked", "COMPLETED", "FAILED"}] /\ RunFits(r)
        /\ previews \in [Runs -> 0..world.previews]
    BY DEF SalesInv, TypeOK, RunsOK
  <1>2. "COMPLETED" \in Confirmable /\ "COMPLETED" \notin Ready \cup {None, "checked", "FETCHING"}
    BY NoneAssumption DEF Confirmable, Ready
  <1>3. CASE run' = run
    BY <1>3
  <1>4. ASSUME NEW q \in Runs, CheckOverlap(q) \/ CreateRun(q) PROVE run'[r] = "COMPLETED"
    <2>1. q # r /\ \E status : run' = [run EXCEPT ![q] = status]
      BY <1>2, <1>4 DEF CheckOverlap, CreateRun, Become
    <2> QED
      BY <1>1, <2>1
  <1>5. ASSUME NEW w \in Workers, NEW q \in Runs, StartPreview(w, q) PROVE run'[r] = "COMPLETED"
    <2>1. run' = [run EXCEPT ![q] = "FETCHING"] /\ previews' = [previews EXCEPT ![q] = previews[q] + 1]
      BY <1>5 DEF StartPreview, Become
    <2>2. previews[r] # 0 /\ \A t \in Runs : previews[t] \in Nat
      BY <1>1, <1>2, WorldIs DEF RunFits
    <2>3. q # r
      BY <1>1, <2>1, <2>2
    <2> QED
      BY <1>1, <2>1, <2>3
  <1>6. ASSUME NEW w \in Workers, EndPreview(w) PROVE run'[r] = "COMPLETED"
    <2>1. proc[w].at \in Fetches /\ previews' = previews
      BY <1>6, EndsDay DEF EndPreview
    <2>2. PICK q \in Runs : RunOf(w) = q /\ (previews[q] = 1 => run[q] = "FETCHING")
      BY <2>1, PreviewFacts
    <2>3. q # r
      BY <1>2, <2>1, <2>2
    <2>4. run' = run \/ \E status : run' = [run EXCEPT ![q] = status]
      BY <1>6, <2>2 DEF EndPreview, Become
    <2> QED
      BY <1>1, <2>3, <2>4
  <1>7. ASSUME NEW w \in Workers, ClaimRun(w) PROVE run'[r] = "COMPLETED"
    <2>1. PICK q : q = RunOf(w)
      OBVIOUS
    <2>2. run' = run \/ (run[q] \in Ready /\ run' = [run EXCEPT ![q] = "IMPORTING"])
      BY <1>7, <2>1 DEF ClaimRun, Become
    <2>3. run' = run \/ (q # r /\ run' = [run EXCEPT ![q] = "IMPORTING"])
      BY <1>2, <2>2
    <2> QED
      BY <1>1, <2>3
  <1>8. ASSUME NEW w \in Workers, EndConfirm(w) PROVE run'[r] \in {"COMPLETED", "COMPLETED_WITH_ERRORS"}
    <2>1. \E status \in {"COMPLETED", "COMPLETED_WITH_ERRORS"} : run' = [run EXCEPT ![RunOf(w)] = status]
      BY <1>8 DEF EndConfirm, Become
    <2> QED
      BY <1>1, <2>1
  <1>9. \/ run' = run
        \/ \E q \in Runs : CheckOverlap(q) \/ CreateRun(q)
        \/ \E w \in Workers : \/ EndPreview(w) \/ ClaimRun(w) \/ EndConfirm(w)
                              \/ \E q \in Runs : StartPreview(w, q)
    <2>1. ASSUME NEW w \in Workers, Execute(w) PROVE run' = run \/ EndPreview(w) \/ ClaimRun(w) \/ EndConfirm(w)
      BY <2>1 DEF Execute, Fetch, RecordFails, FinishDay, CatchDay, List, Attach, Skip, Claim, MarkMovement, FindExisting, CreateOrder, CreateFails, Release,
                  Return, Throw
    <2>2. ASSUME NEW w \in Workers, Die(w) \/ (\E s \in Sales : Record(w, s)) \/ \E q \in Runs : StartConfirm(w, q)
          PROVE  run' = run
      BY <2>2 DEF Die, Record, StartConfirm
    <2>3. ASSUME \/ \E q \in Runs : RequestConfirm(q) \/ BootEnqueue(q)
                 \/ BootRead \/ StartUpload \/ UploadCreate \/ UploadFails \/ UploadUndo \/ EndUpload
                 \/ \E s \in Sales : Ingest(s) \/ UploadRow(s)
          PROVE  run' = run
      BY <2>3 DEF RequestConfirm, BootEnqueue, BootRead, StartUpload, UploadCreate, UploadFails, UploadUndo, EndUpload,
                  Ingest, UploadRow
    <2>4. UNCHANGED vars => run' = run
      BY DEF vars
    <2> QED
      BY <2>1, <2>2, <2>3, <2>4 DEF Next
  <1> QED
    BY <1>3, <1>4, <1>5, <1>6, <1>7, <1>8, <1>9

(* A sale makes one historical order, whatever runs overlap, are resumed   *)
(* or executed twice, and whatever file is uploaded meanwhile; a movement  *)
(* IMPORTED has its order; and a run that completed has left no sale of a  *)
(* day out that it calls READY.                                            *)
THEOREM ImportsAreSafe == Spec => []ImportSafe
  <1>1. Init => SalesInv
    BY SalesInit
  <1>2. SalesInv /\ [Next]_vars => SalesInv'
    BY SalesStep
  <1>3. SalesInv => ImportSafe
    BY SalesInvSays
  <1> QED
    BY <1>1, <1>2, <1>3, PTL DEF Spec

(* A run that completed is neither fetched nor imported again, unless its  *)
(* preview is executed again.                                              *)
THEOREM CompletedRunsStay == Spec => CompletedStays
  <1>1. Init => SalesInv
    BY SalesInit
  <1>2. SalesInv /\ [Next]_vars => SalesInv'
    BY SalesStep
  <1>3. SalesInv /\ [Next]_vars =>
          [\A r \in Runs : run[r] = "COMPLETED" /\ previews'[r] = 1 =>
             run'[r] \in {"COMPLETED", "COMPLETED_WITH_ERRORS"}]_vars
    BY CompletedStep
  <1> QED
    BY <1>1, <1>2, <1>3, PTL DEF Spec, CompletedStays
================================================================================
