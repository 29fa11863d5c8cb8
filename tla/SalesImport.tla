------------------------------ MODULE SalesImport ------------------------------
(***************************************************************************)
(* The import of a provider's sales as historical orders                   *)
(* (management/sales-integrations, ordering/historical-order-import): runs *)
(* that list the sales of a period (SalesImportPreviewService) and, once   *)
(* confirmed, create their orders (SalesImportConfirmationService), on     *)
(* workers of the job queue; and the upload of a PagBank file with the     *)
(* same sales.  ExternalSaleIdentity decides who creates an order.         *)
(***************************************************************************)
EXTENDS Naturals

CONSTANTS
  Runs, Sales, Workers, None,
  Found,        \* [Runs -> SUBSET Sales]: what the provider lists for a run
  Overlaps,     \* [Runs -> SUBSET Runs]: runs whose periods overlap
  InFile,       \* SUBSET Sales: the rows of the file
  Worlds,       \* set of [provider, faults, runs, previews]: what a behaviour may meet
  MaxUploads    \* bound: uploads of the file

ASSUME SalesAssumption ==
  /\ Found \in [Runs -> SUBSET Sales] /\ Overlaps \in [Runs -> SUBSET Runs] /\ InFile \subseteq Sales
  /\ Worlds \subseteq [provider : {"PAGBANK", "IFOOD"}, faults : SUBSET {"process", "lease", "preview", "database"},
                       runs : SUBSET Runs, previews : Nat]
  /\ MaxUploads \in Nat /\ None \notin Runs \cup Sales \cup Workers

VARIABLES
  world,    \* the provider of the integration, the faults that occur, the runs that are
            \* requested, and the bound on the executions of one preview
  run,      \* [Runs -> status of the sales_import_runs row; "checked" before it]
  previews, \* [Runs -> executions of its preview that started]
  day,      \* [Runs -> status of the sales_import_days row of its one day; FAILED also when it
            \* is blocked]
  row,      \* [Runs -> [Sales -> [status, by]]]: external_sales_movements; by: the preview that wrote it
  identity, \* [Sales -> [channel, order]]: external_sale_identities
  orders,   \* [Sales -> historical orders created]
  linked,   \* sales that arrived as an operational iFood order (platform_order_links)
  jobs,     \* live jobs <<kind, run>>: one per active key
  boot,     \* what enqueueRecoverableRuns of a starting process has read
  proc,     \* [Workers -> [at, job, by, todo, sale, bad]]: executions
  upload,   \* [at, seen, todo, sale]: the upload of the file
  uploads,
  dropped   \* history: the sales of which a claim was given back or orphaned

vars == <<world, run, previews, day, row, identity, orders, linked, jobs, boot, proc, upload, uploads, dropped>>

Ready   == {"PREVIEW_READY", "PARTIALLY_READY", "COMPLETED_WITH_ERRORS"}
Active  == {"PENDING", "FETCHING", "IMPORTING"}
Identities == [channel : {"api", "file"}, order : {None, "historical", "operational"}]

\* NULL is no status, no kind of an order and no identity.
ASSUME NoneAssumption ==
  /\ None \notin Active \cup Ready \cup {"checked", "COMPLETED", "FAILED", "NEW", "DUPLICATE", "IMPORTED", "READY"}
  /\ None \notin {"historical", "operational"} \cup Identities

NoRow   == [status |-> None, by |-> 0]
Idle    == [at |-> "idle", job |-> None, by |-> 0, todo |-> {}, sale |-> None, bad |-> FALSE]
NoFile  == [at |-> "idle", seen |-> {}, todo |-> {}, sale |-> None]
Claiming == {"checking", "creating", "releasing"}
Fails(fault) == fault \in world.faults
Claimed(channel) == [channel |-> channel, order |-> None]

Init ==
  /\ world \in Worlds
  /\ run = [r \in Runs |-> None] /\ previews = [r \in Runs |-> 0] /\ day = [r \in Runs |-> None]
  /\ row = [r \in Runs |-> [s \in Sales |-> NoRow]]
  /\ identity = [s \in Sales |-> None] /\ orders = [s \in Sales |-> 0] /\ linked = {}
  /\ jobs = {} /\ boot = [r \in Runs |-> None]
  /\ proc = [w \in Workers |-> Idle]
  /\ upload = NoFile /\ uploads = 0 /\ dropped = {}

----------------------------------------------------------------------------
(* Requests, and the boot of a process.                                    *)

Become(r, status) == run' = [run EXCEPT ![r] = status]
Enqueue(kind, r)  == jobs' = jobs \cup {<<kind, r>>}

(* SalesImportPreviewService.create: the overlap is read before the run    *)
(* is inserted.                                                            *)
CheckOverlap(r) ==
  /\ r \in world.runs /\ run[r] = None /\ \A q \in Overlaps[r] : run[q] \notin Active
  /\ Become(r, "checked")
  /\ UNCHANGED <<world, previews, day, row, identity, orders, linked, jobs, boot, proc, upload, uploads, dropped>>

CreateRun(r) ==
  /\ run[r] = "checked" /\ Become(r, "PENDING")
  /\ Enqueue("preview", r) \/ (Fails("process") /\ UNCHANGED jobs)
  /\ UNCHANGED <<world, previews, day, row, identity, orders, linked, boot, proc, upload, uploads, dropped>>

(* The confirmation of any run is accepted; the job decides.               *)
RequestConfirm(r) ==
  /\ run[r] \in Active \cup Ready /\ Enqueue("confirm", r)
  /\ UNCHANGED <<world, run, previews, day, row, identity, orders, linked, boot, proc, upload, uploads, dropped>>

BootRead ==
  /\ boot = [r \in Runs |-> None] /\ \E r \in Runs : run[r] \in Active
  /\ boot' = [r \in Runs |-> IF run[r] \in Active THEN run[r] ELSE None]
  /\ UNCHANGED <<world, run, previews, day, row, identity, orders, linked, jobs, proc, upload, uploads, dropped>>

BootEnqueue(r) ==
  /\ boot[r] # None
  /\ Enqueue(IF boot[r] = "IMPORTING" THEN "confirm" ELSE "preview", r)
  /\ boot' = [boot EXCEPT ![r] = None]
  /\ UNCHANGED <<world, run, previews, day, row, identity, orders, linked, proc, upload, uploads, dropped>>

(* The order of a sale arrives from iFood itself.                          *)
Ingest(s) ==
  /\ world.provider = "IFOOD" /\ linked' = linked \cup {s}
  /\ UNCHANGED <<world, run, previews, day, row, identity, orders, jobs, boot, proc, upload, uploads, dropped>>

----------------------------------------------------------------------------
(* Executions of jobs; one that is in progress is started again only when  *)
(* its lease ran out.                                                      *)

Kind(w)  == proc[w].job[1]
RunOf(w) == proc[w].job[2]
Goes(w, where) == proc' = [proc EXCEPT ![w] = [@ EXCEPT !.at = where]]
Ends(w, where) == proc' = [proc EXCEPT ![w] = [Idle EXCEPT !.at = where, !.job = proc[w].job]]

StartPreview(w, r) ==
  /\ proc[w] = Idle /\ <<"preview", r>> \in jobs /\ previews[r] < world.previews
  /\ Fails("lease") \/ \A v \in Workers : proc[v].job # <<"preview", r>>
  /\ Become(r, "FETCHING")
  /\ previews' = [previews EXCEPT ![r] = @ + 1]
  /\ proc' = [proc EXCEPT ![w] = [Idle EXCEPT !.at = "fetching", !.job = <<"preview", r>>, !.by = previews[r] + 1]]
  /\ UNCHANGED <<world, day, row, identity, orders, linked, jobs, boot, upload, uploads, dropped>>

(* Bound: periods of one day.  It is fetched and what an earlier preview   *)
(* recorded of it deleted, or it is blocked or its fetch fails, or the     *)
(* credential is missing.  A day that has been fetched counts as ready.    *)
DayIs(r, status) == day' = [day EXCEPT ![r] = status]

Fetch(w) ==
  /\ proc[w].at = "fetching"
  /\ \/ /\ row' = [row EXCEPT ![RunOf(w)] = [s \in Sales |-> NoRow]]
        /\ DayIs(RunOf(w), "FETCHING")
        /\ proc' = [proc EXCEPT ![w] = [@ EXCEPT !.at = "recording", !.todo = Found[RunOf(w)]]]
     \/ DayIs(RunOf(w), "FAILED") /\ Goes(w, "blocked") /\ UNCHANGED row
     \/ Ends(w, "throwing") /\ UNCHANGED <<day, row>>
  /\ UNCHANGED <<world, run, previews, identity, orders, linked, jobs, boot, upload, uploads, dropped>>

(* A movement that the run has already is refused by the database.         *)
Record(w, s) ==
  LET r == RunOf(w) IN
  /\ proc[w].at = "recording" /\ s \in proc[w].todo /\ row[r][s] = NoRow
  /\ row' = [row EXCEPT ![r][s] = [status |-> IF identity[s] = None THEN "NEW" ELSE "DUPLICATE",
                                   by     |-> proc[w].by]]
  /\ proc' = [proc EXCEPT ![w].todo = @ \ {s}]
  /\ UNCHANGED <<world, run, previews, day, identity, orders, linked, jobs, boot, upload, uploads, dropped>>

(* A statement of the day throws: what is recorded of it stays.            *)
RecordFails(w) ==
  /\ proc[w].at = "recording"
  /\ Fails("preview") \/ \E s \in proc[w].todo : row[RunOf(w)][s] # NoRow
  /\ Goes(w, "catching")
  /\ UNCHANGED <<world, run, previews, day, row, identity, orders, linked, jobs, boot, upload, uploads, dropped>>

FinishDay(w) ==
  /\ proc[w].at = "recording" /\ proc[w].todo = {}
  /\ DayIs(RunOf(w), "READY") /\ Goes(w, "ready")
  /\ UNCHANGED <<world, run, previews, row, identity, orders, linked, jobs, boot, upload, uploads, dropped>>

(* The catch of a day writes FAILED, or throws itself; the day has been    *)
(* counted as ready and is now counted as blocked too.                     *)
CatchDay(w) ==
  /\ proc[w].at = "catching"
  /\ \/ DayIs(RunOf(w), "FAILED") /\ Goes(w, "partial")
     \/ Fails("preview") /\ UNCHANGED day /\ Ends(w, "throwing")
  /\ UNCHANGED <<world, run, previews, row, identity, orders, linked, jobs, boot, upload, uploads, dropped>>

Outcome == [ready |-> "PREVIEW_READY", partial |-> "PARTIALLY_READY", blocked |-> "FAILED"]

EndPreview(w) ==
  /\ proc[w].at \in DOMAIN Outcome
  /\ \/ Become(RunOf(w), Outcome[proc[w].at]) /\ Ends(w, "returned")
     \/ Fails("preview") /\ UNCHANGED run /\ Ends(w, "throwing")
  /\ UNCHANGED <<world, previews, day, row, identity, orders, linked, jobs, boot, upload, uploads, dropped>>

(* SalesImportConfirmationService.confirm, with resume.                    *)
StartConfirm(w, r) ==
  /\ proc[w] = Idle /\ <<"confirm", r>> \in jobs
  /\ Fails("lease") \/ \A v \in Workers : proc[v].job # <<"confirm", r>>
  /\ proc' = [proc EXCEPT ![w] = [Idle EXCEPT !.job = <<"confirm", r>>,
       !.at = IF run[r] = "COMPLETED" THEN "returned" ELSE IF run[r] = "IMPORTING" THEN "listing"
              ELSE IF run[r] \in Ready THEN "claiming" ELSE "throwing"]]
  /\ UNCHANGED <<world, run, previews, day, row, identity, orders, linked, jobs, boot, upload, uploads, dropped>>

ClaimRunMut(w) ==
  /\ proc[w].at = "claiming" /\ Become(RunOf(w), "IMPORTING") /\ Goes(w, "listing")
  /\ UNCHANGED <<world, previews, day, row, identity, orders, linked, jobs, boot, upload, uploads, dropped>>

ClaimRun(w) ==
  /\ proc[w].at = "claiming"
  /\ IF run[RunOf(w)] \in Ready THEN Become(RunOf(w), "IMPORTING") /\ Goes(w, "listing")
                                ELSE UNCHANGED run /\ Ends(w, "returned")
  /\ UNCHANGED <<world, previews, day, row, identity, orders, linked, jobs, boot, upload, uploads, dropped>>

(* The movements, with the status they have now.                           *)
List(w) ==
  LET r == RunOf(w) IN
  /\ proc[w].at = "listing"
  /\ proc' = [proc EXCEPT ![w] = [@ EXCEPT !.at = "sales",
       !.todo = {<<s, row[r][s]>> : s \in {t \in Sales : row[r][t].status \in {"NEW", "FAILED", "DUPLICATE"}}}]]
  /\ UNCHANGED <<world, run, previews, day, row, identity, orders, linked, jobs, boot, upload, uploads, dropped>>

Leaves(w, failed) ==
  proc' = [proc EXCEPT ![w] = [@ EXCEPT !.at = "sales", !.by = 0, !.sale = None, !.bad = proc[w].bad \/ failed]]
Take(w, m, where) ==
  proc' = [proc EXCEPT ![w] = [@ EXCEPT !.at = where, !.todo = proc[w].todo \ {m}, !.by = m[2].by, !.sale = m[1]]]
Written(w) == row[RunOf(w)][proc[w].sale].by = proc[w].by
Mark(w, status) == row' = [row EXCEPT ![RunOf(w)][proc[w].sale] = [@ EXCEPT !.status = status]]

(* The order of iFood itself, if it has arrived, is the order of the sale; *)
(* a movement that was a duplicate only refreshes the order's amounts.     *)
Attach(w) ==
  \E m \in proc[w].todo :
    /\ proc[w].at = "sales" /\ world.provider = "IFOOD" /\ m[1] \in linked
    /\ identity' = [identity EXCEPT ![m[1]] = [channel |-> IF @ = None THEN "api" ELSE @.channel, order |-> "operational"]]
    /\ Take(w, m, "attached")
    /\ UNCHANGED <<world, run, previews, day, row, orders, linked, jobs, boot, upload, uploads, dropped>>

Skip(w) ==
  \E m \in proc[w].todo :
    /\ proc[w].at = "sales" /\ m[1] \notin linked /\ m[2].status = "DUPLICATE"
    /\ proc' = [proc EXCEPT ![w].todo = @ \ {m}]
    /\ UNCHANGED <<world, run, previews, day, row, identity, orders, linked, jobs, boot, upload, uploads, dropped>>

Claim(w) ==
  \E m \in proc[w].todo :
    /\ proc[w].at = "sales" /\ m[1] \notin linked /\ m[2].status # "DUPLICATE"
    /\ IF identity[m[1]] = None
       THEN identity' = [identity EXCEPT ![m[1]] = Claimed("api")] /\ Take(w, m, "checking")
       ELSE UNCHANGED identity /\ Take(w, m, "duplicate")
    /\ UNCHANGED <<world, run, previews, day, row, orders, linked, jobs, boot, upload, uploads, dropped>>

(* An update of a movement that was deleted meanwhile throws.              *)
MarkMovement(w) ==
  /\ proc[w].at \in {"attached", "duplicate", "failing"}
  /\ IF Written(w)
     THEN /\ Mark(w, CASE proc[w].at = "attached" -> "IMPORTED" [] proc[w].at = "duplicate" -> "DUPLICATE" [] OTHER -> "FAILED")
          /\ Leaves(w, proc[w].at = "failing")
     ELSE UNCHANGED row /\ Ends(w, "throwing")
  /\ UNCHANGED <<world, run, previews, day, identity, orders, linked, jobs, boot, upload, uploads, dropped>>

(* HistoricalOrderImportService.importRows: a row whose order exists is    *)
(* skipped, which confirm takes for a failure.                             *)
FindExisting(w) ==
  /\ proc[w].at = "checking"
  /\ Goes(w, IF orders[proc[w].sale] > 0 THEN "releasing" ELSE "creating")
  /\ UNCHANGED <<world, run, previews, day, row, identity, orders, linked, jobs, boot, upload, uploads, dropped>>

(* One transaction: the order, linkOrder, the movement.                    *)
CreateOrder(w) ==
  LET s == proc[w].sale IN
  /\ proc[w].at = "creating" /\ identity[s] # None /\ Written(w)
  /\ orders' = [orders EXCEPT ![s] = @ + 1]
  /\ identity' = [identity EXCEPT ![s].order = "historical"]
  /\ Mark(w, "IMPORTED")
  /\ Leaves(w, FALSE) \/ (Fails("database") /\ Goes(w, "releasing"))
  /\ UNCHANGED <<world, run, previews, day, linked, jobs, boot, upload, uploads, dropped>>

CreateFails(w) ==
  /\ proc[w].at = "creating"
  /\ Fails("database") \/ identity[proc[w].sale] = None \/ ~Written(w)
  /\ Goes(w, "releasing")
  /\ UNCHANGED <<world, run, previews, day, row, identity, orders, linked, jobs, boot, upload, uploads, dropped>>

(* ExternalSaleIdentityService.release: claims of the integration that     *)
(* have no order.                                                          *)
ReleasableMut(s) == identity[s] # None /\ identity[s].channel = "api"
Releasable(s) == identity[s] = Claimed("api")

Release(w) ==
  LET s == proc[w].sale IN
  /\ proc[w].at = "releasing" /\ Goes(w, "failing")
  /\ identity' = IF Releasable(s) THEN [identity EXCEPT ![s] = None] ELSE identity
  /\ dropped' = dropped \cup {s}
  /\ UNCHANGED <<world, run, previews, day, row, orders, linked, jobs, boot, upload, uploads>>

(* The run is ended whatever its status has become.                        *)
EndConfirm(w) ==
  /\ proc[w].at = "sales" /\ proc[w].todo = {}
  /\ Become(RunOf(w), IF proc[w].bad THEN "COMPLETED_WITH_ERRORS" ELSE "COMPLETED")
  /\ Ends(w, "returned")
  /\ UNCHANGED <<world, previews, day, row, identity, orders, linked, jobs, boot, upload, uploads, dropped>>

Leave(w) == proc' = [proc EXCEPT ![w] = Idle]

Return(w) ==
  /\ proc[w].at = "returned" /\ Leave(w) /\ jobs' = jobs \ {proc[w].job}
  /\ UNCHANGED <<world, run, previews, day, row, identity, orders, linked, boot, upload, uploads, dropped>>

(* The job is tried again, or has no attempt left.                         *)
Throw(w) ==
  /\ proc[w].at = "throwing" /\ Leave(w)
  /\ jobs' \in {jobs, jobs \ {proc[w].job}}
  /\ UNCHANGED <<world, run, previews, day, row, identity, orders, linked, boot, upload, uploads, dropped>>

Die(w) ==
  /\ Fails("process") /\ proc[w] # Idle /\ Leave(w)
  /\ dropped' = IF proc[w].at \in Claiming THEN dropped \cup {proc[w].sale} ELSE dropped
  /\ UNCHANGED <<world, run, previews, day, row, identity, orders, linked, jobs, boot, upload, uploads>>

----------------------------------------------------------------------------
(* importFromCsv of a PagBank file: one request, row by row.               *)

StartUpload ==
  /\ world.provider = "PAGBANK" /\ upload = NoFile /\ uploads < MaxUploads /\ uploads' = uploads + 1
  /\ upload' = [at |-> "rows", seen |-> {s \in InFile : orders[s] > 0}, todo |-> InFile, sale |-> None]
  /\ UNCHANGED <<world, run, previews, day, row, identity, orders, linked, jobs, boot, proc, dropped>>

UploadRow(s) ==
  LET claims == s \notin upload.seen /\ identity[s] = None IN
  /\ upload.at = "rows" /\ s \in upload.todo
  /\ identity' = IF claims THEN [identity EXCEPT ![s] = Claimed("file")] ELSE identity
  /\ upload' = [upload EXCEPT !.todo = @ \ {s}, !.at = IF claims THEN "creating" ELSE "rows", !.sale = IF claims THEN s ELSE None]
  /\ UNCHANGED <<world, run, previews, day, row, orders, linked, jobs, boot, proc, uploads, dropped>>

UploadCreate ==
  LET s == upload.sale IN
  /\ upload.at = "creating"
  /\ IF identity[s] # None
     THEN /\ orders' = [orders EXCEPT ![s] = @ + 1]
          /\ identity' = [identity EXCEPT ![s].order = "historical"]
          /\ upload' = [upload EXCEPT !.at = "rows", !.sale = None]
     ELSE upload' = [upload EXCEPT !.at = "undoing"] /\ UNCHANGED <<orders, identity>>
  /\ UNCHANGED <<world, run, previews, day, row, linked, jobs, boot, proc, uploads, dropped>>

UploadFails ==
  /\ upload.at = "creating" /\ Fails("database")
  /\ upload' = [upload EXCEPT !.at = "undoing"]
  /\ UNCHANGED <<world, run, previews, day, row, identity, orders, linked, jobs, boot, proc, uploads, dropped>>

(* Whoever's claim it is, one without an order goes, and the upload ends.  *)
UploadUndo ==
  LET s == upload.sale IN
  /\ upload.at = "undoing" /\ upload' = NoFile
  /\ identity' = IF identity[s] # None /\ identity[s].order = None THEN [identity EXCEPT ![s] = None] ELSE identity
  /\ dropped' = dropped \cup {s}
  /\ UNCHANGED <<world, run, previews, day, row, orders, linked, jobs, boot, proc, uploads>>

EndUpload ==
  /\ upload # NoFile
  /\ (upload.at = "rows" /\ upload.todo = {}) \/ Fails("process")
  /\ upload' = NoFile
  /\ dropped' = IF upload.at \in {"creating", "undoing"} THEN dropped \cup {upload.sale} ELSE dropped
  /\ UNCHANGED <<world, run, previews, day, row, identity, orders, linked, jobs, boot, proc, uploads>>

Execute(w) ==
  \/ Fetch(w) \/ RecordFails(w) \/ FinishDay(w) \/ CatchDay(w) \/ EndPreview(w) \/ ClaimRun(w) \/ List(w) \/ Attach(w) \/ Skip(w) \/ Claim(w) \/ MarkMovement(w)
  \/ FindExisting(w) \/ CreateOrder(w) \/ CreateFails(w) \/ Release(w) \/ EndConfirm(w) \/ Return(w) \/ Throw(w)

Next ==
  \/ \E r \in Runs : CheckOverlap(r) \/ CreateRun(r) \/ RequestConfirm(r) \/ BootEnqueue(r)
  \/ BootRead \/ StartUpload \/ UploadCreate \/ UploadFails \/ UploadUndo \/ EndUpload
  \/ \E s \in Sales : Ingest(s) \/ UploadRow(s)
  \/ \E w \in Workers :
       \/ Execute(w) \/ Die(w)
       \/ \E s \in Sales : Record(w, s)
       \/ \E r \in Runs : StartPreview(w, r) \/ StartConfirm(w, r)

Spec == Init /\ [][Next]_vars

----------------------------------------------------------------------------
TypeOK ==
  /\ run \in [Runs -> Active \cup Ready \cup {None, "checked", "COMPLETED", "FAILED"}]
  /\ day \in [Runs -> {None, "FETCHING", "READY", "FAILED"}]
  /\ world \in Worlds /\ previews \in [Runs -> 0..world.previews]
  /\ uploads \in 0..MaxUploads
  /\ row \in [Runs -> [Sales -> [status : {None, "NEW", "DUPLICATE", "IMPORTED", "FAILED"}, by : 0..world.previews]]]
  /\ identity \in [Sales -> {None} \cup Identities]
  /\ orders \in [Sales -> Nat] /\ linked \subseteq Sales /\ dropped \subseteq Sales
  /\ jobs \subseteq {"preview", "confirm"} \X Runs
  /\ boot \in [Runs -> {None} \cup Active]
  /\ \A w \in Workers : proc[w] # Idle => proc[w].job \in {"preview", "confirm"} \X Runs

(* One sale makes one historical order, whatever runs overlap, resume or   *)
(* are executed twice, and whatever file is uploaded meanwhile.            *)
SaleOnce == \A s \in Sales : orders[s] <= 1

(* What says that a sale has its order is right: a movement IMPORTED has   *)
(* an identity with an order, and that order exists.                       *)
ImportedHasOrder ==
  \A s \in Sales :
    /\ (\E r \in Runs : row[r][s].status = "IMPORTED") => identity[s] # None /\ identity[s].order # None
    /\ identity[s] # None /\ identity[s].order = "historical" => orders[s] = 1

(* A run that has ended without errors has left no sale of a day it calls  *)
(* READY without an order, unless the sale is still in another's hands, or *)
(* its claim was given back or orphaned, or the preview was executed       *)
(* twice.  Of a day that FAILED while it was recorded it may have left     *)
(* out any sale, and is COMPLETED all the same.                            *)
NothingSkipped ==
  \A r \in Runs : run[r] = "COMPLETED" /\ day[r] = "READY" /\ previews[r] = 1 =>
    \A s \in Found[r] \ dropped :
      \/ orders[s] = 1 \/ s \in linked
      \/ identity[s] # None /\ \/ upload.at \in {"creating", "undoing"} /\ upload.sale = s
                               \/ \E w \in Workers : proc[w].at \in Claiming /\ proc[w].sale = s

(* Movements, identities and orders agree, and none is missing.            *)
ImportSafe == TypeOK /\ SaleOnce /\ ImportedHasOrder /\ NothingSkipped

(* A run that has completed is not fetched or imported again unless its    *)
(* preview is executed again; only another execution of the same           *)
(* confirmation that was still under way may add that it had errors.       *)
CompletedStays ==
  [][\A r \in Runs : run[r] = "COMPLETED" /\ previews'[r] = 1 =>
       run'[r] \in {"COMPLETED", "COMPLETED_WITH_ERRORS"}]_vars
================================================================================
