-------------------------------- MODULE CsvSales --------------------------------
(***************************************************************************)
(* HistoricalOrderImportService.importFromCsv: files of past sales, in one *)
(* of three layouts, become delivered orders.  An upload is one request:   *)
(* it parses the file, reads which rows are orders already, and creates    *)
(* the others one transaction at a time.  Requests overlap, fail in the    *)
(* middle, and are sent again; orders are edited and removed meanwhile     *)
(* (ordering/order-maintenance).                                           *)
(***************************************************************************)
EXTENDS Naturals, Sequences, FiniteSets

CONSTANTS
  Uploads,    \* requests
  Files,      \* set of files: sequences of [what, id, text]; what: "sale", "other" or "bad"
  Layouts,    \* those of the requests
  NoId,
  EditBound   \* bound: orders edited or removed

ASSUME CsvAssumption ==
  /\ \A f \in Files : f \in Seq([what : {"sale", "other", "bad"}, id : {f[i].id : i \in DOMAIN f}, text : {f[i].text : i \in DOMAIN f}])
  /\ Layouts \subseteq {"SIMPLE", "MERCADO_PAGO", "PAGBANK"} /\ EditBound \in Nat

VARIABLES
  imports,   \* [Uploads -> [at, layout, file, rows, known, row]]; rows: those not handled yet
  sold,      \* the orders created: [by, key, id, noted, idNow, live]; noted: the notes still hold the key
  saleClaims,\* [PagBank ids claimed -> BOOLEAN]: external_sale_identities; TRUE: it has its order
  beside,    \* history [Uploads -> SUBSET Uploads]: uploads in progress at one time with it
  loose,     \* history: ids of which a claim was given back, or left without its holder
  edits

csvVars == <<imports, sold, saleClaims, beside, loose, edits>>

Waiting       == [at |-> "new", layout |-> NoId, file |-> <<>>, rows |-> <<>>, known |-> {}]
OnRow(u)      == Head(imports[u].rows)
InProgress(u) == imports[u].at \in {"rows", "creating", "undoing"}
Reaches(u, at) == imports' = [imports EXCEPT ![u].at = at]
NextRow(u, keys) == imports' = [imports EXCEPT ![u].at = "rows", ![u].rows = Tail(@), ![u].known = @ \cup keys]
Identified(u) == imports[u].layout = "PAGBANK"

CsvInit ==
  /\ imports = [u \in Uploads |-> Waiting]
  /\ sold = {} /\ saleClaims = <<>> /\ loose = {} /\ edits = 0
  /\ beside = [u \in Uploads |-> {}]

----------------------------------------------------------------------------
(* parseCsv: the key of a row identifies it in later files.                *)

\* The number of the line is part of the key: two equal sales are two rows.
SimpleRow(n, line)      == [key |-> <<"SIMPLE", n, line.text>>, id |-> NoId]
MercadoPagoRow(n, line) == [key |-> <<"MERCADO_PAGO", line.id>>, id |-> line.id]
PagBankRow(n, line)     == [key |-> <<"PAGBANK", line.id>>, id |-> line.id]

ParseLine(layout, n, line) ==
  CASE layout = "MERCADO_PAGO" -> MercadoPagoRow(n, line)
    [] layout = "PAGBANK" -> PagBankRow(n, line)
    [] OTHER -> SimpleRow(n, line)

\* A line that is no sale is left out, but counted; the first line is the header.
SaleLines(file)   == {i \in DOMAIN file : file[i].what = "sale"}
SaleLine(file, k) == CHOOSE i \in SaleLines(file) : Cardinality({j \in SaleLines(file) : j <= i}) = k

ParseCsv(layout, file) ==
  [k \in 1..Cardinality(SaleLines(file)) |->
     LET i == SaleLine(file, k) IN ParseLine(layout, i + 1, file[i])]

\* One line that cannot be read refuses the file.
Unreadable(file) == \E i \in DOMAIN file : file[i].what = "bad"

\* findExistingRows: by the key in the notes, or by the id of any provider; removed orders too.
Existing(rows) ==
  {row.key : row \in {r \in rows : \E o \in sold : (o.noted /\ o.key = r.key) \/ (r.id # NoId /\ o.idNow = r.id)}}

----------------------------------------------------------------------------
Upload(u, layout, file) ==
  LET rows == ParseCsv(layout, file) IN
  /\ imports[u] = Waiting
  /\ imports' = [imports EXCEPT ![u] = [at |-> IF Unreadable(file) \/ rows = <<>> THEN "refused" ELSE "rows",
       layout |-> layout, file |-> file, rows |-> rows, known |-> Existing({rows[i] : i \in DOMAIN rows})]]
  /\ LET others == {v \in Uploads : InProgress(v)}
     IN  beside' = [v \in Uploads |-> IF v = u THEN others ELSE IF v \in others THEN beside[v] \cup {u} ELSE beside[v]]
  /\ UNCHANGED <<sold, saleClaims, loose, edits>>

SkipRow(u) ==
  /\ imports[u].at = "rows" /\ imports[u].rows # <<>> /\ OnRow(u).key \in imports[u].known
  /\ NextRow(u, {})
  /\ UNCHANGED <<sold, saleClaims, beside, loose, edits>>

ClaimRowMut(u) ==
  /\ imports[u].at = "rows" /\ imports[u].rows # <<>> /\ OnRow(u).key \notin imports[u].known
  /\ saleClaims' = IF Identified(u) THEN [i \in DOMAIN saleClaims \cup {OnRow(u).id} |-> FALSE] ELSE saleClaims
  /\ Reaches(u, "creating")
  /\ UNCHANGED <<sold, beside, loose, edits>>

\* Only a PagBank sale is claimed; one that has been claimed is skipped.
ClaimRow(u) ==
  LET id == OnRow(u).id IN
  /\ imports[u].at = "rows" /\ imports[u].rows # <<>> /\ OnRow(u).key \notin imports[u].known
  /\ IF Identified(u) /\ id \in DOMAIN saleClaims THEN NextRow(u, {}) /\ UNCHANGED saleClaims
     ELSE /\ Reaches(u, "creating")
          /\ saleClaims' = IF Identified(u)
               THEN [i \in DOMAIN saleClaims \cup {id} |-> i # id /\ saleClaims[i]] ELSE saleClaims
  /\ UNCHANGED <<sold, beside, loose, edits>>

(* One transaction: the order, its snapshots, the claim that gets its order; *)
(* the answer of the database may be lost.                                 *)
CreateSale(u) ==
  LET row == OnRow(u) IN
  /\ imports[u].at = "creating"
  /\ sold' = sold \cup {[by |-> u, key |-> row.key, id |-> row.id, noted |-> TRUE, idNow |-> row.id, live |-> TRUE]}
  /\ saleClaims' = IF Identified(u) THEN [saleClaims EXCEPT ![row.id] = TRUE] ELSE saleClaims
  /\ NextRow(u, {row.key}) \/ Reaches(u, "undoing")
  /\ UNCHANGED <<beside, loose, edits>>

CreateSaleFails(u) ==
  /\ imports[u].at = "creating" /\ Reaches(u, "undoing")
  /\ UNCHANGED <<sold, saleClaims, beside, loose, edits>>

LooseOf(u) == IF Identified(u) /\ imports[u].at \in {"creating", "undoing"} THEN loose \cup {OnRow(u).id} ELSE loose

\* The error ends the upload; what it created before stays.
UndoClaim(u) ==
  LET id == OnRow(u).id IN
  /\ imports[u].at = "undoing" /\ Reaches(u, "failed")
  /\ saleClaims' = IF Identified(u) /\ ~saleClaims[id] THEN [i \in DOMAIN saleClaims \ {id} |-> saleClaims[i]] ELSE saleClaims
  /\ loose' = LooseOf(u)
  /\ UNCHANGED <<sold, beside, edits>>

UploadDone(u) ==
  /\ imports[u].at = "rows" /\ imports[u].rows = <<>> /\ Reaches(u, "done")
  /\ UNCHANGED <<sold, saleClaims, beside, loose, edits>>

\* The process ends, or a query outside the transaction fails.
UploadDies(u) ==
  /\ InProgress(u) /\ Reaches(u, "failed") /\ loose' = LooseOf(u)
  /\ UNCHANGED <<sold, saleClaims, beside, edits>>

----------------------------------------------------------------------------
(* OrderMaintenanceService: a correction writes notes and id anew; an      *)
(* order that is removed keeps its row.                                    *)
EditSale(o) ==
  /\ edits < EditBound /\ o.live /\ edits' = edits + 1
  /\ \E noted \in {FALSE, o.noted}, id \in {NoId, o.idNow} :
       sold' = (sold \ {o}) \cup {[o EXCEPT !.noted = noted, !.idNow = id]}
  /\ UNCHANGED <<imports, saleClaims, beside, loose>>

RemoveSale(o) ==
  /\ edits < EditBound /\ o.live /\ edits' = edits + 1
  /\ sold' = (sold \ {o}) \cup {[o EXCEPT !.live = FALSE]}
  /\ UNCHANGED <<imports, saleClaims, beside, loose>>

CsvNext ==
  \/ \E u \in Uploads :
       \/ \E layout \in Layouts, file \in Files : Upload(u, layout, file)
       \/ SkipRow(u) \/ ClaimRow(u) \/ CreateSale(u) \/ CreateSaleFails(u) \/ UndoClaim(u) \/ UploadDone(u) \/ UploadDies(u)
  \/ \E o \in sold : EditSale(o) \/ RemoveSale(o)

CsvSpec == CsvInit /\ [][CsvNext]_csvVars

----------------------------------------------------------------------------
CsvTypeOK ==
  /\ \A u \in Uploads :
       /\ imports[u].at \in {"new", "rows", "creating", "undoing", "done", "failed", "refused"}
       /\ imports[u].layout \in Layouts \cup {NoId} /\ imports[u].file \in Files \cup {<<>>}
       /\ imports[u].at \in {"creating", "undoing"} => imports[u].rows # <<>>
  /\ \A i \in DOMAIN saleClaims : saleClaims[i] \in BOOLEAN
  /\ beside \in [Uploads -> SUBSET Uploads]
  /\ \A o \in sold : o.by \in Uploads /\ o.noted \in BOOLEAN /\ o.live \in BOOLEAN
  /\ edits \in 0..EditBound

(* A row makes one order, whatever is uploaded again, removed or failed;   *)
(* a second one needs two uploads that overlap, or an order corrected so   *)
(* that neither its notes nor its id tell of the row, and no claim that    *)
(* outlives both, as a PagBank sale has.                                   *)
ImportedOnce ==
  \A o, p \in sold : o # p /\ o.key = p.key =>
    /\ o.key[1] # "PAGBANK"
    /\ p.by \in beside[o.by] \/ \E q \in {o, p} : ~q.noted /\ (q.id = NoId \/ q.idNow # q.id)

(* An upload that ends well has left no sale of its file without an order, *)
(* if no claim on it was given back or lost, or is held by another upload  *)
(* that has not decided; and one that is refused has created nothing.      *)
FileImported ==
  \A u \in Uploads :
    LET rows == ParseCsv(imports[u].layout, imports[u].file) IN
    /\ imports[u].at = "done" => \A i \in DOMAIN rows :
         \/ \E o \in sold : o.key = rows[i].key \/ (rows[i].id # NoId /\ o.id = rows[i].id)
         \/ Identified(u) /\ \/ rows[i].id \in loose
                             \/ \E v \in Uploads \ {u} : imports[v].at \in {"creating", "undoing"} /\ OnRow(v).id = rows[i].id
    /\ (\E i \in DOMAIN imports[u].file : imports[u].file[i].what = "bad") => \A o \in sold : o.by # u

(* A file brings in each of its sales, and each once.                      *)
FilesSafe == CsvTypeOK /\ ImportedOnce /\ FileImported
================================================================================
