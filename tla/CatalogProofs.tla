---------------------------- MODULE CatalogProofs ----------------------------
(***************************************************************************)
(* Theorems about Catalog, for any number of products, requests, readers   *)
(* and SKUs: types, the unique index, why a creation is refused, which     *)
(* request may part the shelf from its ledger, and how a list gets stale.  *)
(***************************************************************************)
EXTENDS Catalog, StockEngineProofs

-----------------------------------------------------------------------------
(* The inductive invariant *)

EntityRow == [current : Nat, reserved : Nat, min : Alerts]
JobRow ==
  [kind : {"none", "create", "edit", "alert", "count"},
   pc : {"idle", "insert", "refused", "reload", "write", "invalidate", "commit"},
   p : Products \cup {NoProduct}, base : Bases \cup {NoSku}, attempt : Nat, units : Int,
   entity : {NoEntity} \cup ProductRow \cup EntityRow,
   cols : SUBSET {"active", "price", "current", "reserved", "min"}]

\* what a job has done and not committed: an insert, a write of a stock row
Ending(r) == r.pc \in {"invalidate", "commit"}
SkuOf(r) == SkuAt[r.base][r.attempt]
Inserts(r) == r.kind = "create" /\ Ending(r)
WritesStock(r) == r.kind \in StockTable /\ Ending(r) /\ r.cols # {}

\* A creation has an id of its own; what it tried before is taken, and what it
\* has inserted is not.
Creating(r) ==
  /\ r.pc \in {"insert", "refused"} \/ Ending(r)
  /\ r.p \in Products /\ ~Exists(r.p)
  /\ r.base \in Bases /\ r.attempt \in 1..Len(SkuAt[r.base])
  /\ r.units \in Nat
  /\ \A n \in 1..(r.attempt - 1) : Taken(SkuAt[r.base][n])
  /\ r.pc = "refused" => r.attempt = Len(SkuAt[r.base]) /\ Taken(SkuOf(r))
  /\ Ending(r) => ~Taken(SkuOf(r))

\* an edit never changes a SKU, so it never writes one
Editing(r) ==
  /\ r.pc \in {"reload", "write"} \/ Ending(r)
  /\ r.p \in Products /\ Exists(r.p)
  /\ r.entity \in ProductRow /\ r.entity.sku = product[r.p].sku
  /\ r.cols \subseteq {"active", "price"}

Alerting(r) ==
  /\ r.pc \in {"reload", "write", "commit"}
  /\ r.p \in Products
  /\ r.entity \in EntityRow
  /\ r.cols \subseteq {"current", "reserved", "min"}

\* the guard of a count still holds when it commits, because it has the row
Counting(r) ==
  /\ Ending(r)
  /\ r.p \in Products /\ Exists(r.p)
  /\ r.units \in {-1, 1}
  /\ stock[r.p].current + r.units \in Nat
  /\ r.cols = {"current"}

JobSound(r) ==
  /\ r.kind = "none" => r.pc = "idle"
  /\ r.kind = "create" => Creating(r)
  /\ r.kind = "edit" => Editing(r)
  /\ r.kind = "alert" => Alerting(r)
  /\ r.kind = "count" => Counting(r)

\* Two requests never create one product, insert one SKU or write one row.
Apart(r, s) ==
  /\ r.kind = "create" /\ s.kind = "create" => r.p # s.p
  /\ Inserts(r) /\ Inserts(s) => SkuOf(r) # SkuOf(s)
  /\ WritesStock(r) /\ WritesStock(s) => r.p # s.p

KInv ==
  /\ CatalogTypeOK
  /\ SkuIsUnique
  /\ job \in [Jobs -> JobRow]
  /\ \A j \in Jobs : JobSound(job[j])
  /\ \A i, j \in Jobs : i # j => Apart(job[i], job[j])

-----------------------------------------------------------------------------
(* Rows *)

\* A job that does nothing is sound whatever the others do.
LEMMA IdleSound ==
  /\ Idle \in JobRow
  /\ Idle.cols = {}
  /\ JobSound(Idle)
  /\ \A r : Apart(r, Idle) /\ Apart(Idle, r)
<1>1. Idle \in JobRow
  BY DEF Idle, JobRow
<1>2. Idle.kind = "none" /\ Idle.pc = "idle" /\ Idle.cols = {}
  BY DEF Idle
<1> HIDE DEF Idle
<1>3. JobSound(Idle)
  BY <1>2 DEF JobSound
<1>4. \A r : Apart(r, Idle) /\ Apart(Idle, r)
  BY <1>2 DEF Apart, Inserts, WritesStock, StockTable
<1> QED BY <1>1, <1>2, <1>3, <1>4

\* What Object.assign makes of a product row keeps its type and its SKU.
LEMMA AssignedProduct ==
  ASSUME NEW row \in ProductRow, NEW edit \in Edits
  PROVE  Assign(row, edit) \in ProductRow /\ Assign(row, edit).sku = row.sku
BY EditsAssumption DEF ProductRow, Assign

\* And of a stock row.
LEMMA AssignedStock ==
  ASSUME NEW row \in EntityRow, NEW min \in Alerts
  PROVE  Assign(row, [min |-> min]) \in EntityRow
BY DEF EntityRow, Assign

\* The row the job saves is typed as the one it overlays.
LEMMA OverlaidProduct ==
  ASSUME NEW row \in ProductRow, NEW j, Editing(job[j])
  PROVE  Overlay(row, j) \in ProductRow /\ Overlay(row, j).sku = row.sku
<1>1. PICK entity \in ProductRow, cols \in SUBSET {"active", "price"} :
        entity = job[j].entity /\ cols = job[j].cols
  BY DEF Editing
<1>2. Overlay(row, j) = [c \in DOMAIN row |-> IF c \in cols THEN entity[c] ELSE row[c]]
  BY <1>1 DEF Overlay
<1> QED BY <1>2 DEF ProductRow

\* A stock row changes only in the columns that are written.
LEMMA OverlaidStock ==
  ASSUME NEW row \in EntityRow, NEW j, Alerting(job[j])
  PROVE  /\ Overlay(row, j) \in EntityRow
         /\ job[j].cols = {} => Overlay(row, j) = row
         /\ Overlay(row, j).current # row.current =>
              "current" \in job[j].cols /\ job[j].entity.current # row.current
<1>1. PICK entity \in EntityRow, cols \in SUBSET {"current", "reserved", "min"} :
        entity = job[j].entity /\ cols = job[j].cols
  BY DEF Alerting
<1>2. Overlay(row, j) = [c \in DOMAIN row |-> IF c \in cols THEN entity[c] ELSE row[c]]
  BY <1>1 DEF Overlay
<1> QED BY <1>1, <1>2 DEF EntityRow

-----------------------------------------------------------------------------
(* The steps inside a transaction: only the job itself changes. *)

\* A step that moves one job alone, to a row that is sound and apart from
\* those of all other jobs, keeps the invariant.
LEMMA OneJobMoves ==
  ASSUME KInv, UNCHANGED <<stock, ledger, product, alert>>,
         NEW j \in Jobs, NEW new \in JobRow,
         job' = [job EXCEPT ![j] = new],
         JobSound(new),
         \A i \in Jobs \ {j} : Apart(job[i], new)
  PROVE  KInv'
<1>1. /\ job \in [Jobs -> JobRow] /\ job' \in [Jobs -> JobRow]
      /\ job'[j] = new /\ \A i \in Jobs \ {j} : job'[i] = job[i]
  BY DEF KInv
<1>2. \A i \in Jobs : job'[i].pc \in {"idle", "insert", "refused", "reload", "write",
                                      "invalidate", "commit"}
  BY <1>1 DEF JobRow
<1>3. CatalogTypeOK' /\ SkuIsUnique'
  BY <1>2, BooksUntouched DEF KInv, CatalogTypeOK, EngineTypeOK, SkuIsUnique, Exists
<1>4. \A r : JobSound(r)' <=> JobSound(r)
  BY DEF JobSound, Creating, Editing, Alerting, Counting, Ending, Exists, Taken, SkuOf
<1>5. \A i \in Jobs : JobSound(job[i])'
  BY <1>1, <1>4 DEF KInv
<1> QED BY <1>1, <1>3, <1>5 DEF KInv, Apart

\* The fields of a job and what the invariant says of it.
LEMMA JobFields ==
  ASSUME KInv, NEW j \in Jobs
  PROVE  /\ job[j] \in JobRow /\ JobSound(job[j])
         /\ \A i \in Jobs \ {j} : Apart(job[i], job[j])
BY DEF KInv

\* The request ends, or never was: its lock and its insert are gone.
LEMMA JobLeaves ==
  ASSUME KInv, UNCHANGED <<stock, ledger, product, alert>>,
         NEW j \in Jobs, job' = [job EXCEPT ![j] = Idle]
  PROVE  KInv'
BY IdleSound, OneJobMoves

\* create: a new id, and the first SKU of the base.
LEMMA StartCreateSound ==
  ASSUME KInv, NEW j \in Jobs, NEW base \in Bases, NEW units \in Openings,
         StartCreate(j, base, units)
  PROVE  KInv'
<1>1. PICK p \in Unused : p = CHOOSE q \in Unused : TRUE
  BY DEF StartCreate
<1>2. p \in Products /\ ~Exists(p) /\ \A i \in Jobs : job[i].p # p
  BY DEF Unused
<1>3. PICK new : new = [Idle EXCEPT !.kind = "create", !.pc = "insert", !.p = p,
                                    !.base = base, !.attempt = 1, !.units = units]
  OBVIOUS
<1>4. job' = [job EXCEPT ![j] = new] /\ UNCHANGED <<stock, ledger, product, alert>>
  BY <1>1, <1>3 DEF StartCreate, InJob
<1>5. /\ units \in Nat
      /\ 1 \in 1..Len(SkuAt[base])
  BY CatalogAssumption
<1>6. /\ new \in JobRow
      /\ new.kind = "create" /\ new.pc = "insert" /\ new.p = p
      /\ new.base = base /\ new.attempt = 1 /\ new.units = units
  <2>1. units \in Int /\ 1 \in Nat /\ p \in Products \cup {NoProduct} /\ base \in Bases \cup {NoSku}
    BY <1>2, <1>5
  <2>2. Idle \in JobRow /\ Idle.cols = {}
    BY IdleSound
  <2> QED BY <1>3, <2>1, <2>2 DEF JobRow
<1>7. JobSound(new)
  BY <1>2, <1>5, <1>6 DEF JobSound, Creating, Ending
<1>8. ASSUME NEW i \in Jobs \ {j} PROVE Apart(job[i], new)
  BY <1>2, <1>6, <1>8 DEF Apart, Inserts, WritesStock, Ending
<1> QED BY <1>4, <1>6, <1>7, <1>8, OneJobMoves

\* The insert waits for a pending one, and meets the index.
LEMMA InsertProductSound ==
  ASSUME KInv, NEW j \in Jobs, InsertProduct(j)
  PROVE  KInv'
<1>1. /\ job[j] \in JobRow /\ job \in [Jobs -> JobRow]
      /\ job[j].pc = "insert" /\ UNCHANGED <<stock, ledger, product, alert>>
      /\ \A i \in Jobs \ {j} : Apart(job[i], job[j])
  BY DEF InsertProduct, KInv, InJob
<1>2. job[j].kind = "create" /\ Creating(job[j])
  BY <1>1, JobFields DEF JobRow, JobSound, Editing, Alerting, Counting, Ending
<1>3. PICK n \in Nat : n = Len(SkuAt[job[j].base])
  BY <1>2, CatalogAssumption DEF Creating
<1>4. CASE Taken(SkuTried(j))
  <2>1. NextAttempt(j)
    BY <1>4 DEF InsertProduct
  <2>2. CASE job[j].attempt < n
    <3>1. PICK new : new = [job[j] EXCEPT !.attempt = job[j].attempt + 1, !.pc = "insert"]
      OBVIOUS
    <3>2. job' = [job EXCEPT ![j] = new]
      BY <1>1, <1>3, <2>1, <2>2, <3>1 DEF NextAttempt
    <3>3. /\ new \in JobRow /\ new.kind = "create" /\ new.pc = "insert"
          /\ new.p = job[j].p /\ new.base = job[j].base /\ new.units = job[j].units
          /\ new.attempt = job[j].attempt + 1 /\ job[j].attempt \in Nat
      <4>1. job[j].attempt \in Nat /\ job[j].attempt + 1 \in Nat
        BY <1>1 DEF JobRow
      <4> QED BY <1>1, <1>2, <3>1, <4>1 DEF JobRow
    <3>4. \A m \in 1..(new.attempt - 1) : Taken(SkuAt[new.base][m])
      BY <1>2, <1>4, <3>3 DEF Creating, SkuTried
    <3>5. JobSound(new)
      BY <1>2, <1>3, <2>2, <3>3, <3>4 DEF JobSound, Creating, Ending
    <3>6. \A i \in Jobs \ {j} : Apart(job[i], new)
      BY <1>1, <1>2, <3>3 DEF Apart, Inserts, WritesStock, Ending
    <3> QED BY <1>1, <3>2, <3>3, <3>5, <3>6, OneJobMoves
  <2>3. CASE ~(job[j].attempt < n)
    <3>1. PICK new : new = [job[j] EXCEPT !.pc = "refused"]
      OBVIOUS
    <3>2. job' = [job EXCEPT ![j] = new]
      BY <1>1, <1>3, <2>1, <2>3, <3>1 DEF NextAttempt, JobRow
    <3>3. /\ new \in JobRow /\ new.kind = "create" /\ new.pc = "refused"
          /\ new.p = job[j].p /\ new.base = job[j].base /\ new.units = job[j].units
          /\ new.attempt = job[j].attempt
      BY <1>1, <1>2, <3>1 DEF JobRow
    <3>4. new.attempt = n
      BY <1>2, <1>3, <2>3, <3>3 DEF Creating
    <3>5. JobSound(new)
      BY <1>2, <1>3, <1>4, <3>3, <3>4 DEF JobSound, Creating, Ending, SkuOf, SkuTried
    <3>6. \A i \in Jobs \ {j} : Apart(job[i], new)
      BY <1>1, <1>2, <3>3 DEF Apart, Inserts, WritesStock, Ending
    <3> QED BY <1>1, <3>2, <3>3, <3>5, <3>6, OneJobMoves
  <2> QED BY <2>2, <2>3
<1>5. CASE ~Taken(SkuTried(j))
  <2>1. PICK new : new = [job[j] EXCEPT !.pc = "invalidate"]
    OBVIOUS
  <2>2. job' = [job EXCEPT ![j] = new]
    BY <1>1, <1>5, <2>1 DEF InsertProduct, Goto
  <2>3. /\ new \in JobRow /\ new.kind = "create" /\ new.pc = "invalidate"
        /\ new.p = job[j].p /\ new.base = job[j].base /\ new.units = job[j].units
        /\ new.attempt = job[j].attempt /\ SkuOf(new) = SkuTried(j)
    BY <1>1, <1>2, <2>1 DEF JobRow, SkuOf, SkuTried
  <2>4. JobSound(new)
    BY <1>2, <1>5, <2>3 DEF JobSound, Creating, Ending
  <2>5. ASSUME NEW i \in Jobs \ {j} PROVE Apart(job[i], new)
    <3>1. Inserts(job[i]) => SkuOf(job[i]) # SkuTried(j)
      BY DEF InsertProduct, Pending, Inserts, Ending, SkuOf, SkuTried
    <3> QED BY <1>1, <1>2, <2>3, <3>1 DEF Apart, WritesStock, StockTable
  <2> QED BY <1>1, <2>2, <2>3, <2>4, <2>5, OneJobMoves
<1> QED BY <1>4, <1>5

\* update and remove read the committed row.
LEMMA ReadProductSound ==
  ASSUME KInv, NEW j \in Jobs, NEW p \in Products, NEW edit \in Edits, ReadProduct(j, p, edit)
  PROVE  KInv'
<1>1. PICK entity \in ProductRow : entity = Assign(product[p], edit) /\ entity.sku = product[p].sku
  BY AssignedProduct DEF KInv, CatalogTypeOK
<1>2. PICK new : new = [Idle EXCEPT !.kind = "edit", !.pc = "reload", !.p = p, !.entity = entity]
  OBVIOUS
<1>3. /\ job' = [job EXCEPT ![j] = new] /\ Exists(p)
      /\ UNCHANGED <<stock, ledger, product, alert>>
  BY <1>1, <1>2 DEF ReadProduct, InJob
<1>4. /\ new \in JobRow /\ new.kind = "edit" /\ new.pc = "reload" /\ new.p = p
      /\ new.entity = entity /\ new.cols = {}
  BY <1>1, <1>2, IdleSound DEF JobRow
<1>5. JobSound(new)
  BY <1>1, <1>3, <1>4 DEF JobSound, Editing
<1>6. \A i \in Jobs \ {j} : Apart(job[i], new)
  BY <1>4 DEF Apart, Inserts, WritesStock, Ending
<1> QED BY <1>3, <1>4, <1>5, <1>6, OneJobMoves

\* And setMinStock the committed stock row.
LEMMA ReadStockSound ==
  ASSUME KInv, NEW j \in Jobs, NEW p \in Products, NEW min \in Alerts, ReadStock(j, p, min)
  PROVE  KInv'
<1>1. StockEntity(p) \in EntityRow
  BY DEF KInv, CatalogTypeOK, EngineTypeOK, StockEntity, StockRow, EntityRow
<1>2. PICK entity \in EntityRow : entity = Assign(StockEntity(p), [min |-> min])
  BY <1>1, AssignedStock
<1>3. PICK new : new = [Idle EXCEPT !.kind = "alert", !.pc = "reload", !.p = p, !.entity = entity]
  OBVIOUS
<1>4. /\ job' = [job EXCEPT ![j] = new]
      /\ UNCHANGED <<stock, ledger, product, alert>>
  BY <1>2, <1>3 DEF ReadStock, InJob
<1>5. /\ new \in JobRow /\ new.kind = "alert" /\ new.pc = "reload" /\ new.p = p
      /\ new.entity = entity /\ new.cols = {}
  BY <1>3, IdleSound DEF JobRow
<1>6. JobSound(new)
  BY <1>4, <1>5 DEF JobSound, Alerting
<1>7. \A i \in Jobs \ {j} : Apart(job[i], new)
  BY <1>5 DEF Apart, Inserts, WritesStock, Ending
<1> QED BY <1>4, <1>5, <1>6, <1>7, OneJobMoves

\* save() compares: the SKU never differs.
LEMMA ReloadSound ==
  ASSUME KInv, NEW j \in Jobs, Reload(j)
  PROVE  KInv'
<1>1. /\ job[j] \in JobRow /\ JobSound(job[j]) /\ job \in [Jobs -> JobRow]
      /\ job[j].pc = "reload" /\ UNCHANGED <<stock, ledger, product, alert>>
      /\ \A i \in Jobs \ {j} : Apart(job[i], job[j])
  BY DEF Reload, KInv, InJob
<1>2. PICK cols : cols = {c \in DOMAIN job[j].entity : job[j].entity[c] # Row(j)[c]}
  OBVIOUS
<1>3. PICK new : new = [job[j] EXCEPT !.pc = "write", !.cols = cols]
  OBVIOUS
<1>4. job' = [job EXCEPT ![j] = new]
  BY <1>1, <1>2, <1>3 DEF Reload
<1>5. \/ job[j].kind = "edit" /\ Editing(job[j]) /\ cols \subseteq {"active", "price"}
      \/ job[j].kind = "alert" /\ Alerting(job[j]) /\ cols \subseteq {"current", "reserved", "min"}
  <2>1. job[j].kind \in {"edit", "alert"}
    BY <1>1 DEF JobRow, JobSound, Creating, Counting, Ending
  <2>2. CASE job[j].kind = "edit"
    <3>1. Editing(job[j]) /\ Row(j) = product[job[j].p]
      BY <1>1, <2>2 DEF JobSound, Row
    <3>2. DOMAIN job[j].entity = {"sku", "active", "price"} /\ "sku" \notin cols
      BY <1>2, <3>1 DEF Editing, ProductRow
    <3> QED BY <1>2, <2>2, <3>1, <3>2
  <2>3. CASE job[j].kind = "alert"
    <3>1. Alerting(job[j])
      BY <1>1, <2>3 DEF JobSound
    <3>2. DOMAIN job[j].entity = {"current", "reserved", "min"}
      BY <3>1 DEF Alerting, EntityRow
    <3> QED BY <1>2, <2>3, <3>1, <3>2
  <2> QED BY <2>1, <2>2, <2>3
<1>6. /\ new \in JobRow /\ new.pc = "write" /\ new.cols = cols
      /\ new.kind = job[j].kind /\ new.p = job[j].p /\ new.entity = job[j].entity
  BY <1>1, <1>3, <1>5 DEF JobRow
<1>7. JobSound(new)
  BY <1>5, <1>6 DEF JobSound, Editing, Alerting
<1>8. \A i \in Jobs \ {j} : Apart(job[i], new)
  BY <1>5, <1>6 DEF Apart, Inserts, WritesStock, Ending
<1> QED BY <1>1, <1>4, <1>6, <1>7, <1>8, OneJobMoves

\* A write of columns waits for the row.
LEMMA WriteSound ==
  ASSUME KInv, NEW j \in Jobs, Write(j)
  PROVE  KInv'
<1>1. /\ job[j] \in JobRow /\ JobSound(job[j]) /\ job \in [Jobs -> JobRow]
      /\ job[j].pc = "write" /\ UNCHANGED <<stock, ledger, product, alert>>
      /\ \A i \in Jobs \ {j} : Apart(job[i], job[j])
  BY DEF Write, KInv, InJob
<1>2. \/ job[j].kind = "edit" /\ Editing(job[j])
      \/ job[j].kind = "alert" /\ Alerting(job[j])
  BY <1>1 DEF JobRow, JobSound, Creating, Counting, Ending
<1>3. PICK new : new = [job[j] EXCEPT !.pc = IF job[j].kind = "edit" THEN "invalidate" ELSE "commit"]
  OBVIOUS
<1>4. job' = [job EXCEPT ![j] = new]
  BY <1>1, <1>3 DEF Write, Goto
<1>5. /\ new \in JobRow /\ new.cols = job[j].cols
      /\ new.pc = (IF job[j].kind = "edit" THEN "invalidate" ELSE "commit")
      /\ new.kind = job[j].kind /\ new.p = job[j].p /\ new.entity = job[j].entity
  BY <1>1, <1>3 DEF JobRow
<1>6. JobSound(new)
  BY <1>2, <1>5 DEF JobSound, Editing, Alerting, Ending
<1>7. ASSUME NEW i \in Jobs \ {j} PROVE Apart(job[i], new)
  <2>1. job[j].kind = "alert" /\ job[j].cols # {} /\ WritesStock(job[i]) => job[i].p # job[j].p
    BY DEF Write, Locked, WritesStock, Ending
  <2> QED BY <1>2, <1>5, <2>1 DEF Apart, Inserts, WritesStock, StockTable
<1> QED BY <1>1, <1>4, <1>5, <1>6, <1>7, OneJobMoves

\* The guarded UPDATE of a count takes the row.
LEMMA CountSound ==
  ASSUME KInv, NEW j \in Jobs, NEW p \in Products, NEW delta \in {-1, 1}, Count(j, p, delta)
  PROVE  KInv'
<1>1. PICK new : new = [Idle EXCEPT !.kind = "count", !.pc = "invalidate", !.p = p,
                                    !.units = delta, !.cols = {"current"}]
  OBVIOUS
<1>2. /\ job' = [job EXCEPT ![j] = new] /\ UNCHANGED <<stock, ledger, product, alert>>
      /\ Exists(p) /\ ~Locked(StockTable, p) /\ stock[p].current + delta \in Nat
  BY <1>1, EngineAssumption DEF Count, InJob
<1>3. /\ new \in JobRow /\ new.kind = "count" /\ new.pc = "invalidate" /\ new.p = p
      /\ new.units = delta /\ new.cols = {"current"}
  <2>1. delta \in Int
    OBVIOUS
  <2>2. Idle \in JobRow
    BY IdleSound
  <2> QED BY <1>1, <2>1, <2>2 DEF JobRow
<1>4. JobSound(new)
  BY <1>2, <1>3 DEF JobSound, Counting, Ending
<1>5. ASSUME NEW i \in Jobs \ {j} PROVE Apart(job[i], new)
  BY <1>2, <1>3 DEF Apart, Inserts, WritesStock, Ending, Locked
<1> QED BY <1>2, <1>3, <1>4, <1>5, OneJobMoves

\* Invalidating the cache changes nothing but the job.
LEMMA InvalidateSound ==
  ASSUME KInv, NEW j \in Jobs, Invalidate(j)
  PROVE  KInv'
<1>1. /\ job[j] \in JobRow /\ JobSound(job[j])
      /\ job[j].pc = "invalidate" /\ UNCHANGED <<stock, ledger, product, alert>>
      /\ \A i \in Jobs \ {j} : Apart(job[i], job[j])
  BY DEF Invalidate, KInv
<1>2. PICK new : new = [job[j] EXCEPT !.pc = "commit"]
  OBVIOUS
<1>3. job' = [job EXCEPT ![j] = new]
  BY <1>2 DEF Invalidate, Goto
<1>4. /\ new \in JobRow /\ new.pc = "commit" /\ new.cols = job[j].cols
      /\ new.kind = job[j].kind /\ new.p = job[j].p /\ new.entity = job[j].entity
      /\ new.base = job[j].base /\ new.attempt = job[j].attempt /\ new.units = job[j].units
  BY <1>1, <1>2 DEF JobRow
<1>5. JobSound(new)
  BY <1>1, <1>4 DEF JobSound, Creating, Editing, Alerting, Counting, Ending, SkuOf
<1>6. \A i \in Jobs \ {j} : Apart(job[i], new)
  BY <1>1, <1>4 DEF Apart, Inserts, WritesStock, Ending, SkuOf
<1> QED BY <1>1, <1>3, <1>4, <1>5, <1>6, OneJobMoves

-----------------------------------------------------------------------------
(* The commits: the rows change, and the job's locks and inserts go. *)

\* A job that ends and leaves no unique SKU shared keeps the invariant.
LEMMA JobEnds ==
  ASSUME KInv, NEW j \in Jobs, job' = [job EXCEPT ![j] = Idle],
         EngineTypeOK', product' \in [Products -> ProductRow], alert' \in [Products -> Alerts],
         SkuIsUnique',
         \A i \in Jobs \ {j} : job'[i] = job[i] => JobSound(job[i])'
  PROVE  KInv'
<1>1. /\ job \in [Jobs -> JobRow] /\ job' \in [Jobs -> JobRow]
      /\ job'[j] = Idle /\ \A i \in Jobs \ {j} : job'[i] = job[i]
  BY IdleSound DEF KInv
<1>2. \A i \in Jobs : job'[i].pc \in {"idle", "insert", "refused", "reload", "write",
                                      "invalidate", "commit"}
  BY <1>1 DEF JobRow
<1>3. CatalogTypeOK'
  BY <1>2 DEF CatalogTypeOK
<1>4. JobSound(job[j])'
  BY <1>1 DEF JobSound, Idle
<1>5. \A i \in Jobs : JobSound(job[i])'
  BY <1>1, <1>4
<1>6. \A i, k \in Jobs : i # k => Apart(job'[i], job'[k])
  BY <1>1, IdleSound DEF KInv
<1> QED BY <1>1, <1>3, <1>5, <1>6 DEF KInv, Apart, Inserts, WritesStock, Ending, SkuOf

\* create commits: the SKU, the shelf and the opening row appear at once.
LEMMA CommitCreateSound ==
  ASSUME KInv, NEW j \in Jobs, job[j].pc = "commit", CommitCreate(j),
         job' = [job EXCEPT ![j] = Idle]
  PROVE  KInv' /\ (ProjectsLedger => ProjectsLedger')
<1>1. /\ job[j] \in JobRow /\ Creating(job[j]) /\ job[j].kind = "create"
      /\ \A i \in Jobs \ {j} : JobSound(job[i]) /\ Apart(job[i], job[j])
      /\ CatalogTypeOK /\ SkuIsUnique
  BY DEF KInv, JobSound, CommitCreate
<1>2. PICK p \in Products, sku \in Skus, units \in Nat :
        /\ p = job[j].p /\ sku = SkuOf(job[j]) /\ units = job[j].units
        /\ ~Exists(p) /\ ~Taken(sku)
  BY <1>1, CatalogAssumption DEF Creating, Ending, SkuOf
<1>3. /\ product' = [product EXCEPT ![p].sku = sku, ![p].active = TRUE]
      /\ stock' = [stock EXCEPT ![p].current = units]
      /\ ledger' = [ledger EXCEPT ![p] = Opening(units)]
      /\ alert' = alert
  BY <1>2 DEF CommitCreate, SkuOf, SkuTried
<1>4. /\ stock \in [Products -> StockRow] /\ product \in [Products -> ProductRow]
      /\ ledger \in [Products -> Seq(Ledger!LedgerRow)]
  BY <1>1 DEF CatalogTypeOK, EngineTypeOK, Ledger!TypeOK
<1>5. /\ product' \in [Products -> ProductRow]
      /\ product'[p].sku = sku /\ \A q \in Products \ {p} : product'[q] = product[q]
  BY <1>3, <1>4 DEF ProductRow
<1>6. /\ stock' \in [Products -> StockRow]
      /\ stock'[p].current = units /\ \A q \in Products \ {p} : stock'[q] = stock[q]
  BY <1>3, <1>4 DEF StockRow
<1>7. /\ ledger' \in [Products -> Seq(Ledger!LedgerRow)]
      /\ Ledger!Balance(ledger'[p]) = units
      /\ \A q \in Products \ {p} : ledger'[q] = ledger[q]
  BY <1>3, <1>4, OpeningBook
<1>8. EngineTypeOK'
  BY <1>6, <1>7 DEF EngineTypeOK, Ledger!TypeOK, Ledger!LedgerRow, Ledger!LedgerTipo
<1>9. /\ \A q \in Products : Exists(q)' <=> Exists(q) \/ q = p
      /\ \A s \in Skus : Taken(s)' <=> Taken(s) \/ s = sku
  BY <1>2, <1>5, CatalogAssumption DEF Exists, Taken
<1>10. SkuIsUnique'
  BY <1>1, <1>2, <1>5, CatalogAssumption DEF SkuIsUnique, Exists, Taken
<1>11. ASSUME NEW i \in Jobs \ {j}, job'[i] = job[i] PROVE JobSound(job[i])'
  <2>1. JobSound(job[i]) /\ Apart(job[i], job[j])
    BY <1>1, <1>11
  <2>2. PICK r : r = job[i]
    OBVIOUS
  <2>3. JobSound(r)'
    <3>1. ASSUME r.kind = "create" PROVE Creating(r)'
      <4>1. Creating(r) /\ r.p # p
        BY <1>1, <1>2, <2>1, <2>2, <3>1 DEF JobSound, Apart
      <4>2. \A n \in 1..Len(SkuAt[r.base]) : SkuAt[r.base][n] \in Skus
        BY <4>1, CatalogAssumption DEF Creating
      <4>3. Len(SkuAt[r.base]) \in Nat
        BY <4>1, CatalogAssumption DEF Creating
      <4>4. \A n \in 1..(r.attempt - 1) : n \in 1..Len(SkuAt[r.base])
        BY <4>1, <4>3 DEF Creating
      <4>5. SkuOf(r) \in Skus
        BY <4>1, <4>2 DEF Creating, SkuOf
      <4>6. Ending(r) => SkuOf(r) # sku
        BY <1>1, <1>2, <2>1, <2>2, <3>1 DEF Apart, Inserts, CommitCreate, Ending
      <4> QED BY <1>9, <4>1, <4>2, <4>4, <4>5, <4>6 DEF Creating, Ending, SkuOf
    <3>2. ASSUME r.kind = "edit" PROVE Editing(r)'
      <4>1. Editing(r) /\ r.p # p
        BY <1>2, <2>1, <2>2, <3>2 DEF JobSound, Editing
      <4> QED BY <1>5, <1>9, <4>1 DEF Editing, Ending
    <3>3. ASSUME r.kind = "alert" PROVE Alerting(r)'
      BY <2>1, <2>2, <3>3 DEF JobSound, Alerting
    <3>4. ASSUME r.kind = "count" PROVE Counting(r)'
      <4>1. Counting(r) /\ r.p # p
        BY <1>2, <2>1, <2>2, <3>4 DEF JobSound, Counting
      <4> QED BY <1>6, <1>9, <4>1 DEF Counting, Ending
    <3> QED BY <2>1, <2>2, <3>1, <3>2, <3>3, <3>4 DEF JobSound
  <2> QED BY <1>11, <2>2, <2>3
<1>12. KInv'
  BY <1>1, <1>3, <1>5, <1>8, <1>10, <1>11, JobEnds DEF CatalogTypeOK
<1>13. ProjectsLedger => ProjectsLedger'
  BY <1>6, <1>7 DEF ProjectsLedger, Ledger!Balance
<1> QED BY <1>12, <1>13

\* An edit commits: every SKU stays.
LEMMA CommitEditSound ==
  ASSUME KInv, NEW j \in Jobs, CommitEdit(j), job' = [job EXCEPT ![j] = Idle]
  PROVE  KInv' /\ (ProjectsLedger => ProjectsLedger')
<1>1. /\ Editing(job[j]) /\ CatalogTypeOK /\ SkuIsUnique
      /\ product \in [Products -> ProductRow]
      /\ UNCHANGED <<stock, ledger, alert>>
  BY DEF KInv, JobSound, CommitEdit, CatalogTypeOK
<1>2. PICK p \in Products : p = job[j].p
  BY <1>1 DEF Editing
<1>3. PICK row \in ProductRow : row = Overlay(product[p], j) /\ row.sku = product[p].sku
  BY <1>1, OverlaidProduct
<1>4. product' = [product EXCEPT ![p] = row]
  BY <1>1, <1>2, <1>3 DEF CommitEdit
<1>5. /\ product' \in [Products -> ProductRow]
      /\ \A q \in Products : product'[q].sku = product[q].sku
  BY <1>1, <1>3, <1>4
<1>6. EngineTypeOK' /\ SkuIsUnique' /\ (ProjectsLedger => ProjectsLedger')
  BY <1>1, <1>5, BooksUntouched
     DEF CatalogTypeOK, EngineTypeOK, SkuIsUnique, Exists, ProjectsLedger, Ledger!Balance
<1>7. /\ \A q \in Products : Exists(q)' <=> Exists(q)
      /\ \A s : Taken(s)' <=> Taken(s)
  BY <1>5 DEF Exists, Taken
<1>8. ASSUME NEW i \in Jobs \ {j}, job'[i] = job[i] PROVE JobSound(job[i])'
  <2>1. PICK r : r = job[i] /\ JobSound(r)
    BY DEF KInv
  <2>2. JobSound(r)'
    BY <1>1, <1>5, <1>7, <2>1
       DEF JobSound, Creating, Editing, Alerting, Counting, Ending, SkuOf
  <2> QED BY <1>8, <2>1, <2>2
<1> QED BY <1>1, <1>5, <1>6, <1>8, JobEnds DEF CatalogTypeOK

\* A stock row is written under its lock: no count in flight has checked it.
LEMMA StockRowChanges ==
  ASSUME KInv, NEW j \in Jobs, NEW p \in Products, p = job[j].p,
         UNCHANGED product, EngineTypeOK', alert' \in [Products -> Alerts],
         \A q \in Products \ {p} : stock'[q] = stock[q],
         stock'[p].current = stock[p].current \/ WritesStock(job[j]),
         job' = [job EXCEPT ![j] = Idle]
  PROVE  KInv'
<1>1. SkuIsUnique' /\ product' \in [Products -> ProductRow]
  BY DEF KInv, SkuIsUnique, Exists, CatalogTypeOK
<1>2. ASSUME NEW i \in Jobs \ {j}, job'[i] = job[i] PROVE JobSound(job[i])'
  <2>1. PICK r : r = job[i] /\ JobSound(r) /\ Apart(r, job[j])
    BY DEF KInv
  <2>2. ASSUME r.kind = "count" PROVE Counting(r)'
    <3>1. Counting(r) /\ WritesStock(r)
      BY <2>1, <2>2 DEF JobSound, Counting, WritesStock, StockTable
    <3>2. stock'[r.p].current = stock[r.p].current
      BY <2>1, <3>1 DEF Apart, Counting
    <3> QED BY <3>1, <3>2 DEF Counting, Ending, Exists
  <2>3. JobSound(r)'
    BY <2>1, <2>2 DEF JobSound, Creating, Editing, Alerting, Ending, SkuOf, Exists, Taken
  <2> QED BY <1>2, <2>1, <2>3
<1> QED BY <1>1, <1>2, JobEnds

\* An alert level commits.  If the row was older, so is the balance it writes.
LEMMA CommitAlertSound ==
  ASSUME KInv, NEW j \in Jobs, job[j].pc = "commit", CommitAlert(j),
         job' = [job EXCEPT ![j] = Idle]
  PROVE  /\ KInv'
         /\ ~("current" \in job[j].cols /\ job[j].entity.current # stock[job[j].p].current)
              => (ProjectsLedger => ProjectsLedger')
<1>1. /\ Alerting(job[j]) /\ job[j].kind = "alert"
      /\ EngineTypeOK /\ alert \in [Products -> Alerts]
      /\ stock \in [Products -> StockRow]
      /\ UNCHANGED <<ledger, product>>
  BY DEF KInv, JobSound, CommitAlert, CatalogTypeOK, EngineTypeOK
<1>2. PICK p \in Products : p = job[j].p
  BY <1>1 DEF Alerting
<1>3. StockEntity(p) \in EntityRow /\ StockEntity(p).current = stock[p].current
  BY <1>1 DEF StockEntity, StockRow, EntityRow
<1>4. PICK row \in EntityRow : row = Overlay(StockEntity(p), j)
  BY <1>1, <1>3, OverlaidStock
<1>5. /\ job[j].cols = {} => row.current = stock[p].current
      /\ row.current # stock[p].current =>
           "current" \in job[j].cols /\ job[j].entity.current # stock[p].current
  BY <1>1, <1>3, <1>4, OverlaidStock
<1>6. /\ stock' = [stock EXCEPT ![p] = [current |-> row.current, reserved |-> row.reserved]]
      /\ alert' = [alert EXCEPT ![p] = row.min]
  BY <1>2, <1>4 DEF CommitAlert
<1>7. /\ stock' \in [Products -> StockRow] /\ stock'[p].current = row.current
      /\ \A q \in Products \ {p} : stock'[q] = stock[q]
      /\ alert' \in [Products -> Alerts]
  BY <1>1, <1>4, <1>6 DEF EntityRow, StockRow
<1>8. EngineTypeOK'
  BY <1>1, <1>7, BooksUntouched DEF EngineTypeOK
<1>9. stock'[p].current = stock[p].current \/ WritesStock(job[j])
  BY <1>1, <1>5, <1>7 DEF WritesStock, StockTable, Ending
<1>10. KInv'
  BY <1>1, <1>2, <1>7, <1>8, <1>9, StockRowChanges
<1>11. ASSUME ~("current" \in job[j].cols /\ job[j].entity.current # stock[p].current),
              ProjectsLedger
       PROVE  ProjectsLedger'
  <2>1. \A q \in Products : stock'[q].current = stock[q].current
    BY <1>5, <1>7, <1>11
  <2> QED BY <1>1, <1>11, <2>1 DEF ProjectsLedger, Ledger!Balance
<1> QED BY <1>2, <1>10, <1>11

\* A count commits: the counter and its row together.
LEMMA CommitCountSound ==
  ASSUME KInv, NEW j \in Jobs, job[j].pc = "commit", CommitCount(j),
         job' = [job EXCEPT ![j] = Idle]
  PROVE  KInv' /\ (ProjectsLedger => ProjectsLedger')
<1>1. /\ Counting(job[j]) /\ job[j].kind = "count"
      /\ EngineTypeOK /\ alert \in [Products -> Alerts]
      /\ stock \in [Products -> StockRow] /\ ledger \in [Products -> Seq(Ledger!LedgerRow)]
      /\ UNCHANGED <<product, alert>>
  BY DEF KInv, JobSound, CommitCount, CatalogTypeOK, EngineTypeOK, Ledger!TypeOK
<1>2. PICK p \in Products, delta \in {-1, 1}, saldo \in Nat :
        p = job[j].p /\ delta = job[j].units /\ saldo = stock[p].current + delta
  BY <1>1 DEF Counting
<1>3. PICK row : row = [tipo |-> IF delta > 0 THEN "COMPRA" ELSE "PERDA", delta |-> delta,
                        saldo |-> saldo, order |-> NoOrder]
  OBVIOUS
<1>4. row \in Ledger!LedgerRow /\ row.saldo = saldo
  BY <1>3 DEF Ledger!LedgerRow, Ledger!LedgerTipo
<1>5. /\ stock' = [stock EXCEPT ![p].current = saldo]
      /\ ledger' = [ledger EXCEPT ![p] = Append(ledger[p], row)]
  BY <1>1, <1>2, <1>3 DEF CommitCount
<1>6. /\ stock' \in [Products -> StockRow] /\ stock'[p].current = saldo
      /\ \A q \in Products \ {p} : stock'[q] = stock[q]
  BY <1>1, <1>2, <1>5 DEF StockRow
<1>7. PICK more \in Seq(Ledger!LedgerRow) : /\ more = Append(ledger[p], row)
                                            /\ more # <<>> /\ more[Len(more)] = row
  <2>1. PICK rows \in Seq(Ledger!LedgerRow) : rows = ledger[p]
    BY <1>1
  <2>2. PICK more : more = Append(rows, row)
    OBVIOUS
  <2>3. /\ more \in Seq(Ledger!LedgerRow)
        /\ Len(rows) \in Nat /\ Len(more) = Len(rows) + 1
        /\ more[Len(rows) + 1] = row
    BY <1>4, <2>2
  <2>4. more # <<>> /\ more[Len(more)] = row
    BY <2>3
  <2> QED BY <2>1, <2>2, <2>3, <2>4
<1>8. /\ ledger' \in [Products -> Seq(Ledger!LedgerRow)]
      /\ ledger'[p] = more /\ \A q \in Products \ {p} : ledger'[q] = ledger[q]
  BY <1>1, <1>5, <1>7
<1>9. EngineTypeOK'
  BY <1>6, <1>8 DEF EngineTypeOK, Ledger!TypeOK, Ledger!LedgerRow, Ledger!LedgerTipo
<1>10. WritesStock(job[j])
  BY <1>1 DEF WritesStock, StockTable, Counting
<1>11. KInv'
  BY <1>1, <1>2, <1>6, <1>9, <1>10, StockRowChanges
<1>12. ProjectsLedger => ProjectsLedger'
  BY <1>4, <1>6, <1>7, <1>8 DEF ProjectsLedger, Ledger!Balance
<1> QED BY <1>11, <1>12

-----------------------------------------------------------------------------
(* The invariant is inductive *)

\* The products that exist from the start have SKUs of their own.
LEMMA CatalogInitSound == CatalogInit => KInv
<1> SUFFICES ASSUME CatalogInit PROVE KInv
  OBVIOUS
<1> DEFINE initial == [p \in Products |-> IF p \in DOMAIN OldProducts THEN OldUnits ELSE 0]
<1>1. initial \in [Products -> Nat]
  BY CatalogAssumption
<1>2. EngineTypeOK
  <2>1. EngineInit(initial)
    BY DEF CatalogInit
  <2> HIDE DEF initial
  <2> QED BY <1>1, <2>1, EngineStarts
<1>3. PICK price \in Prices : price = CHOOSE v \in Prices : TRUE
  BY CatalogAssumption
<1>4. product = [p \in Products |->
        [sku |-> IF p \in DOMAIN OldProducts THEN OldProducts[p] ELSE NoSku,
         active |-> p \in DOMAIN OldProducts, price |-> price]]
  BY <1>3 DEF CatalogInit
<1>5. product \in [Products -> ProductRow]
  BY <1>4, CatalogAssumption DEF ProductRow
<1>6. SkuIsUnique
  BY <1>4, CatalogAssumption DEF SkuIsUnique, Exists
<1>7. alert \in [Products -> Alerts]
  BY CatalogAssumption DEF CatalogInit
<1>8. job \in [Jobs -> JobRow] /\ \A j \in Jobs : job[j] = Idle
  BY IdleSound DEF CatalogInit
<1>9. \A j \in Jobs : job[j].pc = "idle"
  BY <1>8 DEF Idle
<1>10. CatalogTypeOK
  BY <1>2, <1>5, <1>7, <1>9 DEF CatalogTypeOK
<1> QED BY <1>6, <1>8, <1>10, IdleSound DEF KInv

\* A step that only reads, or moves the cache.
LEMMA CacheMoves ==
  ASSUME KInv, UNCHANGED <<stock, ledger, product, alert, job>>
  PROVE  KInv'
<1>1. CatalogTypeOK' /\ SkuIsUnique'
  BY BooksUntouched DEF KInv, CatalogTypeOK, EngineTypeOK, SkuIsUnique, Exists
<1>2. \A r : JobSound(r)' <=> JobSound(r)
  BY DEF JobSound, Creating, Editing, Alerting, Counting, Ending, Exists, Taken, SkuOf
<1> QED BY <1>1, <1>2 DEF KInv, Apart, Inserts, WritesStock, Ending, SkuOf

\* what may part the shelf from the ledger
StaleAlertCommits ==
  \E j \in Jobs : /\ job[j].kind = "alert" /\ job[j].pc = "commit"
                 /\ "current" \in job[j].cols
                 /\ job[j].entity.current # stock[job[j].p].current

\* Every step of a request, with what it does to the books.
LEMMA JobStepSound ==
  ASSUME KInv, NEW j \in Jobs, JobStep(j) \/ JobDies(j) \/ JobStarts(j)
  PROVE  KInv' /\ (ProjectsLedger /\ ~StaleAlertCommits => ProjectsLedger')
<1>1. ASSUME UNCHANGED <<stock, ledger>>
      PROVE  ProjectsLedger => ProjectsLedger'
  BY <1>1 DEF ProjectsLedger, Ledger!Balance
<1>2. CASE InsertProduct(j)
  BY <1>1, <1>2, InsertProductSound DEF InsertProduct, InJob
<1>3. CASE RefuseCreate(j) \/ JobDies(j)
  BY <1>1, <1>3, JobLeaves DEF RefuseCreate, JobDies, InJob
<1>4. CASE Reload(j)
  BY <1>1, <1>4, ReloadSound DEF Reload, InJob
<1>5. CASE Write(j)
  BY <1>1, <1>5, WriteSound DEF Write, InJob
<1>6. CASE Invalidate(j)
  BY <1>1, <1>6, InvalidateSound DEF Invalidate
<1>7. CASE Commit(j)
  <2>1. job[j].pc = "commit" /\ job' = [job EXCEPT ![j] = Idle]
    BY <1>7 DEF Commit
  <2>2. CASE CommitCreate(j)
    BY <2>1, <2>2, CommitCreateSound
  <2>3. CASE CommitEdit(j)
    BY <2>1, <2>3, CommitEditSound
  <2>4. CASE CommitAlert(j)
    BY <2>1, <2>4, CommitAlertSound DEF StaleAlertCommits, CommitAlert
  <2>5. CASE CommitCount(j)
    BY <2>1, <2>5, CommitCountSound
  <2> QED BY <1>7, <2>2, <2>3, <2>4, <2>5 DEF Commit
<1>8. CASE JobStarts(j)
  <2>1. Changed \subseteq Products
    BY CatalogAssumption
  <2>2. CASE \E base \in Bases, units \in Openings : StartCreate(j, base, units)
    BY <1>1, <2>2, StartCreateSound DEF StartCreate, InJob
  <2>3. CASE \E p \in Changed : \E edit \in Edits : ReadProduct(j, p, edit)
    BY <1>1, <2>1, <2>3, ReadProductSound DEF ReadProduct, InJob
  <2>4. CASE \E p \in Changed : \E min \in Alerts : ReadStock(j, p, min)
    BY <1>1, <2>1, <2>4, ReadStockSound DEF ReadStock, InJob
  <2>5. CASE \E p \in Changed : \E delta \in {-1, 1} : Count(j, p, delta)
    BY <1>1, <2>1, <2>5, CountSound DEF Count, InJob
  <2> QED BY <1>8, <2>2, <2>3, <2>4, <2>5 DEF JobStarts
<1> QED BY <1>2, <1>3, <1>4, <1>5, <1>6, <1>7, <1>8 DEF JobStep

\* And every other step.
LEMMA CatalogNextSound ==
  ASSUME KInv, [CatalogNext]_catalogVars
  PROVE  KInv' /\ (ProjectsLedger /\ ~StaleAlertCommits => ProjectsLedger')
<1>1. CASE \E j \in Jobs : JobStep(j) \/ JobDies(j) \/ JobStarts(j)
  BY <1>1, JobStepSound
<1>2. CASE \E r \in Readers : ReaderStep(r)
  <2>1. UNCHANGED <<stock, ledger, product, alert, job>>
    BY <1>2 DEF ReaderStep, QueryProducts, QueryStock, CacheProducts, InReader
  <2> QED BY <2>1, CacheMoves DEF ProjectsLedger, Ledger!Balance
<1>3. CASE ListExpires
  <2>1. UNCHANGED <<stock, ledger, product, alert, job>>
    BY <1>3 DEF ListExpires, InReader
  <2> QED BY <2>1, CacheMoves DEF ProjectsLedger, Ledger!Balance
<1>4. CASE UNCHANGED catalogVars
  <2>1. UNCHANGED <<stock, ledger, product, alert, job>>
    BY <1>4 DEF catalogVars
  <2> QED BY <2>1, CacheMoves DEF ProjectsLedger, Ledger!Balance
<1> QED BY <1>1, <1>2, <1>3, <1>4 DEF CatalogNext

-----------------------------------------------------------------------------
(* Theorems *)

\* Locks, pending inserts and what each request remembers stay consistent.
THEOREM CatalogInductive == CatalogSpec => []KInv
<1>1. KInv /\ [CatalogNext]_catalogVars => KInv'
  BY CatalogNextSound
<1> QED BY <1>1, CatalogInitSound, PTL DEF CatalogSpec

\* Every product, alert level and stock row keeps the form the code gives it;
\* no count brings the shelf below 0, although it commits after its check.
THEOREM CatalogTypeCorrect == CatalogSpec => []CatalogTypeOK
<1>1. KInv => CatalogTypeOK
  BY DEF KInv
<1> QED BY <1>1, CatalogInductive, PTL

\* No two products ever share a SKU, however many creations from one name run
\* at a time, fail half-way or are tried again with the next suffix.
THEOREM SkusAreUnique == CatalogSpec => []SkuIsUnique
<1>1. KInv => SkuIsUnique
  BY DEF KInv
<1> QED BY <1>1, CatalogInductive, PTL

\* A creation is refused only when products have all of its SKUs.
THEOREM RefusalsAreReal == CatalogSpec => []ConflictIsReal
<1>1. ASSUME KInv PROVE ConflictIsReal
  <2> SUFFICES ASSUME NEW j \in Jobs, job[j].pc = "refused",
                      NEW n \in DOMAIN SkuAt[job[j].base]
               PROVE  Taken(SkuAt[job[j].base][n])
    BY DEF ConflictIsReal
  <2>1. Creating(job[j])
    BY <1>1, JobFields DEF JobRow, JobSound, Editing, Alerting, Counting, Ending
  <2>2. SkuAt[job[j].base] \in Seq(Skus)
    BY <2>1, CatalogAssumption DEF Creating
  <2>3. n \in 1..job[j].attempt /\ job[j].attempt \in Nat
    BY <2>1, <2>2 DEF Creating
  <2>4. n \in 1..(job[j].attempt - 1) \/ n = job[j].attempt
    BY <2>3
  <2> QED BY <2>1, <2>4 DEF Creating, SkuOf
<1>2. KInv => ConflictIsReal
  BY <1>1
<1> QED BY <1>2, CatalogInductive, PTL

\* In any order of commits, the shelf parts from its ledger only by an alert
\* level saved from a row that a movement has changed in the meantime.
THEOREM OnlyStaleAlertsUndo == CatalogSpec => OnlyAlertsUndoMovements
<1>1. ASSUME KInv, [CatalogNext]_catalogVars
      PROVE  [ProjectsLedger /\ ~ProjectsLedger' => StaleAlertCommits]_catalogVars
  BY <1>1, CatalogNextSound
<1>2. KInv /\ [CatalogNext]_catalogVars
        => [ProjectsLedger /\ ~ProjectsLedger' =>
              \E j \in Jobs : /\ job[j].kind = "alert" /\ job[j].pc = "commit"
                             /\ "current" \in job[j].cols
                             /\ job[j].entity.current # stock[job[j].p].current]_catalogVars
  BY <1>1 DEF StaleAlertCommits
<1> QED BY <1>2, CatalogInductive, PTL DEF CatalogSpec, OnlyAlertsUndoMovements

-----------------------------------------------------------------------------
(* The books.  Where no stale alert level commits, the catalogue implements  *)
(* the contract of the ledger: a product has no rows before its creation     *)
(* commits, and every count starts from the balance of the last row.         *)

StaleAlert(j) ==
  /\ job[j].kind = "alert" /\ job[j].pc = "commit"
  /\ "current" \in job[j].cols
  /\ job[j].entity.current # stock[job[j].p].current

NoStaleAlertCommits == [][\A j \in Jobs : Commit(j) => ~StaleAlert(j)]_catalogVars

Books == /\ ProjectsLedger
         /\ \A p \in Products : ~Exists(p) => ledger[p] = <<>>

BooksKept == Books' /\ [Ledger!Post]_ledger

\* The opening row is the first of its product.
LEMMA OpeningPosts ==
  ASSUME NEW n \in Nat
  PROVE  Opening(n) = <<>> \/ Ledger!Extends(<<>>, Opening(n))
<1>1. PICK rows \in Seq(Ledger!LedgerRow) : rows = Opening(n)
  BY OpeningBook
<1>2. rows = <<>> \/ (Len(rows) = 1 /\ Ledger!MayFollow(<<>>, rows[1]))
  BY <1>1, OpeningBook DEF Ledger!Opens
<1>3. CASE Len(rows) = 1 /\ Ledger!MayFollow(<<>>, rows[1])
  <2>1. rows = Append(<<>>, rows[1])
    BY <1>3
  <2> QED BY <1>1, <1>3, <2>1 DEF Ledger!Extends
<1> QED BY <1>1, <1>2, <1>3

\* A creation opens the book of its product.
LEMMA CreateKeepsBooks ==
  ASSUME KInv, Books, NEW j \in Jobs, job[j].pc = "commit", CommitCreate(j),
         job' = [job EXCEPT ![j] = Idle]
  PROVE  BooksKept
<1>1. ProjectsLedger'
  BY CommitCreateSound DEF Books
<1>2. /\ product \in [Products -> ProductRow] /\ ledger \in [Products -> Seq(Ledger!LedgerRow)]
      /\ Creating(job[j])
  BY DEF KInv, JobSound, CommitCreate, CatalogTypeOK, EngineTypeOK, Ledger!TypeOK
<1>3. PICK p \in Products, sku \in Skus, units \in Nat :
        /\ p = job[j].p /\ sku = SkuOf(job[j]) /\ units = job[j].units /\ ~Exists(p)
  BY <1>2, CatalogAssumption DEF Creating, Ending, SkuOf
<1>4. /\ product' = [product EXCEPT ![p].sku = sku, ![p].active = TRUE]
      /\ ledger' = [ledger EXCEPT ![p] = Opening(units)]
  BY <1>3 DEF CommitCreate, SkuOf, SkuTried
<1>5. \A q \in Products : Exists(q)' <=> Exists(q) \/ q = p
  BY <1>2, <1>4, CatalogAssumption DEF Exists, ProductRow
<1>6. /\ ledger' \in [Products -> Seq(Ledger!LedgerRow)]
      /\ ledger[p] = <<>> /\ ledger'[p] = Opening(units)
      /\ \A q \in Products \ {p} : ledger'[q] = ledger[q]
  BY <1>2, <1>3, <1>4, OpeningBook DEF Books
<1>7. \A q \in Products : ~Exists(q)' => ledger'[q] = <<>>
  BY <1>5, <1>6 DEF Books
<1>8. ledger'[p] = <<>> \/ Ledger!Extends(<<>>, ledger'[p])
  BY <1>6, OpeningPosts
<1>9. Ledger!Post
  BY <1>6, <1>8 DEF Ledger!Post
<1> QED BY <1>1, <1>7, <1>9 DEF BooksKept, Books

\* A count adds a row that starts from the balance before it.
LEMMA CountKeepsBooks ==
  ASSUME KInv, Books, NEW j \in Jobs, job[j].pc = "commit", CommitCount(j),
         job' = [job EXCEPT ![j] = Idle]
  PROVE  BooksKept
<1>1. ProjectsLedger'
  BY CommitCountSound DEF Books
<1>2. /\ Counting(job[j]) /\ stock \in [Products -> StockRow]
      /\ ledger \in [Products -> Seq(Ledger!LedgerRow)] /\ UNCHANGED product
  BY DEF KInv, JobSound, CommitCount, CatalogTypeOK, EngineTypeOK, Ledger!TypeOK
<1>3. PICK p \in Products, delta \in {-1, 1}, saldo \in Nat :
        /\ p = job[j].p /\ delta = job[j].units /\ saldo = stock[p].current + delta
        /\ Exists(p)
  BY <1>2 DEF Counting
<1>4. PICK row : row = [tipo |-> IF delta > 0 THEN "COMPRA" ELSE "PERDA", delta |-> delta,
                        saldo |-> saldo, order |-> NoOrder]
  OBVIOUS
<1>5. ledger' = [ledger EXCEPT ![p] = Append(ledger[p], row)]
  BY <1>3, <1>4 DEF CommitCount
<1>6. PICK rows \in Seq(Ledger!LedgerRow) : rows = ledger[p]
  BY <1>2
<1>7. stock[p].current = Ledger!Balance(rows)
  BY <1>6 DEF Books, ProjectsLedger
<1>8. Ledger!MayFollow(rows, row)
  <2>1. row \in Ledger!LedgerRow
    BY <1>4 DEF Ledger!LedgerRow, Ledger!LedgerTipo
  <2>2. row.tipo = IF delta > 0 THEN "COMPRA" ELSE "PERDA"
    BY <1>4
  <2>3. row.delta = delta /\ row.saldo = saldo /\ row.order = NoOrder
    BY <1>4
  <2>4. Ledger!SignAllowed(row.tipo, row.delta)
    BY <2>2, <2>3 DEF Ledger!SignAllowed
  <2> QED BY <1>3, <1>7, <2>1, <2>2, <2>3, <2>4 DEF Ledger!MayFollow
<1>9. PICK more \in Seq(Ledger!LedgerRow) : more = Append(rows, row) /\ more[Len(more)] = row
  <2>1. row \in Ledger!LedgerRow
    BY <1>8 DEF Ledger!MayFollow
  <2>2. PICK more : more = Append(rows, row)
    OBVIOUS
  <2>3. /\ more \in Seq(Ledger!LedgerRow)
        /\ Len(rows) \in Nat /\ Len(more) = Len(rows) + 1
        /\ more[Len(rows) + 1] = row
    BY <2>1, <2>2
  <2> QED BY <2>2, <2>3
<1>10. /\ ledger' \in [Products -> Seq(Ledger!LedgerRow)]
       /\ ledger'[p] = more /\ \A q \in Products \ {p} : ledger'[q] = ledger[q]
  BY <1>2, <1>5, <1>6, <1>9
<1>11. Ledger!Extends(ledger[p], ledger'[p])
  BY <1>6, <1>8, <1>9, <1>10 DEF Ledger!Extends
<1>12. Ledger!Post
  BY <1>10, <1>11 DEF Ledger!Post
<1>13. \A q \in Products : ~Exists(q)' => ledger'[q] = <<>>
  BY <1>2, <1>3, <1>10 DEF Books, Exists
<1> QED BY <1>1, <1>12, <1>13 DEF BooksKept, Books

\* An edit writes no SKU, an alert level no product: the books stay.
LEMMA OthersKeepBooks ==
  ASSUME KInv, Books, NEW j \in Jobs, job[j].pc = "commit", CommitEdit(j) \/ CommitAlert(j),
         ~StaleAlert(j), job' = [job EXCEPT ![j] = Idle]
  PROVE  BooksKept
<1>1. UNCHANGED ledger
  BY DEF CommitEdit, CommitAlert
<1>2. \A q \in Products : Exists(q)' <=> Exists(q)
  <2>1. CASE CommitAlert(j)
    BY <2>1 DEF CommitAlert, Exists
  <2>2. CASE CommitEdit(j)
    <3>1. /\ Editing(job[j]) /\ product \in [Products -> ProductRow]
      BY <2>2 DEF KInv, JobSound, CommitEdit, CatalogTypeOK
    <3>2. PICK p \in Products : p = job[j].p
      BY <3>1 DEF Editing
    <3>3. PICK row \in ProductRow : row = Overlay(product[p], j) /\ row.sku = product[p].sku
      BY <3>1, <3>2, OverlaidProduct
    <3>4. product' = [product EXCEPT ![p] = row]
      BY <2>2, <3>2, <3>3 DEF CommitEdit
    <3>5. \A q \in Products : product'[q].sku = product[q].sku
      BY <3>1, <3>3, <3>4
    <3> QED BY <3>5 DEF Exists
  <2> QED BY <2>1, <2>2
<1>3. ProjectsLedger'
  <2>1. CASE CommitEdit(j)
    BY <2>1, CommitEditSound DEF Books
  <2>2. CASE CommitAlert(j)
    BY <2>2, CommitAlertSound DEF Books, StaleAlert, CommitAlert
  <2> QED BY <2>1, <2>2
<1> QED BY <1>1, <1>2, <1>3 DEF BooksKept, Books

\* Nothing but a commit writes.
LEMMA BooksStep ==
  ASSUME KInv, Books, [CatalogNext]_catalogVars, \A j \in Jobs : Commit(j) => ~StaleAlert(j)
  PROVE  BooksKept
<1>1. ASSUME NEW j \in Jobs, Commit(j) PROVE BooksKept
  <2>1. job[j].pc = "commit" /\ job' = [job EXCEPT ![j] = Idle] /\ ~StaleAlert(j)
    BY <1>1 DEF Commit
  <2> QED BY <1>1, <2>1, CreateKeepsBooks, CountKeepsBooks, OthersKeepBooks DEF Commit
<1>2. CASE UNCHANGED <<stock, ledger, product>>
  BY <1>2 DEF BooksKept, Books, ProjectsLedger, Ledger!Balance, Exists
<1>3. ASSUME NEW j \in Jobs, JobStep(j) PROVE BooksKept
  <2>1. CASE Commit(j)
    BY <1>1, <2>1
  <2>2. CASE ~Commit(j)
    BY <1>2, <1>3, <2>2
       DEF JobStep, InsertProduct, RefuseCreate, Reload, Write, Invalidate, InJob
  <2> QED BY <2>1, <2>2
<1>4. ASSUME NEW j \in Jobs, JobDies(j) \/ JobStarts(j) PROVE BooksKept
  <2>1. CASE JobDies(j)
    BY <1>2, <2>1, Zenon DEF JobDies, InJob
  <2>2. ASSUME NEW base, NEW units, StartCreate(j, base, units) PROVE BooksKept
    BY <1>2, <2>2, Zenon DEF StartCreate, InJob
  <2>3. ASSUME NEW p, NEW edit, ReadProduct(j, p, edit) PROVE BooksKept
    BY <1>2, <2>3, Zenon DEF ReadProduct, InJob
  <2>4. ASSUME NEW p, NEW min, ReadStock(j, p, min) PROVE BooksKept
    BY <1>2, <2>4, Zenon DEF ReadStock, InJob
  <2>5. ASSUME NEW p, NEW delta, Count(j, p, delta) PROVE BooksKept
    BY <1>2, <2>5, Zenon DEF Count, InJob
  <2> QED BY <1>4, <2>1, <2>2, <2>3, <2>4, <2>5 DEF JobStarts
<1>5. ASSUME NEW r \in Readers, ReaderStep(r) PROVE BooksKept
  BY <1>2, <1>5 DEF ReaderStep, QueryProducts, QueryStock, CacheProducts, InReader
<1>6. CASE ListExpires \/ UNCHANGED catalogVars
  BY <1>2, <1>6 DEF ListExpires, InReader, catalogVars
<1> QED BY <1>3, <1>4, <1>5, <1>6 DEF CatalogNext

\* Creations, edits, removals and counts keep the books for ever, in whatever order
\* their requests commit or die, as long as no stale alert level commits: the shelf
\* is the balance of its ledger, and every row follows from the one before.
THEOREM CatalogKeepsTheBooks ==
  CatalogSpec /\ NoStaleAlertCommits => Ledger!Spec /\ []ProjectsLedger
<1>1. CatalogInit => Books /\ Ledger!Init
  <2> SUFFICES ASSUME CatalogInit PROVE Books /\ Ledger!Init
    OBVIOUS
  <2> DEFINE initial == [p \in Products |-> IF p \in DOMAIN OldProducts THEN OldUnits ELSE 0]
  <2>1. initial \in [Products -> Nat] /\ EngineInit(initial)
    BY CatalogAssumption DEF CatalogInit
  <2>2. ASSUME NEW p \in Products, ~Exists(p) PROVE ledger[p] = <<>>
    <3>1. p \notin DOMAIN OldProducts
      BY <2>2, CatalogAssumption DEF CatalogInit, Exists
    <3>2. ledger[p] = Opening(0)
      BY <2>1, <3>1 DEF EngineInit
    <3> QED BY <3>2 DEF Opening
  <2> HIDE DEF initial
  <2>3. ProjectsLedger /\ Ledger!Init
    BY <2>1, EngineStarts
  <2> QED BY <2>2, <2>3 DEF Books
<1>2. KInv /\ Books /\ [CatalogNext]_catalogVars
        /\ [\A j \in Jobs : Commit(j) => ~StaleAlert(j)]_catalogVars
        => Books' /\ [Ledger!Post]_ledger
  <2>1. ASSUME KInv, Books, UNCHANGED catalogVars PROVE BooksKept
    BY <2>1 DEF catalogVars, BooksKept, Books, ProjectsLedger, Ledger!Balance, Exists
  <2> QED BY <2>1, BooksStep DEF BooksKept
<1>3. Books => ProjectsLedger
  BY DEF Books
<1> QED
  BY <1>1, <1>2, <1>3, CatalogInductive, PTL
  DEF CatalogSpec, NoStaleAlertCommits, Ledger!Spec
-----------------------------------------------------------------------------
(* The cached list.  What a reader holds, and what is cached, is current as  *)
(* long as no change has overtaken it, and no change is then between its     *)
(* invalidation and its commit.                                              *)

CurrentRows == [p \in Active |-> product[p].price]

ReaderFresh(r) ==
  /\ reader[r].pc # "idle" => ~Invalidated
  /\ reader[r].pc = "stock" => reader[r].rows = CurrentRows
  /\ reader[r].pc = "cache" => reader[r].rows = CurrentList

RInv ==
  /\ DOMAIN reader = Readers
  /\ \A r \in Readers \ racing : ReaderFresh(r)
  /\ list # NoList /\ ~raced => ~Invalidated /\ list = CurrentList

\* Where no product and no stock row changes, what was current stays so.
LEMMA StillCurrent ==
  ASSUME UNCHANGED <<stock, product>>
  PROVE  CurrentRows' = CurrentRows /\ CurrentList' = CurrentList
BY DEF CurrentRows, CurrentList, Active, Exists, Listed, Available

\* A step of a request that neither invalidates nor commits.
LEMMA QuietStep ==
  ASSUME RInv, UNCHANGED <<stock, product, list, reader, racing, raced>>,
         Invalidated' => Invalidated
  PROVE  RInv'
BY StillCurrent DEF RInv, ReaderFresh

\* The row a request moves to opens no window between invalidation and commit.
LEMMA NothingInvalidated ==
  ASSUME KInv, NEW j \in Jobs, NEW new, job' = [job EXCEPT ![j] = new],
         new.kind = "alert" \/ new.pc # "commit"
  PROVE  Invalidated' => Invalidated
<1>1. job'[j] = new /\ \A i \in Jobs \ {j} : job'[i] = job[i]
  BY DEF KInv
<1> QED BY <1>1 DEF Invalidated

\* A request that starts, works or dies.
LEMMA WorkKeepsLists ==
  ASSUME KInv, RInv, NEW j \in Jobs, JobDies(j) \/ JobStarts(j)
           \/ InsertProduct(j) \/ RefuseCreate(j) \/ Reload(j) \/ Write(j)
  PROVE  RInv'
<1>0. job[j] \in JobRow /\ job \in [Jobs -> JobRow]
  BY DEF KInv
<1>1. Idle.pc # "commit"
  BY DEF Idle
<1>2. ASSUME InJob, NEW new, job' = [job EXCEPT ![j] = new],
             new.kind = "alert" \/ new.pc # "commit"
      PROVE  RInv'
  <2>1. job'[j] = new /\ \A i \in Jobs \ {j} : job'[i] = job[i]
    BY <1>0, <1>2
  <2> QED BY <1>2, <2>1, NothingInvalidated, QuietStep DEF InJob
<1>3. CASE RefuseCreate(j) \/ JobDies(j)
  BY <1>1, <1>2, <1>3, Zenon DEF RefuseCreate, JobDies
<1>4. CASE InsertProduct(j)
  <2>1. PICK n, pc : /\ pc \in {"insert", "refused", "invalidate"}
                    /\ job' = [job EXCEPT ![j].attempt = n, ![j].pc = pc]
    <3>1. CASE Taken(SkuTried(j))
      BY <1>4, <3>1 DEF InsertProduct, NextAttempt
    <3>2. CASE ~Taken(SkuTried(j))
      <4>1. job' = [job EXCEPT ![j].pc = "invalidate"]
        BY <1>4, <3>2 DEF InsertProduct, Goto
      <4>2. job' = [job EXCEPT ![j].attempt = job[j].attempt, ![j].pc = "invalidate"]
        BY <4>1, <1>0 DEF JobRow
      <4> QED BY <4>2
    <3> QED BY <3>1, <3>2
  <2>2. PICK new : new = [job[j] EXCEPT !.attempt = n, !.pc = pc]
    OBVIOUS
  <2>3. job' = [job EXCEPT ![j] = new]
    BY <2>1, <2>2
  <2>4. new.pc = pc
    BY <1>0, <2>2 DEF JobRow
  <2> QED BY <1>2, <1>4, <2>1, <2>3, <2>4 DEF InsertProduct
<1>5. CASE Reload(j)
  <2>1. job[j] \in JobRow
    BY <1>0
  <2>2. PICK cols : cols = {c \in DOMAIN job[j].entity : job[j].entity[c] # Row(j)[c]}
    OBVIOUS
  <2>3. PICK new : new = [job[j] EXCEPT !.pc = "write", !.cols = cols]
    OBVIOUS
  <2>4. job' = [job EXCEPT ![j] = new] /\ new.pc = "write" /\ InJob
    BY <1>5, <2>1, <2>2, <2>3 DEF Reload, JobRow
  <2> QED BY <1>2, <2>4
<1>6. CASE Write(j)
  <2>1. job[j] \in JobRow /\ job[j].kind \in {"edit", "alert"}
    BY <1>6, JobFields DEF Write, JobRow, JobSound, Creating, Counting, Ending
  <2>2. PICK new : new = [job[j] EXCEPT !.pc = IF job[j].kind = "edit" THEN "invalidate" ELSE "commit"]
    OBVIOUS
  <2>3. job' = [job EXCEPT ![j] = new] /\ InJob
    BY <1>6, <2>2 DEF Write, Goto
  <2>4. new.kind = "alert" \/ new.pc # "commit"
    BY <2>1, <2>2 DEF JobRow
  <2> QED BY <1>2, <2>3, <2>4
<1>7. CASE JobStarts(j)
  <2>1. ASSUME NEW base \in Bases, NEW units \in Openings, StartCreate(j, base, units)
        PROVE  RInv'
    <3>1. PICK p : p = CHOOSE q \in Unused : TRUE
      OBVIOUS
    <3>2. PICK new : new = [Idle EXCEPT !.kind = "create", !.pc = "insert", !.p = p,
                                    !.base = base, !.attempt = 1, !.units = units]
      OBVIOUS
    <3>3. job' = [job EXCEPT ![j] = new] /\ InJob
      BY <2>1, <3>1, <3>2 DEF StartCreate
    <3>4. new.pc # "commit"
      BY <3>2 DEF Idle
    <3> QED BY <1>2, <3>3, <3>4
  <2>2. ASSUME NEW p, NEW edit, ReadProduct(j, p, edit)
        PROVE  RInv'
    <3>1. PICK new : new = [Idle EXCEPT !.kind = "edit", !.pc = "reload", !.p = p,
                                        !.entity = Assign(product[p], edit)]
      OBVIOUS
    <3>2. job' = [job EXCEPT ![j] = new] /\ InJob
      BY <2>2, <3>1 DEF ReadProduct
    <3>3. new.pc # "commit"
      BY <3>1 DEF Idle
    <3> QED BY <1>2, <3>2, <3>3
  <2>3. ASSUME NEW p, NEW min, ReadStock(j, p, min)
        PROVE  RInv'
    <3>1. PICK new : new = [Idle EXCEPT !.kind = "alert", !.pc = "reload", !.p = p,
                                        !.entity = Assign(StockEntity(p), [min |-> min])]
      OBVIOUS
    <3>2. job' = [job EXCEPT ![j] = new] /\ InJob
      BY <2>3, <3>1 DEF ReadStock
    <3>3. new.pc # "commit"
      BY <3>1 DEF Idle
    <3> QED BY <1>2, <3>2, <3>3
  <2>4. ASSUME NEW p, NEW delta, Count(j, p, delta)
        PROVE  RInv'
    <3>1. PICK new : new = [Idle EXCEPT !.kind = "count", !.pc = "invalidate", !.p = p,
                                        !.units = delta, !.cols = {"current"}]
      OBVIOUS
    <3>2. job' = [job EXCEPT ![j] = new] /\ InJob
      BY <2>4, <3>1 DEF Count
    <3>3. new.pc # "commit"
      BY <3>1 DEF Idle
    <3> QED BY <1>2, <3>2, <3>3
  <2> QED BY <1>7, <2>1, <2>2, <2>3, <2>4 DEF JobStarts
<1> QED BY <1>3, <1>4, <1>5, <1>6, <1>7

\* The invalidation drops the list and marks whoever is reading.
LEMMA InvalidateKeepsLists ==
  ASSUME RInv, NEW j \in Jobs, Invalidate(j)
  PROVE  RInv'
BY DEF Invalidate, RInv, ReaderFresh, Reading

\* A change commits after its own invalidation, so nothing unmarked is left; an
\* alert level marks what it makes outdated.
LEMMA CommitKeepsLists ==
  ASSUME KInv, RInv, NEW j \in Jobs, Commit(j)
  PROVE  RInv'
<1>1. /\ job[j].pc = "commit" /\ job' = [job EXCEPT ![j] = Idle] /\ Idle.pc # "commit"
      /\ UNCHANGED <<list, reader>>
  BY DEF Commit, Idle
<1>2. CASE job[j].kind # "alert"
  <2>1. Invalidated /\ UNCHANGED <<racing, raced>>
    BY <1>1, <1>2 DEF Commit, Invalidated
  <2> QED BY <1>1, <2>1 DEF RInv, ReaderFresh
<1>3. CASE job[j].kind = "alert" /\ stock' # stock
  <2>1. racing' = Reading /\ raced'
    BY <1>3 DEF Commit
  <2> QED BY <1>1, <2>1 DEF RInv, ReaderFresh, Reading
<1>4. CASE job[j].kind = "alert" /\ stock' = stock
  <2>1. UNCHANGED <<product, racing, raced>>
    BY <1>4 DEF Commit, CommitCreate, CommitEdit, CommitAlert, CommitCount
  <2>2. job'[j] = Idle /\ \A i \in Jobs \ {j} : job'[i] = job[i]
    BY <1>1 DEF KInv
  <2>3. Invalidated' => Invalidated
    BY <1>1, <2>2, NothingInvalidated
  <2> QED BY <1>1, <1>4, <2>1, <2>3, QuietStep
<1> QED BY <1>2, <1>3, <1>4

\* A reader that no change overtakes brings a current list into the cache.
LEMMA ReadKeepsLists ==
  ASSUME RInv, NEW r \in Readers, ReaderStep(r)
  PROVE  RInv'
<1>1. /\ DOMAIN reader = Readers
      /\ UNCHANGED <<stock, product, job>>
      /\ CurrentRows' = CurrentRows /\ CurrentList' = CurrentList
      /\ Invalidated' <=> Invalidated
  BY StillCurrent DEF RInv, ReaderStep, QueryProducts, QueryStock, CacheProducts, InReader, Invalidated
<1>2. CASE QueryProducts(r)
  <2>1. PICK new : /\ new = [pc |-> "stock", rows |-> CurrentRows]
                   /\ reader' = [reader EXCEPT ![r] = new]
    BY <1>2 DEF QueryProducts, CurrentRows
  <2>2. /\ DOMAIN reader' = Readers /\ reader'[r] = new
        /\ \A q \in Readers \ {r} : reader'[q] = reader[q]
    BY <1>1, <2>1
  <2>3. /\ UNCHANGED <<list, raced>>
        /\ racing' = IF Invalidated THEN racing \cup {r} ELSE racing \ {r}
    BY <1>2 DEF QueryProducts
  <2>4. r \notin racing' => ReaderFresh(r)'
    BY <1>1, <2>1, <2>2, <2>3 DEF ReaderFresh
  <2>5. \A q \in Readers \ {r} : q \notin racing' => ReaderFresh(q)'
    BY <1>1, <2>2, <2>3 DEF RInv, ReaderFresh
  <2> QED BY <1>1, <2>2, <2>3, <2>4, <2>5 DEF RInv
<1>3. CASE QueryStock(r)
  <2>1. PICK new : /\ new = [pc |-> "cache", rows |-> Listed(reader[r].rows)]
                   /\ reader' = [reader EXCEPT ![r] = new]
    BY <1>3 DEF QueryStock
  <2>2. /\ DOMAIN reader' = Readers /\ reader'[r] = new
        /\ \A q \in Readers \ {r} : reader'[q] = reader[q]
    BY <1>1, <2>1
  <2>3. UNCHANGED <<list, racing, raced>> /\ reader[r].pc = "stock"
    BY <1>3 DEF QueryStock
  <2>4. r \notin racing' => ReaderFresh(r)'
    <3>1. ASSUME r \notin racing PROVE reader[r].rows = CurrentRows /\ ~Invalidated
      BY <2>3, <3>1 DEF RInv, ReaderFresh
    <3>2. Listed(CurrentRows) = CurrentList
      BY DEF CurrentRows, CurrentList
    <3> QED BY <1>1, <2>1, <2>2, <2>3, <3>1, <3>2 DEF ReaderFresh
  <2>5. \A q \in Readers \ {r} : q \notin racing' => ReaderFresh(q)'
    BY <1>1, <2>2, <2>3 DEF RInv, ReaderFresh
  <2> QED BY <1>1, <2>2, <2>3, <2>4, <2>5 DEF RInv
<1>4. CASE CacheProducts(r)
  <2>1. /\ DOMAIN reader' = Readers /\ reader'[r] = NoReader
        /\ \A q \in Readers \ {r} : reader'[q] = reader[q]
        /\ NoReader.pc = "idle"
    BY <1>1, <1>4 DEF CacheProducts, NoReader
  <2>2. /\ list' = reader[r].rows /\ racing' = racing \ {r} /\ reader[r].pc = "cache"
        /\ raced' <=> r \in racing
    BY <1>4 DEF CacheProducts
  <2>3. \A q \in Readers : q \notin racing' => ReaderFresh(q)'
    BY <1>1, <2>1, <2>2 DEF RInv, ReaderFresh
  <2>4. ~raced' => ~Invalidated' /\ list' = CurrentList'
    BY <1>1, <2>2 DEF RInv, ReaderFresh
  <2> QED BY <2>1, <2>3, <2>4 DEF RInv
<1> QED BY <1>2, <1>3, <1>4 DEF ReaderStep

\* However requests, readers and the expiry of the key interleave, a cached list is
\* out of date only if its reader was overtaken by a change between the change's
\* invalidation and its commit, or setMinStock has moved the stock since.
THEOREM StaleListsWereRaced == CatalogSpec => []OnlyRacedListsAreStale
<1>1. CatalogInit => RInv
  BY DEF CatalogInit, RInv, ReaderFresh, NoReader
<1>2. KInv /\ RInv /\ [CatalogNext]_catalogVars => RInv'
  <2> SUFFICES ASSUME KInv, RInv, [CatalogNext]_catalogVars PROVE RInv'
    OBVIOUS
  <2>1. CASE \E j \in Jobs : JobStep(j) \/ JobDies(j) \/ JobStarts(j)
    BY <2>1, WorkKeepsLists, InvalidateKeepsLists, CommitKeepsLists DEF JobStep
  <2>2. CASE \E r \in Readers : ReaderStep(r)
    BY <2>2, ReadKeepsLists
  <2>3. CASE ListExpires
    <3>1. /\ UNCHANGED <<stock, product, job, reader, racing>> /\ list' = NoList
          /\ CurrentRows' = CurrentRows /\ CurrentList' = CurrentList
      BY <2>3, StillCurrent DEF ListExpires, InReader
    <3>2. Invalidated' <=> Invalidated
      BY <3>1 DEF Invalidated
    <3> QED BY <3>1, <3>2 DEF RInv, ReaderFresh
  <2>4. CASE UNCHANGED catalogVars
    <3>1. UNCHANGED <<stock, product, list, reader, racing, raced>>
      BY <2>4 DEF catalogVars
    <3>2. Invalidated' => Invalidated
      BY <2>4 DEF catalogVars, Invalidated
    <3> QED BY <3>1, <3>2, QuietStep
  <2> QED BY <2>1, <2>2, <2>3, <2>4 DEF CatalogNext
<1>3. RInv => OnlyRacedListsAreStale
  BY DEF RInv, OnlyRacedListsAreStale
<1> QED BY <1>1, <1>2, <1>3, CatalogInductive, PTL DEF CatalogSpec
=============================================================================
