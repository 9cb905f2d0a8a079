------------------------------- MODULE Catalog -------------------------------
(***************************************************************************)
(* ProductsService: products are created with a SKU from the unique index, *)
(* edited and removed, counted and given an alert level, and listed through*)
(* a cache.  Every change is a job of one request transaction: what it     *)
(* writes takes effect at its commit, and until then its row locks keep    *)
(* other writers away; readers see the committed rows.  TypeORM's save()   *)
(* loads the row again and writes every column in which the entity differs *)
(* from it, also those that are merely older.                              *)
(***************************************************************************)
EXTENDS StockEngine

CONSTANTS Jobs,        \* requests that change the catalog
          Readers,     \* requests that list the products
          NoProduct,   \* the job has no product yet
          Skus, NoSku, \* sku values; NoSku: the product is not created yet
          Bases,       \* what skuBase can be
          SkuAt,       \* the SKU of each base at each attempt (MAX_TENTATIVAS of them)
          Prices,
          Edits,       \* what an UpdateProductDto or remove() assigns
          Alerts,      \* min_stock values
          Openings,    \* initial_stock values
          Changed,     \* bound: the products edited, counted and given an alert
          NoList,      \* nothing is cached, or nothing read
          OldProducts, \* the products that exist from the start, with their SKUs
          OldUnits,    \* units of each of them on the shelf
          MayFail      \* bound: whether requests may die

ASSUME CatalogAssumption ==
  /\ NoProduct \notin Products /\ NoSku \notin Skus
  /\ \A b \in Bases : SkuAt[b] \in Seq(Skus) \ {<<>>}
  /\ 0 \in Alerts /\ Alerts \subseteq Nat /\ Openings \subseteq Nat /\ OldUnits \in Nat
  /\ Prices # {} /\ Changed \subseteq Products
  /\ DOMAIN OldProducts \subseteq Products
  /\ \A p \in DOMAIN OldProducts : OldProducts[p] \in Skus
  /\ \A p, q \in DOMAIN OldProducts : OldProducts[p] = OldProducts[q] => p = q

\* update() drops the DTO's sku, and remove() only clears ativo.
ASSUME EditsAssumption ==
  \A edit \in Edits : /\ DOMAIN edit \subseteq {"active", "price"}
                      /\ "active" \in DOMAIN edit => edit.active \in BOOLEAN
                      /\ "price" \in DOMAIN edit => edit.price \in Prices

VARIABLES product,  \* produtos
          alert,    \* min_stock of movimentacoes_estoque
          list,     \* the cached product list
          job, reader,
          racing,   \* history: readers whose listing a change overtakes
          raced     \* history: whether the cached list comes from one of them

catalogVars == <<stock, ledger, product, alert, list, job, reader, racing, raced>>

ProductRow == [sku : Skus \cup {NoSku}, active : BOOLEAN, price : Prices]
Exists(p) == product[p].sku # NoSku

StockEntity(p) == [current |-> stock[p].current, reserved |-> stock[p].reserved,
                   min |-> alert[p]]

NoEntity == [none |-> TRUE]
Idle == [kind |-> "none", pc |-> "idle", p |-> NoProduct, base |-> NoSku, attempt |-> 0,
         units |-> 0, entity |-> NoEntity, cols |-> {}]

NoReader == [pc |-> "idle", rows |-> NoList]

CatalogInit ==
  /\ EngineInit([p \in Products |-> IF p \in DOMAIN OldProducts THEN OldUnits ELSE 0])
  /\ product = [p \in Products |->
       [sku |-> IF p \in DOMAIN OldProducts THEN OldProducts[p] ELSE NoSku,
        active |-> p \in DOMAIN OldProducts,
        price |-> CHOOSE v \in Prices : TRUE]]
  /\ alert = [p \in Products |-> 0]
  /\ list = NoList
  /\ job = [j \in Jobs |-> Idle]
  /\ reader = [r \in Readers |-> NoReader]
  /\ racing = {}
  /\ raced = FALSE

Goto(j, pc) == job' = [job EXCEPT ![j].pc = pc]
InJob == UNCHANGED <<stock, ledger, product, alert, list, reader, racing, raced>>

\* Mutant: nobody waits for a row.
LockedByNobody(table, p) == FALSE

\* the row is locked by a job that has written it and not ended
Locked(table, p) == \E j \in Jobs : /\ job[j].p = p /\ job[j].kind \in table
                                    /\ job[j].pc \in {"invalidate", "commit"}
                                    /\ job[j].cols # {}
ProductTable == {"edit"}
StockTable == {"alert", "count"}

-----------------------------------------------------------------------------
(* create *)

\* ids nobody has, one as good as the other
Unused == {p \in Products : ~Exists(p) /\ \A j \in Jobs : job[j].p # p}

StartCreate(j, base, units) ==
  /\ job[j].pc = "idle"
  /\ Unused # {}
  /\ job' = [job EXCEPT ![j] =
       [Idle EXCEPT !.kind = "create", !.pc = "insert", !.p = CHOOSE p \in Unused : TRUE,
                    !.base = base, !.attempt = 1, !.units = units]]
  /\ InJob

SkuTried(j) == SkuAt[job[j].base][job[j].attempt]

Taken(sku) == \E p \in Products : product[p].sku = sku

\* inserted by a transaction that has not ended
Pending(sku) == \E i \in Jobs : job[i].kind = "create" /\ SkuTried(i) = sku
                                /\ job[i].pc \in {"invalidate", "commit"}

NextAttempt(j) ==
  job' = [job EXCEPT ![j].attempt = IF @ < Len(SkuAt[job[j].base]) THEN @ + 1 ELSE @,
                     ![j].pc = IF job[j].attempt < Len(SkuAt[job[j].base])
                               THEN "insert" ELSE "refused"]

\* Mutant: an insert that has not committed is taken for a conflict.
InsertProductNotWaiting(j) ==
  /\ job[j].pc = "insert"
  /\ IF Taken(SkuTried(j)) \/ Pending(SkuTried(j)) THEN NextAttempt(j) ELSE Goto(j, "invalidate")
  /\ InJob

\* Mutant: there is no unique index that waits.
InsertProductUnindexed(j) ==
  /\ job[j].pc = "insert"
  /\ IF Taken(SkuTried(j)) THEN NextAttempt(j) ELSE Goto(j, "invalidate")
  /\ InJob

\* SAVEPOINT, INSERT: the unique index waits for whoever has inserted the same
\* SKU to end; on 23505 the next suffix is tried
InsertProduct(j) ==
  /\ job[j].pc = "insert"
  /\ ~Pending(SkuTried(j))
  /\ IF Taken(SkuTried(j)) THEN NextAttempt(j) ELSE Goto(j, "invalidate")
  /\ InJob

\* the fifth conflict is thrown
RefuseCreate(j) ==
  /\ job[j].pc = "refused"
  /\ job' = [job EXCEPT ![j] = Idle]
  /\ InJob

-----------------------------------------------------------------------------
(* update, remove and setMinStock: read, reload, write. *)

Assign(row, edit) == [c \in DOMAIN row |-> IF c \in DOMAIN edit THEN edit[c] ELSE row[c]]

\* findOne and Object.assign; the DTO's sku is dropped
ReadProduct(j, p, edit) ==
  /\ job[j].pc = "idle"
  /\ Exists(p)
  /\ job' = [job EXCEPT ![j] = [Idle EXCEPT !.kind = "edit", !.pc = "reload", !.p = p,
                                            !.entity = Assign(product[p], edit)]]
  /\ InJob

ReadStock(j, p, min) ==
  /\ job[j].pc = "idle"
  /\ Exists(p)
  /\ job' = [job EXCEPT ![j] = [Idle EXCEPT !.kind = "alert", !.pc = "reload", !.p = p,
                                  !.entity = Assign(StockEntity(p), [min |-> min])]]
  /\ InJob

\* save() compares the entity with the row as it is now
Row(j) == IF job[j].kind = "edit" THEN product[job[j].p] ELSE StockEntity(job[j].p)

Reload(j) ==
  /\ job[j].pc = "reload"
  /\ job' = [job EXCEPT ![j].pc = "write",
                        ![j].cols = {c \in DOMAIN job[j].entity : job[j].entity[c] # Row(j)[c]}]
  /\ InJob

\* UPDATE ... SET the columns that differ; setMinStock leaves the cache alone
Write(j) ==
  /\ job[j].pc = "write"
  /\ job[j].cols # {} =>
       ~Locked(IF job[j].kind = "edit" THEN ProductTable ELSE StockTable, job[j].p)
  /\ Goto(j, IF job[j].kind = "edit" THEN "invalidate" ELSE "commit")
  /\ InJob

-----------------------------------------------------------------------------
(* adjustStockLedger *)

\* the guarded UPDATE of recordManualMovement
Count(j, p, delta) ==
  /\ job[j].pc = "idle"
  /\ Exists(p)
  /\ ~Locked(StockTable, p)
  /\ stock[p].current + delta \in 0..MaxUnits
  /\ Len(ledger[p]) < MaxRows
  /\ job' = [job EXCEPT ![j] = [Idle EXCEPT !.kind = "count", !.pc = "invalidate", !.p = p,
                                            !.units = delta, !.cols = {"current"}]]
  /\ InJob

-----------------------------------------------------------------------------
(* The end of a job. *)

\* History.  A listing that has read something is overtaken by a change that
\* invalidates the cache before the list is in it, and one that starts when such
\* a change has not committed yet; and by a setMinStock that moves the stock.
Reading == {r \in Readers : reader[r].pc # "idle"}
Invalidated == \E j \in Jobs : job[j].kind # "alert" /\ job[j].pc = "commit"

\* Mutant: the change leaves the cache alone.
InvalidateNothing(j) ==
  /\ job[j].pc = "invalidate"
  /\ Goto(j, "commit")
  /\ racing' = Reading
  /\ UNCHANGED <<stock, ledger, product, alert, list, reader, raced>>

\* invalidateProductsCache, inside the request's transaction
Invalidate(j) ==
  /\ job[j].pc = "invalidate"
  /\ list' = NoList
  /\ Goto(j, "commit")
  /\ racing' = Reading
  /\ raced' = FALSE
  /\ UNCHANGED <<stock, ledger, product, alert, reader>>

Overlay(row, j) == [c \in DOMAIN row |-> IF c \in job[j].cols THEN job[j].entity[c] ELSE row[c]]

CommitCreate(j) ==
  LET p == job[j].p IN
  /\ job[j].kind = "create"
  /\ product' = [product EXCEPT ![p].sku = SkuTried(j), ![p].active = TRUE]
  /\ stock' = [stock EXCEPT ![p].current = job[j].units]
  /\ ledger' = [ledger EXCEPT ![p] = Opening(job[j].units)]
  /\ UNCHANGED alert

CommitEdit(j) ==
  /\ job[j].kind = "edit"
  /\ product' = [product EXCEPT ![job[j].p] = Overlay(@, j)]
  /\ UNCHANGED <<stock, ledger, alert>>

CommitAlert(j) ==
  LET p == job[j].p   row == Overlay(StockEntity(p), j) IN
  /\ job[j].kind = "alert"
  /\ stock' = [stock EXCEPT ![p] = [current |-> row.current, reserved |-> row.reserved]]
  /\ alert' = [alert EXCEPT ![p] = row.min]
  /\ UNCHANGED <<ledger, product>>

\* Mutant: the ledger row is written before the counter.
CommitCountRowFirst(j) ==
  LET p == job[j].p   delta == job[j].units IN
  /\ job[j].kind = "count"
  /\ stock' = [stock EXCEPT ![p].current = @ + delta]
  /\ ledger' = [ledger EXCEPT ![p] =
                  Append(@, [tipo |-> IF delta > 0 THEN "COMPRA" ELSE "PERDA", delta |-> delta,
                             saldo |-> stock[p].current, order |-> NoOrder])]
  /\ UNCHANGED <<product, alert>>

CommitCount(j) ==
  LET p == job[j].p   delta == job[j].units IN
  /\ job[j].kind = "count"
  /\ stock' = [stock EXCEPT ![p].current = @ + delta]
  /\ ledger' = [ledger EXCEPT ![p] =
                  Append(@, [tipo |-> IF delta > 0 THEN "COMPRA" ELSE "PERDA", delta |-> delta,
                             saldo |-> stock[p].current + delta, order |-> NoOrder])]
  /\ UNCHANGED <<product, alert>>

Commit(j) ==
  /\ job[j].pc = "commit"
  /\ CommitCreate(j) \/ CommitEdit(j) \/ CommitAlert(j) \/ CommitCount(j)
  /\ job' = [job EXCEPT ![j] = Idle]
  /\ IF job[j].kind = "alert" /\ stock' # stock
     THEN racing' = Reading /\ raced' = TRUE
     ELSE UNCHANGED <<racing, raced>>
  /\ UNCHANGED <<list, reader>>

\* the request fails or its process dies: everything rolls back
JobDies(j) ==
  /\ MayFail
  /\ job[j].pc # "idle"
  /\ job' = [job EXCEPT ![j] = Idle]
  /\ InJob

-----------------------------------------------------------------------------
(* findAll *)

Active == {p \in Products : Exists(p) /\ product[p].active}

InReader == UNCHANGED <<stock, ledger, product, alert, job>>

\* a cached list is the answer; otherwise products and then stock are queried
QueryProducts(r) ==
  /\ reader[r].pc = "idle"
  /\ list = NoList
  /\ reader' = [reader EXCEPT ![r] = [pc |-> "stock",
                                      rows |-> [p \in Active |-> product[p].price]]]
  /\ racing' = IF Invalidated THEN racing \cup {r} ELSE racing \ {r}
  /\ InReader
  /\ UNCHANGED <<list, raced>>

Listed(rows) == [p \in DOMAIN rows |-> [price |-> rows[p], available |-> Greatest0(Available(p))]]

QueryStock(r) ==
  /\ reader[r].pc = "stock"
  /\ reader' = [reader EXCEPT ![r] = [pc |-> "cache", rows |-> Listed(reader[r].rows)]]
  /\ InReader
  /\ UNCHANGED <<list, racing, raced>>

CacheProducts(r) ==
  /\ reader[r].pc = "cache"
  /\ list' = reader[r].rows
  /\ reader' = [reader EXCEPT ![r] = NoReader]
  /\ raced' = (r \in racing)
  /\ racing' = racing \ {r}
  /\ InReader

\* 300 seconds pass
ListExpires ==
  /\ list # NoList
  /\ list' = NoList
  /\ raced' = FALSE
  /\ InReader
  /\ UNCHANGED <<reader, racing>>

-----------------------------------------------------------------------------
JobStep(j) == InsertProduct(j) \/ RefuseCreate(j) \/ Reload(j) \/ Write(j) \/ Invalidate(j)
              \/ Commit(j)

JobStarts(j) ==
  \/ \E base \in Bases, units \in Openings : StartCreate(j, base, units)
  \/ \E p \in Changed :
       \/ \E edit \in Edits : ReadProduct(j, p, edit)
       \/ \E min \in Alerts : ReadStock(j, p, min)
       \/ \E delta \in {-1, 1} : Count(j, p, delta)

ReaderStep(r) == QueryProducts(r) \/ QueryStock(r) \/ CacheProducts(r)

CatalogNext ==
  \/ \E j \in Jobs : JobStep(j) \/ JobDies(j) \/ JobStarts(j)
  \/ \E r \in Readers : ReaderStep(r)
  \/ ListExpires

CatalogSpec == CatalogInit /\ [][CatalogNext]_catalogVars

-----------------------------------------------------------------------------
(* Correctness *)

CatalogTypeOK ==
  /\ EngineTypeOK
  /\ product \in [Products -> ProductRow]
  /\ alert \in [Products -> Alerts]
  /\ \A j \in Jobs : job[j].pc \in {"idle", "insert", "refused", "reload", "write",
                                    "invalidate", "commit"}

\* Concurrent creations from the same name never end with one SKU.
SkuIsUnique ==
  \A p, q \in Products : Exists(p) /\ product[p].sku = product[q].sku => p = q

\* A creation is refused only when each of its SKUs belongs to a product, not
\* because another creation that then failed had tried it as well.
ConflictIsReal ==
  \A j \in Jobs : job[j].pc = "refused" =>
    \A n \in DOMAIN SkuAt[job[j].base] : Taken(SkuAt[job[j].base][n])

\* A cached list is out of date only if its reader and a change raced: it read
\* before the change committed and filled the cache after the invalidation that
\* the change makes too early; or a setMinStock, which invalidates nothing, has
\* moved the stock.  Every other change, whoever else reads, dies or waits, finds
\* the cache without what it makes outdated.
CurrentList == Listed([p \in Active |-> product[p].price])

OnlyRacedListsAreStale == list # NoList /\ list # CurrentList => raced

\* What the shelf has and what the ledger says part only when an alert level is
\* saved from a row that a movement has changed since it was read: no count,
\* creation or edit does it, in whatever order their requests commit or die.
OnlyAlertsUndoMovements ==
  [][ProjectsLedger /\ ~ProjectsLedger' =>
       \E j \in Jobs : /\ job[j].kind = "alert" /\ job[j].pc = "commit"
                      /\ "current" \in job[j].cols
                      /\ job[j].entity.current # stock[job[j].p].current]_catalogVars
=============================================================================
