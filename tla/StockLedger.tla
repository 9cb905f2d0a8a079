----------------------------- MODULE StockLedger -----------------------------
(***************************************************************************)
(* What movimentacoes_estoque_historico promises, whoever writes it: each  *)
(* product has an append-only book of rows, every row carries the balance  *)
(* it leaves behind, and an order sells a product at most once.  The order *)
(* and engine modules are shown to implement this contract.                *)
(***************************************************************************)
EXTENDS Integers, Sequences

CONSTANTS Products,  \* produto_id values
          Orders,    \* order_id values
          NoOrder    \* a NULL order_id

VARIABLE book

LedgerTipo == {"INVENTARIO_INICIAL", "VENDA", "COMPRA", "AJUSTE", "PERDA", "DEVOLUCAO"}

LedgerRow == [tipo : LedgerTipo, delta : Int, saldo : Nat, order : Orders \cup {NoOrder}]

Balance(rows) == IF rows = <<>> THEN 0 ELSE rows[Len(rows)].saldo

\* The unique index (order_id, produto_id) WHERE tipo = 'VENDA' has an entry.
HasVenda(rows, o) == \E i \in 1..Len(rows) : rows[i].tipo = "VENDA" /\ rows[i].order = o

\* An entry has a positive delta, an exit a negative one, an AJUSTE either.
SignAllowed(tipo, delta) ==
  /\ delta # 0
  /\ tipo \in {"COMPRA", "DEVOLUCAO", "INVENTARIO_INICIAL"} => delta > 0
  /\ tipo \in {"PERDA", "VENDA"} => delta < 0

\* A row that may follow rows: it starts from their balance, ends at a
\* balance that is not negative, and does not sell twice to one order.
MayFollow(rows, row) ==
  /\ row \in LedgerRow
  /\ row.saldo = Balance(rows) + row.delta
  /\ SignAllowed(row.tipo, row.delta)
  /\ row.tipo = "VENDA" <=> row.order # NoOrder
  /\ row.tipo = "VENDA" => ~HasVenda(rows, row.order)

Opens(rows) ==
  \/ rows = <<>>
  \/ /\ Len(rows) = 1
     /\ rows[1].tipo = "INVENTARIO_INICIAL"
     /\ MayFollow(<<>>, rows[1])

Extends(rows, more) ==
  /\ more = Append(rows, more[Len(more)])
  /\ MayFollow(rows, more[Len(more)])

Init == /\ book \in [Products -> Seq(LedgerRow)]
        /\ \A p \in Products : Opens(book[p])

\* One transaction posts at most one row per product.
Post == /\ book' \in [Products -> Seq(LedgerRow)]
        /\ \A p \in Products : book'[p] = book[p] \/ Extends(book[p], book'[p])

Spec == Init /\ [][Post]_book

-----------------------------------------------------------------------------
TypeOK == book \in [Products -> Seq(LedgerRow)]

Chained(rows) ==
  \A i \in 1..Len(rows) :
    rows[i].saldo = (IF i = 1 THEN 0 ELSE rows[i - 1].saldo) + rows[i].delta

\* The book adds up: every saldo_resultante is the one before it plus the
\* row's own delta, so the last one is the sum of all deltas.
BookAddsUp == \A p \in Products : Chained(book[p])

\* An order sells each product at most once (uq_ledger_venda_por_item).
VendaOnce ==
  \A p \in Products : \A i, j \in 1..Len(book[p]) :
    /\ book[p][i].tipo = "VENDA"
    /\ book[p][j].tipo = "VENDA"
    /\ book[p][i].order = book[p][j].order
    => i = j
=============================================================================
