-------------------------- MODULE StockLedgerProofs --------------------------
(***************************************************************************)
(* What follows from the ledger contract alone, for any number of products *)
(* and orders and books of any length.                                     *)
(***************************************************************************)
EXTENDS StockLedger, TLAPS

LedgerInv == TypeOK /\ BookAddsUp /\ VendaOnce

\* Appending a row that may follow keeps one book well formed, chained and
\* without a second sale to the same order.
LEMMA ExtendsKeeps ==
  ASSUME NEW rows \in Seq(LedgerRow), NEW row \in LedgerRow,
         MayFollow(rows, row), Chained(rows),
         \A i, j \in 1..Len(rows) :
           /\ rows[i].tipo = "VENDA"
           /\ rows[j].tipo = "VENDA"
           /\ rows[i].order = rows[j].order
           => i = j
  PROVE  LET more == Append(rows, row) IN
         /\ more \in Seq(LedgerRow)
         /\ Chained(more)
         /\ \A i, j \in 1..Len(more) :
              /\ more[i].tipo = "VENDA"
              /\ more[j].tipo = "VENDA"
              /\ more[i].order = more[j].order
              => i = j
<1> DEFINE more == Append(rows, row)
<1>1. /\ more \in Seq(LedgerRow)
      /\ Len(more) = Len(rows) + 1
      /\ \A i \in 1..Len(rows) : more[i] = rows[i]
      /\ more[Len(rows) + 1] = row
  OBVIOUS
<1>2. Len(rows) \in Nat /\ (rows = <<>> <=> Len(rows) = 0)
  OBVIOUS
<1>3. Chained(more)
  <2> SUFFICES ASSUME NEW i \in 1..Len(more)
               PROVE  more[i].saldo = (IF i = 1 THEN 0 ELSE more[i - 1].saldo) + more[i].delta
    BY DEF Chained
  <2>1. CASE i \in 1..Len(rows)
    BY <2>1, <1>1, <1>2 DEF Chained
  <2>2. CASE i = Len(rows) + 1
    BY <2>2, <1>1, <1>2 DEF MayFollow, Balance
  <2> QED BY <2>1, <2>2, <1>1, <1>2
<1>4. ASSUME NEW i \in 1..Len(more), NEW j \in 1..Len(more),
             more[i].tipo = "VENDA", more[j].tipo = "VENDA",
             more[i].order = more[j].order
      PROVE  i = j
  <2>1. CASE i \in 1..Len(rows) /\ j \in 1..Len(rows)
    BY <2>1, <1>1, <1>4
  <2>2. CASE i = Len(rows) + 1 /\ j \in 1..Len(rows)
    BY <2>2, <1>1, <1>4 DEF MayFollow, HasVenda
  <2>3. CASE j = Len(rows) + 1 /\ i \in 1..Len(rows)
    BY <2>3, <1>1, <1>4 DEF MayFollow, HasVenda
  <2> QED BY <2>1, <2>2, <2>3, <1>1, <1>2
<1> QED BY <1>1, <1>3, <1>4

\* Every implementation of the ledger contract keeps books that add up and
\* sells a product to an order at most once.
THEOREM LedgerSafe == Spec => []LedgerInv
<1>1. Init => LedgerInv
  <2> SUFFICES ASSUME Init PROVE LedgerInv
    OBVIOUS
  <2>1. TypeOK
    BY DEF Init, TypeOK
  <2>2. ASSUME NEW p \in Products
        PROVE  /\ Chained(book[p])
               /\ \A i, j \in 1..Len(book[p]) : i = j
    <3>1. book[p] \in Seq(LedgerRow) /\ Opens(book[p])
      BY DEF Init
    <3>2. CASE book[p] = <<>>
      BY <3>2 DEF Chained
    <3>3. CASE Len(book[p]) = 1 /\ MayFollow(<<>>, book[p][1])
      BY <3>1, <3>3 DEF Chained, MayFollow, Balance
    <3> QED BY <3>1, <3>2, <3>3 DEF Opens
  <2> QED BY <2>1, <2>2 DEF LedgerInv, BookAddsUp, VendaOnce
<1>2. LedgerInv /\ [Post]_book => LedgerInv'
  <2> SUFFICES ASSUME LedgerInv, [Post]_book PROVE LedgerInv'
    OBVIOUS
  <2>1. CASE UNCHANGED book
    BY <2>1 DEF LedgerInv, TypeOK, BookAddsUp, VendaOnce
  <2>2. CASE Post
    <3>1. TypeOK'
      BY <2>2 DEF Post, TypeOK
    <3>2. ASSUME NEW p \in Products
          PROVE  /\ Chained(book'[p])
                 /\ \A i, j \in 1..Len(book'[p]) :
                      /\ book'[p][i].tipo = "VENDA"
                      /\ book'[p][j].tipo = "VENDA"
                      /\ book'[p][i].order = book'[p][j].order
                      => i = j
      <4>1. book[p] \in Seq(LedgerRow) /\ Chained(book[p])
        BY DEF LedgerInv, TypeOK, BookAddsUp
      <4>2. CASE book'[p] = book[p]
        BY <4>1, <4>2 DEF LedgerInv, VendaOnce
      <4>3. CASE Extends(book[p], book'[p])
        <5> DEFINE row == book'[p][Len(book'[p])]
        <5>1. row \in LedgerRow /\ MayFollow(book[p], row) /\ book'[p] = Append(book[p], row)
          BY <4>3 DEF Extends, MayFollow
        <5> HIDE DEF row
        <5> QED BY <5>1, <4>1, ExtendsKeeps DEF LedgerInv, VendaOnce
      <4> QED BY <2>2, <4>2, <4>3 DEF Post
    <3> QED BY <3>1, <3>2 DEF LedgerInv, BookAddsUp, VendaOnce
  <2> QED BY <2>1, <2>2
<1> QED BY <1>1, <1>2, PTL DEF Spec
=============================================================================
