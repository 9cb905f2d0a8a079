-------------------------- MODULE StockEngineProofs --------------------------
(***************************************************************************)
(* What each operation of the stock engine guarantees to the transaction   *)
(* that calls it.  Every component that moves stock cites these lemmas.    *)
(***************************************************************************)
EXTENDS StockEngine, FiniteSetTheorems, TLAPS

-----------------------------------------------------------------------------
(* Totals.  Induction over the size of a set is an argument about the        *)
(* smallest set for which a claim fails.                                     *)

\* A nonempty family of subsets of a finite set has a smallest member.
LEMMA SmallestSubset ==
  ASSUME NEW S, IsFiniteSet(S), NEW B \in SUBSET (SUBSET S), B # {}
  PROVE  \E T \in B : \A U \in B : U \subseteq T => U = T
<1> DEFINE R == StrictSubsetOrdering(S)
<1>1. IsWellFoundedOn(R, FiniteSubsetsOf(S))
  BY FS_StrictSubsetOrderingWellFounded
<1>2. FiniteSubsetsOf(S) = SUBSET S
  BY FS_FiniteSubsetsOfFinite
<1>3. \A T, U \in SUBSET S : U \subseteq T /\ U # T => <<U, T>> \in R
  BY DEF StrictSubsetOrdering
<1> HIDE DEF R
<1>4. \E T \in B : \A U \in B : ~(<<U, T>> \in R)
  BY <1>1, <1>2, WFMin
<1> QED BY <1>3, <1>4

Pick(s) == CHOOSE x \in s : TRUE
SumsUp(g, units, S) ==
  g = [s \in SUBSET S |-> IF s = {} THEN 0 ELSE units[Pick(s)] + g[s \ {Pick(s)}]]
SumFcn(units, S) == CHOOSE g : SumsUp(g, units, S)

\* The fold of the library is the recursive function at the whole set.
LEMMA TotalIsSumFcn == ASSUME NEW units, NEW S PROVE Total(units, S) = SumFcn(units, S)[S]
BY DEF Total, MapThenSumSet, MapThenFoldSet, SumFcn, SumsUp, Pick

\* The element taken from a set is in it.
LEMMA PickIn == ASSUME NEW s, s # {} PROVE Pick(s) \in s
BY DEF Pick

\* Two sums agree on the subsets both are defined for.
LEMMA SumsAgree ==
  ASSUME NEW S, IsFiniteSet(S), NEW T \in SUBSET S, NEW units, NEW g, NEW h,
         SumsUp(g, units, S), SumsUp(h, units, T)
  PROVE  \A s \in SUBSET T : g[s] = h[s]
<1> DEFINE B == {s \in SUBSET T : g[s] # h[s]}
<1>1. ASSUME B # {} PROVE FALSE
  <2>1. IsFiniteSet(T)
    BY FS_Subset
  <2>2. PICK s \in B : \A u \in B : u \subseteq s => u = s
    <3>1. B \in SUBSET (SUBSET T)
      OBVIOUS
    <3> HIDE DEF B
    <3> QED BY <1>1, <2>1, <3>1, SmallestSubset
  <2> DEFINE c == Pick(s)
  <2>3. CASE s = {}
    BY <2>2, <2>3 DEF SumsUp
  <2>4. CASE s # {}
    <3>1. c \in s
      BY <2>4, PickIn
    <3> HIDE DEF c
    <3>2. s \ {c} \in SUBSET T /\ s \ {c} # s
      BY <2>2, <3>1
    <3>3. g[s \ {c}] = h[s \ {c}]
      BY <2>2, <3>2
    <3>4. g[s] = units[c] + g[s \ {c}] /\ h[s] = units[c] + h[s \ {c}]
      BY <2>2, <2>4 DEF SumsUp, c
    <3> QED BY <2>2, <3>3, <3>4
  <2> QED BY <2>3, <2>4
<1> QED BY <1>1

\* There is such a sum.
LEMMA SumsExist ==
  ASSUME NEW S, IsFiniteSet(S), NEW units
  PROVE  SumsUp(SumFcn(units, S), units, S)
<1> DEFINE B == {T \in SUBSET S : ~\E g : SumsUp(g, units, T)}
<1>1. ASSUME B # {} PROVE FALSE
  <2>1. PICK T \in B : \A U \in B : U \subseteq T => U = T
    <3>1. B \in SUBSET (SUBSET S)
      OBVIOUS
    <3> HIDE DEF B
    <3> QED BY <1>1, <3>1, SmallestSubset
  <2>2. ASSUME NEW U \in SUBSET T, U # T
        PROVE  SumsUp(SumFcn(units, U), units, U)
    <3>1. \E g : SumsUp(g, units, U)
      BY <2>1, <2>2
    <3> QED BY <3>1 DEF SumFcn
  <2> DEFINE below(s) == SumFcn(units, s)[s]
             g == [s \in SUBSET T |-> IF s = {} THEN 0
                                      ELSE units[Pick(s)] + below(s \ {Pick(s)})]
  <2> HIDE DEF g
  <2>3. ASSUME NEW s \in SUBSET T, s # {}
        PROVE  g[s \ {Pick(s)}] = below(s \ {Pick(s)})
    <3> DEFINE t == s \ {Pick(s)}
    <3>1. t \in SUBSET T /\ t # T
      BY <2>3, PickIn
    <3> HIDE DEF t
    <3>2. SumsUp(SumFcn(units, t), units, t)
      BY <2>2, <3>1
    <3>3. CASE t = {}
      <4>1. g[t] = 0
        BY <3>1, <3>3 DEF g
      <4>2. SumFcn(units, t)[t] = 0
        BY <3>2, <3>3 DEF SumsUp
      <4> QED BY <4>1, <4>2 DEF t
    <3>4. CASE t # {}
      <4> DEFINE u == t \ {Pick(t)}
      <4>1. u \in SUBSET t /\ u \in SUBSET T /\ u # T
        BY <3>1, <3>4, PickIn
      <4>2. g[t] = units[Pick(t)] + below(u)
        BY <3>1, <3>4 DEF g
      <4>3. SumFcn(units, t)[t] = units[Pick(t)] + SumFcn(units, t)[u]
        BY <3>2, <3>4 DEF SumsUp
      <4> HIDE DEF u
      <4>4. SumsUp(SumFcn(units, u), units, u)
        BY <2>2, <4>1
      <4>5. IsFiniteSet(t)
        BY <2>1, <3>1, FS_Subset
      <4>6. SumFcn(units, t)[u] = SumFcn(units, u)[u]
        BY <3>2, <4>1, <4>4, <4>5, SumsAgree
      <4> QED BY <4>2, <4>3, <4>6 DEF t
    <3> QED BY <3>3, <3>4
  <2>4. SumsUp(g, units, T)
    <3>1. g = [s \in SUBSET T |-> IF s = {} THEN 0
                                   ELSE units[Pick(s)] + below(s \ {Pick(s)})]
      BY DEF g
    <3> QED BY <3>1, <2>3 DEF SumsUp
  <2> QED BY <2>1, <2>4
<1>2. \E g : SumsUp(g, units, S)
  BY <1>1
<1> QED BY <1>2 DEF SumFcn

\* What the fold computes: one element after the other.
LEMMA TotalUnfolds ==
  ASSUME NEW S, IsFiniteSet(S), NEW units
  PROVE  Total(units, S) = IF S = {} THEN 0
                           ELSE units[Pick(S)] + Total(units, S \ {Pick(S)})
<1>1. SumsUp(SumFcn(units, S), units, S)
  BY SumsExist
<1>2. CASE S = {}
  BY <1>1, <1>2, TotalIsSumFcn DEF SumsUp
<1>3. CASE S # {}
  <2> DEFINE T == S \ {Pick(S)}
  <2>1. IsFiniteSet(T) /\ T \in SUBSET S
    BY FS_Subset
  <2>2. SumFcn(units, S)[S] = units[Pick(S)] + SumFcn(units, S)[T]
    BY <1>1, <1>3 DEF SumsUp
  <2> HIDE DEF T
  <2>3. SumsUp(SumFcn(units, T), units, T)
    BY <2>1, SumsExist
  <2>4. SumFcn(units, S)[T] = SumFcn(units, T)[T]
    BY <1>1, <2>1, <2>3, SumsAgree
  <2> QED BY <1>3, <2>2, <2>4, TotalIsSumFcn DEF T
<1> QED BY <1>2, <1>3

\* A total of integers is an integer; of natural numbers, a natural number.
LEMMA TotalType ==
  ASSUME NEW S, IsFiniteSet(S), NEW units, \A x \in S : units[x] \in Int
  PROVE  /\ Total(units, S) \in Int
         /\ (\A x \in S : units[x] >= 0) => Total(units, S) >= 0
<1> DEFINE Good(T) == /\ Total(units, T) \in Int
                      /\ (\A x \in S : units[x] >= 0) => Total(units, T) >= 0
           B == {T \in SUBSET S : ~Good(T)}
<1>1. ASSUME B # {} PROVE FALSE
  <2>1. PICK T \in B : \A U \in B : U \subseteq T => U = T
    <3>1. B \in SUBSET (SUBSET S)
      OBVIOUS
    <3> HIDE DEF B
    <3> QED BY <1>1, <3>1, SmallestSubset
  <2>2. IsFiniteSet(T)
    BY <2>1, FS_Subset
  <2>3. CASE T = {}
    <3>1. Total(units, T) = 0
      BY <2>2, <2>3, TotalUnfolds
    <3> QED BY <2>1, <3>1
  <2>4. CASE T # {}
    <3> DEFINE c == Pick(T)
    <3>1. c \in T /\ c \in S
      BY <2>1, <2>4, PickIn
    <3>2. Total(units, T) = units[c] + Total(units, T \ {c})
      BY <2>2, <2>4, TotalUnfolds
    <3> HIDE DEF c
    <3>3. Good(T \ {c})
      <4> HIDE DEF Good
      <4> QED BY <2>1, <3>1
    <3>4. units[c] \in Int
      BY <3>1
    <3> QED BY <2>1, <3>1, <3>2, <3>3, <3>4
  <2> QED BY <2>3, <2>4
<1>2. Good(S)
  <2> HIDE DEF Good
  <2> QED BY <1>1
<1> QED BY <1>2

\* Whatever member is taken out first, the total is the same.
LEMMA TotalTakes ==
  ASSUME NEW S, IsFiniteSet(S), NEW units, \A x \in S : units[x] \in Int,
         NEW x \in S
  PROVE  Total(units, S) = units[x] + Total(units, S \ {x})
<1> DEFINE B == {T \in SUBSET S : \E y \in T : Total(units, T) # units[y] + Total(units, T \ {y})}
<1>1. ASSUME B # {} PROVE FALSE
  <2>1. PICK T \in B : \A U \in B : U \subseteq T => U = T
    <3>1. B \in SUBSET (SUBSET S)
      OBVIOUS
    <3> HIDE DEF B
    <3> QED BY <1>1, <3>1, SmallestSubset
  <2>2. PICK y \in T : Total(units, T) # units[y] + Total(units, T \ {y})
    BY <2>1
  <2> DEFINE c == Pick(T)
  <2>3. c \in T
    BY <2>2, PickIn
  <2>4. IsFiniteSet(T)
    BY <2>1, FS_Subset
  <2>5. Total(units, T) = units[c] + Total(units, T \ {c})
    BY <2>2, <2>4, TotalUnfolds
  <2> HIDE DEF c
  <2>6. c # y
    BY <2>2, <2>5
  <2>7. T \ {c} \notin B /\ T \ {y} \notin B
    BY <2>1, <2>2, <2>3
  <2> DEFINE R == (T \ {c}) \ {y}
  <2>8. Total(units, T \ {c}) = units[y] + Total(units, R)
    BY <2>1, <2>2, <2>6, <2>7
  <2>9. (T \ {y}) \ {c} = R
    OBVIOUS
  <2>10. Total(units, T \ {y}) = units[c] + Total(units, R)
    BY <2>1, <2>3, <2>6, <2>7, <2>9
  <2> HIDE DEF R
  <2>11. units[c] \in Int /\ units[y] \in Int
    BY <2>1, <2>2, <2>3
  <2>12. Total(units, R) \in Int
    <3>1. R \in SUBSET S /\ IsFiniteSet(R)
      BY <2>1, FS_Subset DEF R
    <3> QED BY <3>1, TotalType
  <2> QED BY <2>2, <2>5, <2>8, <2>10, <2>11, <2>12
<1> QED BY <1>1

\* Only the members' values matter.
LEMMA TotalSame ==
  ASSUME NEW S, IsFiniteSet(S), NEW f, NEW g, \A x \in S : f[x] = g[x]
  PROVE  Total(f, S) = Total(g, S)
<1> DEFINE B == {T \in SUBSET S : Total(f, T) # Total(g, T)}
<1>1. ASSUME B # {} PROVE FALSE
  <2>1. PICK T \in B : \A U \in B : U \subseteq T => U = T
    <3>1. B \in SUBSET (SUBSET S)
      OBVIOUS
    <3> HIDE DEF B
    <3> QED BY <1>1, <3>1, SmallestSubset
  <2>2. IsFiniteSet(T)
    BY <2>1, FS_Subset
  <2>3. CASE T = {}
    BY <2>1, <2>2, <2>3, TotalUnfolds
  <2>4. CASE T # {}
    <3> DEFINE c == Pick(T)
    <3>1. c \in T /\ c \in S
      BY <2>1, <2>4, PickIn
    <3>2. /\ Total(f, T) = f[c] + Total(f, T \ {c})
          /\ Total(g, T) = g[c] + Total(g, T \ {c})
      BY <2>2, <2>4, TotalUnfolds
    <3> HIDE DEF c
    <3>3. Total(f, T \ {c}) = Total(g, T \ {c})
      BY <2>1, <3>1
    <3> QED BY <2>1, <3>1, <3>2, <3>3
  <2> QED BY <2>3, <2>4
<1> QED BY <1>1

\* Nothing adds up to nothing.
LEMMA TotalOfNothing ==
  ASSUME NEW S, IsFiniteSet(S), NEW units, \A x \in S : units[x] = 0
  PROVE  Total(units, S) = 0
<1> DEFINE B == {T \in SUBSET S : Total(units, T) # 0}
<1>1. ASSUME B # {} PROVE FALSE
  <2>1. PICK T \in B : \A U \in B : U \subseteq T => U = T
    <3>1. B \in SUBSET (SUBSET S)
      OBVIOUS
    <3> HIDE DEF B
    <3> QED BY <1>1, <3>1, SmallestSubset
  <2>2. IsFiniteSet(T)
    BY <2>1, FS_Subset
  <2>3. T # {}
    BY <2>1, <2>2, TotalUnfolds
  <2> DEFINE c == Pick(T)
  <2>4. c \in T /\ c \in S
    BY <2>1, <2>3, PickIn
  <2>5. Total(units, T) = units[c] + Total(units, T \ {c})
    BY <2>2, <2>3, TotalUnfolds
  <2> HIDE DEF c
  <2>6. Total(units, T \ {c}) = 0
    BY <2>1, <2>4
  <2> QED BY <2>1, <2>4, <2>5, <2>6
<1> QED BY <1>1

\* One member's value changes.
LEMMA TotalChanges ==
  ASSUME NEW S, IsFiniteSet(S), NEW f, NEW g, NEW x \in S,
         \A y \in S : f[y] \in Int /\ g[y] \in Int,
         \A y \in S \ {x} : g[y] = f[y]
  PROVE  Total(g, S) = Total(f, S) - f[x] + g[x]
<1>1. IsFiniteSet(S \ {x})
  BY FS_Subset
<1>2. Total(g, S \ {x}) = Total(f, S \ {x})
  BY <1>1, TotalSame
<1>3. Total(f, S) = f[x] + Total(f, S \ {x}) /\ Total(g, S) = g[x] + Total(g, S \ {x})
  BY TotalTakes
<1>4. Total(f, S \ {x}) \in Int
  BY <1>1, TotalType
<1> QED BY <1>2, <1>3, <1>4

\* One member joins.
LEMMA TotalGrows ==
  ASSUME NEW S, IsFiniteSet(S), NEW units, NEW x, x \notin S,
         units[x] \in Int, \A y \in S : units[y] \in Int
  PROVE  Total(units, S \cup {x}) = Total(units, S) + units[x]
<1>1. IsFiniteSet(S \cup {x})
  BY FS_AddElement
<1>2. (S \cup {x}) \ {x} = S
  OBVIOUS
<1>3. Total(units, S \cup {x}) = units[x] + Total(units, S)
  BY <1>1, <1>2, TotalTakes
<1>4. Total(units, S) \in Int
  BY TotalType
<1> QED BY <1>3, <1>4

-----------------------------------------------------------------------------
(* The operations. *)

\* reserve keeps the table well typed and current_stock untouched.
LEMMA ReserveKeeps ==
  ASSUME NEW st \in [Products -> StockRow], NEW basket \in Basket
  PROVE  /\ Reserved(st, basket) \in [Products -> StockRow]
         /\ \A p \in Products : Reserved(st, basket)[p].current = st[p].current
BY DEF Reserved, StockRow, Basket

\* release keeps the table well typed, because of GREATEST(0, ...), and
\* current_stock untouched.
LEMMA ReleaseKeeps ==
  ASSUME NEW st \in [Products -> StockRow], NEW basket \in Basket
  PROVE  /\ Released(st, basket) \in [Products -> StockRow]
         /\ \A p \in Products : Released(st, basket)[p].current = st[p].current
BY DEF Released, Greatest0, StockRow, Basket

\* Where no book changes, nothing sold is forgotten and nothing is added.
LEMMA BooksUntouched ==
  ASSUME UNCHANGED ledger
  PROVE  /\ Ledger!TypeOK => Ledger!TypeOK'
         /\ \A o \in Orders, p \in Products : Sold(o, p)' <=> Sold(o, p)
BY DEF Ledger!TypeOK, Sold, Ledger!HasVenda, Ledger!LedgerRow, Ledger!LedgerTipo

\* Appending a row to a book keeps the sales it records, and adds one if the
\* row is a VENDA.
LEMMA AppendVenda ==
  ASSUME NEW rows \in Seq(Ledger!LedgerRow), NEW row \in Ledger!LedgerRow, NEW o \in Orders
  PROVE  Ledger!HasVenda(Append(rows, row), o)
           <=> Ledger!HasVenda(rows, o) \/ (row.tipo = "VENDA" /\ row.order = o)
<1> DEFINE more == Append(rows, row)
<1>1. /\ Len(more) = Len(rows) + 1
      /\ Len(rows) \in Nat
      /\ \A i \in 1..Len(rows) : more[i] = rows[i]
      /\ more[Len(rows) + 1] = row
  OBVIOUS
<1>2. ASSUME Ledger!HasVenda(more, o)
      PROVE  Ledger!HasVenda(rows, o) \/ (row.tipo = "VENDA" /\ row.order = o)
  BY <1>1, <1>2 DEF Ledger!HasVenda
<1>3. ASSUME Ledger!HasVenda(rows, o) PROVE Ledger!HasVenda(more, o)
  BY <1>1, <1>3 DEF Ledger!HasVenda
<1>4. ASSUME row.tipo = "VENDA", row.order = o PROVE Ledger!HasVenda(more, o)
  BY <1>1, <1>4 DEF Ledger!HasVenda
<1> QED BY <1>2, <1>3, <1>4

\* commitSale, after the same transaction may have reserved (st): the books
\* take one VENDA per item not yet sold, current_stock stays their balance,
\* and afterwards the whole basket is sold to the order.
LEMMA SaleKeeps ==
  ASSUME EngineTypeOK, ProjectsLedger,
         NEW st \in [Products -> StockRow],
         \A p \in Products : st[p].current = stock[p].current,
         NEW o \in Orders, NEW basket \in Basket,
         CanSell(o, basket),
         stock' = AfterSale(st, o, basket),
         ledger' = LedgerAfterSale(o, basket)
  PROVE  /\ EngineTypeOK'
         /\ ProjectsLedger'
         /\ Ledger!Post
         /\ \A p \in Products : basket[p] > 0 => Sold(o, p)'
         /\ \A x \in Orders, p \in Products :
              Sold(x, p)' <=> Sold(x, p) \/ (x = o /\ basket[p] > 0)
<1> DEFINE row(p) == [tipo |-> "VENDA", delta |-> -basket[p],
                      saldo |-> stock[p].current - basket[p], order |-> o]
<1>0. /\ stock \in [Products -> StockRow]
      /\ ledger \in [Products -> Seq(Ledger!LedgerRow)]
  BY DEF EngineTypeOK, Ledger!TypeOK
<1>1. ASSUME NEW p \in Products, p \in ToSell(o, basket)
      PROVE  /\ basket[p] \in Nat /\ basket[p] > 0 /\ ~Sold(o, p)
             /\ stock[p].current >= basket[p]
             /\ row(p) \in Ledger!LedgerRow
             /\ row(p).tipo = "VENDA" /\ row(p).order = o
             /\ row(p).delta = -basket[p]
             /\ row(p).saldo = stock[p].current + row(p).delta
             /\ ledger'[p] = Append(ledger[p], row(p))
             /\ stock'[p].current = row(p).saldo
             /\ stock'[p] \in StockRow
  <2>1. basket[p] \in Nat /\ basket[p] > 0 /\ ~Sold(o, p) /\ stock[p].current >= basket[p]
    BY <1>1 DEF CanSell, ToSell, Basket
  <2>2. stock[p].current \in Nat /\ st[p].reserved \in Nat
    BY <1>0 DEF StockRow
  <2>3. row(p) \in Ledger!LedgerRow
    BY <2>1, <2>2 DEF Ledger!LedgerRow, Ledger!LedgerTipo
  <2>4. ledger'[p] = Append(ledger[p], row(p))
    BY <1>1 DEF LedgerAfterSale
  <2>5. stock'[p] = [current |-> stock[p].current - basket[p],
                     reserved |-> Greatest0(st[p].reserved - basket[p])]
    BY <1>1 DEF AfterSale
  <2>6. stock'[p] \in StockRow
    BY <2>1, <2>2, <2>5 DEF StockRow, Greatest0
  <2>7. /\ row(p).tipo = "VENDA" /\ row(p).order = o
        /\ row(p).delta = -basket[p]
        /\ row(p).saldo = stock[p].current + row(p).delta
        /\ stock'[p].current = row(p).saldo
    BY <2>1, <2>2, <2>5
  <2> QED BY <2>1, <2>3, <2>4, <2>6, <2>7
<1> HIDE DEF row
<1>2. ASSUME NEW p \in Products, p \notin ToSell(o, basket)
      PROVE  /\ ledger'[p] = ledger[p]
             /\ stock'[p] = st[p]
             /\ basket[p] > 0 => Sold(o, p)
  BY <1>2 DEF AfterSale, LedgerAfterSale, ToSell
<1>3. stock' \in [Products -> StockRow]
  <2>1. stock' = [p \in Products |-> stock'[p]]
    BY DEF AfterSale
  <2> QED BY <1>1, <1>2, <2>1
<1>4. ledger' \in [Products -> Seq(Ledger!LedgerRow)]
  <2>1. ledger' = [p \in Products |-> ledger'[p]]
    BY DEF LedgerAfterSale
  <2>2. ASSUME NEW p \in Products PROVE ledger'[p] \in Seq(Ledger!LedgerRow)
    <3>1. ledger[p] \in Seq(Ledger!LedgerRow)
      BY <1>0
    <3>2. CASE p \in ToSell(o, basket)
      <4>1. row(p) \in Ledger!LedgerRow /\ ledger'[p] = Append(ledger[p], row(p))
        BY <1>1, <3>2
      <4> QED BY <3>1, <4>1
    <3>3. CASE p \notin ToSell(o, basket)
      BY <3>1, <3>3, <1>2
    <3> QED BY <3>2, <3>3
  <2> QED BY <2>1, <2>2
<1>5. ASSUME NEW p \in Products, p \in ToSell(o, basket)
      PROVE  /\ stock'[p].current = Ledger!Balance(ledger'[p])
             /\ Ledger!Extends(ledger[p], ledger'[p])
  <2>1. /\ Len(ledger'[p]) = Len(ledger[p]) + 1
        /\ ledger'[p] # <<>>
        /\ ledger'[p][Len(ledger'[p])] = row(p)
    <3>1. ledger[p] \in Seq(Ledger!LedgerRow)
      BY <1>0
    <3> QED BY <3>1, <1>1, <1>5
  <2>2. stock[p].current = Ledger!Balance(ledger[p])
    BY DEF ProjectsLedger
  <2>3. stock[p].current \in Nat
    BY <1>0 DEF StockRow
  <2>4. Ledger!MayFollow(ledger[p], row(p))
    <3>1. Ledger!SignAllowed("VENDA", -basket[p])
      BY <1>1, <1>5 DEF Ledger!SignAllowed
    <3> QED BY <1>1, <1>5, <2>2, <3>1, EngineAssumption DEF Ledger!MayFollow, Sold
  <2> QED BY <1>1, <1>5, <2>1, <2>4 DEF Ledger!Balance, Ledger!Extends
<1>6. ProjectsLedger'
  <2> SUFFICES ASSUME NEW p \in Products
               PROVE  stock'[p].current = Ledger!Balance(ledger'[p])
    BY DEF ProjectsLedger, Ledger!Balance
  <2>1. stock[p].current = Ledger!Balance(ledger[p])
    BY DEF ProjectsLedger
  <2> QED BY <1>2, <1>5, <2>1
<1>7. Ledger!Post
  BY <1>2, <1>4, <1>5 DEF Ledger!Post
<1>8. \A x \in Orders, p \in Products :
        Sold(x, p)' <=> Sold(x, p) \/ (x = o /\ basket[p] > 0)
  <2> SUFFICES ASSUME NEW x \in Orders, NEW p \in Products
               PROVE  Ledger!HasVenda(ledger'[p], x)
                        <=> Ledger!HasVenda(ledger[p], x) \/ (x = o /\ basket[p] > 0)
    BY DEF Sold, Ledger!HasVenda
  <2>1. CASE p \in ToSell(o, basket)
    <3>1. /\ ledger[p] \in Seq(Ledger!LedgerRow)
          /\ row(p) \in Ledger!LedgerRow
          /\ ledger'[p] = Append(ledger[p], row(p))
          /\ basket[p] > 0
      BY <1>0, <1>1, <2>1
    <3>2. row(p).tipo = "VENDA" /\ row(p).order = o
      BY <1>1, <2>1
    <3> QED BY <3>1, <3>2, AppendVenda
  <2>2. CASE p \notin ToSell(o, basket)
    BY <1>2, <2>2 DEF Sold
  <2> QED BY <2>1, <2>2
<1> QED BY <1>3, <1>4, <1>6, <1>7, <1>8 DEF EngineTypeOK, Ledger!TypeOK

\* A manual movement posts one row and keeps current_stock its balance; it
\* never records a sale.
LEMMA MovementKeeps ==
  ASSUME EngineTypeOK, ProjectsLedger,
         NEW p \in Products,
         NEW tipo \in {"COMPRA", "PERDA", "DEVOLUCAO", "AJUSTE"}, NEW delta \in Int,
         RecordManualMovement(p, tipo, delta)
  PROVE  /\ EngineTypeOK'
         /\ ProjectsLedger'
         /\ Ledger!Post
         /\ \A o \in Orders, q \in Products : Sold(o, q)' <=> Sold(o, q)
<1> DEFINE row == [tipo |-> tipo, delta |-> delta,
                   saldo |-> stock[p].current + delta, order |-> NoOrder]
<1>0. /\ stock \in [Products -> StockRow]
      /\ ledger \in [Products -> Seq(Ledger!LedgerRow)]
      /\ stock[p].current \in Nat
      /\ stock[p].current = Ledger!Balance(ledger[p])
  BY DEF EngineTypeOK, Ledger!TypeOK, StockRow, ProjectsLedger
<1>1. /\ row \in Ledger!LedgerRow
      /\ Ledger!MayFollow(ledger[p], row)
      /\ row.tipo # "VENDA"
      /\ row.saldo = stock[p].current + delta
  BY <1>0 DEF RecordManualMovement, Ledger!LedgerRow, Ledger!LedgerTipo, Ledger!MayFollow
<1>2. /\ ledger' = [ledger EXCEPT ![p] = Append(ledger[p], row)]
      /\ stock' = [stock EXCEPT ![p].current = row.saldo]
  BY <1>0 DEF RecordManualMovement
<1> HIDE DEF row
<1>3. /\ ledger' \in [Products -> Seq(Ledger!LedgerRow)]
      /\ ledger'[p] = Append(ledger[p], row)
      /\ \A q \in Products \ {p} : ledger'[q] = ledger[q]
  BY <1>0, <1>1, <1>2
<1>4. /\ stock' \in [Products -> StockRow]
      /\ stock'[p].current = row.saldo
      /\ \A q \in Products \ {p} : stock'[q] = stock[q]
  <2>1. row.saldo \in Nat
    BY <1>1 DEF Ledger!LedgerRow
  <2> QED BY <1>0, <1>2, <2>1 DEF StockRow
<1>5. /\ ledger'[p] # <<>>
      /\ ledger'[p][Len(ledger'[p])] = row
  BY <1>0, <1>1, <1>3
<1>6. ProjectsLedger'
  <2> SUFFICES ASSUME NEW q \in Products
               PROVE  stock'[q].current = Ledger!Balance(ledger'[q])
    BY DEF ProjectsLedger, Ledger!Balance
  <2>1. CASE q = p
    BY <2>1, <1>4, <1>5 DEF Ledger!Balance
  <2>2. CASE q # p
    BY <2>2, <1>3, <1>4 DEF ProjectsLedger
  <2> QED BY <2>1, <2>2
<1>7. Ledger!Post
  <2>1. Ledger!Extends(ledger[p], ledger'[p])
    BY <1>1, <1>3, <1>5 DEF Ledger!Extends
  <2> QED BY <1>3, <2>1 DEF Ledger!Post
<1>8. \A o \in Orders, q \in Products : Sold(o, q)' <=> Sold(o, q)
  <2> SUFFICES ASSUME NEW o \in Orders, NEW q \in Products
               PROVE  Ledger!HasVenda(ledger'[q], o) <=> Ledger!HasVenda(ledger[q], o)
    BY DEF Sold, Ledger!HasVenda
  <2>1. CASE q = p
    BY <2>1, <1>0, <1>1, <1>3, AppendVenda
  <2>2. CASE q # p
    BY <2>2, <1>3
  <2> QED BY <2>1, <2>2
<1> QED BY <1>3, <1>4, <1>6, <1>7, <1>8 DEF EngineTypeOK, Ledger!TypeOK

\* The VENDA rows after a sale: those from before, and new ones of this order
\* with the quantities of the basket.
LEMMA SaleRows ==
  ASSUME EngineTypeOK, NEW o \in Orders, NEW basket \in Basket, CanSell(o, basket),
         ledger' = LedgerAfterSale(o, basket),
         NEW p \in Products, NEW i \in 1..Len(ledger'[p])
  PROVE  \/ \E j \in 1..Len(ledger[p]) : ledger[p][j] = ledger'[p][i]
         \/ ledger'[p][i].order = o /\ ledger'[p][i].delta = -basket[p]
<1> DEFINE row == [tipo |-> "VENDA", delta |-> -basket[p],
                   saldo |-> stock[p].current - basket[p], order |-> o]
<1>1. CASE p \in ToSell(o, basket)
  <2>1. ledger'[p] = Append(ledger[p], row)
    BY <1>1 DEF LedgerAfterSale
  <2>2. row \in Ledger!LedgerRow
    BY <1>1 DEF CanSell, ToSell, EngineTypeOK, StockRow, Basket, Ledger!LedgerRow,
                Ledger!LedgerTipo
  <2>3. ledger[p] \in Seq(Ledger!LedgerRow)
    BY DEF EngineTypeOK, Ledger!TypeOK
  <2>4. row.order = o /\ row.delta = -basket[p]
    OBVIOUS
  <2> HIDE DEF row
  <2>5. \/ i \in 1..Len(ledger[p]) /\ ledger'[p][i] = ledger[p][i]
        \/ ledger'[p][i] = row
    BY <2>1, <2>2, <2>3
  <2> QED BY <2>4, <2>5
<1>2. CASE p \notin ToSell(o, basket)
  BY <1>2 DEF LedgerAfterSale
<1> QED BY <1>1, <1>2

\* A manual movement adds no VENDA row.
LEMMA MovementRows ==
  ASSUME EngineTypeOK, NEW q \in Products,
         NEW tipo \in {"COMPRA", "PERDA", "DEVOLUCAO", "AJUSTE"}, NEW delta \in Int,
         RecordManualMovement(q, tipo, delta),
         NEW p \in Products, NEW i \in 1..Len(ledger'[p]), ledger'[p][i].tipo = "VENDA"
  PROVE  \E j \in 1..Len(ledger[p]) : ledger[p][j] = ledger'[p][i]
<1> DEFINE row == [tipo |-> tipo, delta |-> delta,
                   saldo |-> stock[q].current + delta, order |-> NoOrder]
<1>1. /\ ledger \in [Products -> Seq(Ledger!LedgerRow)]
      /\ stock[q].current \in Nat
  BY DEF EngineTypeOK, Ledger!TypeOK, StockRow
<1>2. ledger' = [ledger EXCEPT ![q] = Append(ledger[q], row)]
  BY <1>1 DEF RecordManualMovement
<1>3. row \in Ledger!LedgerRow /\ row.tipo # "VENDA"
  BY <1>1 DEF RecordManualMovement, Ledger!LedgerRow, Ledger!LedgerTipo
<1> HIDE DEF row
<1>4. CASE p = q
  <2>1. ledger'[p] = Append(ledger[p], row) /\ ledger[p] \in Seq(Ledger!LedgerRow)
    BY <1>1, <1>2, <1>4
  <2>2. \/ i \in 1..Len(ledger[p]) /\ ledger'[p][i] = ledger[p][i]
        \/ ledger'[p][i] = row
    BY <1>3, <2>1
  <2> QED BY <1>3, <2>2
<1>5. CASE p # q
  BY <1>1, <1>2, <1>5
<1> QED BY <1>4, <1>5

\* GREATEST(0, n) is what a reservation is clamped to.
LEMMA ClampOfNat == \A n \in Nat : Greatest0(n) = n
BY DEF Greatest0

\* The book of a product that starts with n units.
LEMMA OpeningBook ==
  ASSUME NEW n \in Nat
  PROVE  /\ Opening(n) \in Seq(Ledger!LedgerRow)
         /\ Ledger!Balance(Opening(n)) = n
         /\ Ledger!Opens(Opening(n))
         /\ \A o \in Orders : ~Ledger!HasVenda(Opening(n), o)
<1>1. CASE n = 0
  BY <1>1 DEF Opening, Ledger!Balance, Ledger!Opens, Ledger!HasVenda
<1>2. CASE n # 0
  <2> DEFINE row == [tipo |-> "INVENTARIO_INICIAL", delta |-> n, saldo |-> n, order |-> NoOrder]
  <2>1. /\ row \in Ledger!LedgerRow
        /\ Ledger!MayFollow(<<>>, row)
        /\ row.tipo = "INVENTARIO_INICIAL"
        /\ row.saldo = n
    BY <1>2 DEF Ledger!LedgerRow, Ledger!LedgerTipo, Ledger!MayFollow, Ledger!SignAllowed,
                Ledger!Balance
  <2>2. Opening(n) = <<row>>
    BY <1>2 DEF Opening
  <2> HIDE DEF row
  <2>3. /\ <<row>> \in Seq(Ledger!LedgerRow)
        /\ Len(<<row>>) = 1
        /\ <<row>>[1] = row
        /\ <<row>> # <<>>
    BY <2>1
  <2> QED BY <2>1, <2>2, <2>3 DEF Ledger!Balance, Ledger!Opens, Ledger!HasVenda
<1> QED BY <1>1, <1>2

\* The table and the books start consistent.
LEMMA EngineStarts ==
  ASSUME NEW initial \in [Products -> Nat], EngineInit(initial)
  PROVE  EngineTypeOK /\ ProjectsLedger /\ Ledger!Init
         /\ \A o \in Orders, p \in Products : ~Sold(o, p)
<1>1. \A n \in Nat : /\ Opening(n) \in Seq(Ledger!LedgerRow)
                     /\ Ledger!Balance(Opening(n)) = n
                     /\ Ledger!Opens(Opening(n))
                     /\ \A o \in Orders : ~Ledger!HasVenda(Opening(n), o)
  BY OpeningBook
<1>2. /\ stock = [p \in Products |-> [current |-> initial[p], reserved |-> 0]]
      /\ ledger = [p \in Products |-> Opening(initial[p])]
  BY DEF EngineInit
<1>3. /\ stock \in [Products -> StockRow]
      /\ ledger \in [Products -> Seq(Ledger!LedgerRow)]
  BY <1>1, <1>2 DEF StockRow
<1> QED BY <1>1, <1>2, <1>3
        DEF EngineTypeOK, ProjectsLedger, Ledger!Init, Ledger!TypeOK, Sold
=============================================================================
