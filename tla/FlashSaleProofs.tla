--------------------------- MODULE FlashSaleProofs ---------------------------
(***************************************************************************)
(* Proofs about FlashSale for every set of activities and users and every  *)
(* stock: units are sold from the top without a gap, one each, and the     *)
(* stock accounts for every sale.                                          *)
(***************************************************************************)
EXTENDS FlashSale, FiniteSetTheorems, TLAPS

NewSale(u, a) == [activity |-> a, user |-> u, unit |-> stock[a] - 1]

\* The counting part of the invariant needs the sales of an activity finite.
Counted == \A a \in Activities : /\ IsFiniteSet(Sold(a))
                                 /\ Cardinality(Sold(a)) = TotalStock[a] - stock[a]

Inv == TypeOK /\ UnitsSold /\ OneEach /\ Counted

\* A sale adds one row to its own activity and none to another.
LEMMA SoldAfterSell ==
  ASSUME NEW u \in Users, NEW a \in Activities, Sell(u, a), NEW b \in Activities
  PROVE  Sold(b)' = IF b = a THEN Sold(b) \cup {NewSale(u, a)} ELSE Sold(b)
BY DEF Sell, Sold, NewSale

LEMMA InitInv == Init => Inv
<1> SUFFICES ASSUME Init PROVE Inv
  OBVIOUS
<1>1. \A a \in Activities : Sold(a) = {}
  BY DEF Init, Sold
<1>2. TypeOK
  BY StockAssumption DEF Init, TypeOK
<1>3. UnitsSold
  <2> SUFFICES ASSUME NEW a \in Activities
               PROVE  /\ stock[a] =< TotalStock[a]
                      /\ {x.unit : x \in Sold(a)} = stock[a] .. TotalStock[a] - 1
    BY DEF UnitsSold
  <2>1. stock[a] = TotalStock[a] /\ TotalStock[a] \in Nat
    BY StockAssumption DEF Init
  <2> QED
    BY <1>1, <2>1
<1>4. OneEach
  BY DEF Init, OneEach
<1>5. Counted
  <2>1. \A a \in Activities : stock[a] = TotalStock[a] /\ TotalStock[a] \in Nat
    BY StockAssumption DEF Init
  <2> QED
    BY <1>1, <2>1, FS_EmptySet DEF Counted
<1> QED
  BY <1>2, <1>3, <1>4, <1>5 DEF Inv

LEMMA SellInv ==
  ASSUME Inv, NEW u \in Users, NEW a \in Activities, Sell(u, a)
  PROVE  Inv'
<1> DEFINE new == NewSale(u, a)
<1>1. stock \in [Activities -> Nat] /\ stock[a] \in Nat /\ stock[a] > 0 /\ TotalStock[a] \in Nat
  BY StockAssumption DEF Inv, TypeOK, Sell
<1>2. /\ stock' = [stock EXCEPT ![a] = stock[a] - 1]
      /\ sales' = sales \cup {new}
  BY DEF Sell, NewSale
<1>3. /\ new.activity = a /\ new.user = u /\ new.unit = stock[a] - 1
      /\ new \in Sale
  BY <1>1 DEF NewSale, Sale
<1>4. \A x \in Sold(a) : x.user # u /\ x.unit # stock[a] - 1
  <2>1. \A x \in Sold(a) : x.unit \in stock[a] .. TotalStock[a] - 1
    BY DEF Inv, UnitsSold
  <2> QED
    BY <1>1, <2>1 DEF Sell
<1>5. TypeOK'
  BY <1>1, <1>2, <1>3 DEF Inv, TypeOK
<1>6. UnitsSold'
  <2> SUFFICES ASSUME NEW b \in Activities
               PROVE  /\ stock'[b] =< TotalStock[b]
                      /\ {x.unit : x \in Sold(b)'} = stock'[b] .. TotalStock[b] - 1
    BY DEF UnitsSold
  <2>1. /\ stock[b] \in Nat /\ TotalStock[b] \in Nat /\ stock[b] =< TotalStock[b]
        /\ {x.unit : x \in Sold(b)} = stock[b] .. TotalStock[b] - 1
    BY StockAssumption DEF Inv, TypeOK, UnitsSold
  <2>2. CASE b = a
    <3>1. stock'[a] = stock[a] - 1
      BY <1>1, <1>2
    <3>2. {x.unit : x \in Sold(a)'} = {x.unit : x \in Sold(a)} \cup {stock[a] - 1}
      <4>1. Sold(a)' = Sold(a) \cup {new}
        BY SoldAfterSell
      <4> HIDE DEF new
      <4> QED
        BY <4>1, <1>3
    <3>3. (stock[a] - 1) .. TotalStock[a] - 1 = (stock[a] .. TotalStock[a] - 1) \cup {stock[a] - 1}
      BY <1>1, <2>1, <2>2
    <3> QED
      BY <2>1, <2>2, <3>1, <3>2, <3>3, <1>1
  <2>3. CASE b # a
    <3>1. stock'[b] = stock[b] /\ Sold(b)' = Sold(b)
      BY <2>3, <1>1, <1>2, SoldAfterSell
    <3> QED
      BY <2>1, <3>1
  <2> QED
    BY <2>2, <2>3
<1>7. OneEach'
  <2> SUFFICES ASSUME NEW x \in sales', NEW y \in sales', x.activity = y.activity,
                      x.unit = y.unit \/ x.user = y.user
               PROVE  x = y
    BY DEF OneEach
  <2> HIDE DEF new
  <2>1. \A z \in sales : z.activity = a => z.user # new.user /\ z.unit # new.unit
    BY <1>3, <1>4 DEF Sold
  <2>2. \A z, w \in sales :
          z.activity = w.activity /\ (z.unit = w.unit \/ z.user = w.user) => z = w
    BY DEF Inv, OneEach
  <2> QED
    BY <1>2, <1>3, <2>1, <2>2
<1>8. Counted'
  <2> SUFFICES ASSUME NEW b \in Activities
               PROVE  /\ IsFiniteSet(Sold(b)')
                      /\ Cardinality(Sold(b)') = TotalStock[b] - stock'[b]
    BY DEF Counted
  <2>1. /\ IsFiniteSet(Sold(b)) /\ Cardinality(Sold(b)) = TotalStock[b] - stock[b]
        /\ TotalStock[b] \in Nat /\ stock[b] \in Nat
    BY StockAssumption DEF Inv, Counted, TypeOK
  <2>2. CASE b = a
    <3>1. Sold(a)' = Sold(a) \cup {new} /\ stock'[a] = stock[a] - 1
      BY SoldAfterSell, <1>1, <1>2
    <3>2. new \notin Sold(a)
      BY <1>3, <1>4
    <3>3. /\ IsFiniteSet(Sold(a) \cup {new})
          /\ Cardinality(Sold(a) \cup {new}) = Cardinality(Sold(a)) + 1
      <4> HIDE DEF new
      <4> QED
        BY <2>1, <2>2, <3>2, FS_AddElement
    <3> HIDE DEF new
    <3> QED
      BY <2>1, <2>2, <3>1, <3>3
  <2>3. CASE b # a
    <3>1. stock'[b] = stock[b] /\ Sold(b)' = Sold(b)
      BY <2>3, <1>1, <1>2, SoldAfterSell
    <3> QED
      BY <2>1, <3>1
  <2> QED
    BY <2>2, <2>3
<1> QED
  BY <1>5, <1>6, <1>7, <1>8 DEF Inv

LEMMA StutterInv == Inv /\ UNCHANGED vars => Inv'
BY DEF vars, Inv, TypeOK, UnitsSold, OneEach, Counted, Sold

\* The invariant holds in every state of a flash sale.
THEOREM SaleInv == Spec => []Inv
<1>1. Inv /\ [Next]_vars => Inv'
  BY SellInv, StutterInv DEF Next
<1> QED
  BY InitInv, <1>1, PTL DEF Spec

\* What the sale promises, for any number of buyers: no unit is oversold or
\* skipped, nobody buys twice, and stock and sales always add up.
THEOREM SaleIsSound == Spec => [](TypeOK /\ UnitsSold /\ OneEach /\ Conservation)
<1>1. Inv => TypeOK /\ UnitsSold /\ OneEach /\ Conservation
  BY DEF Inv, Counted, Conservation
<1> QED
  BY SaleInv, <1>1, PTL

\* available_stock is never below zero, whoever buys.
THEOREM StockNeverNegative == Spec => []TypeOK
BY SaleIsSound, PTL

\* The units that were sold are those above the stock, none skipped.
THEOREM UnitsSoldAlways == Spec => []UnitsSold
BY SaleIsSound, PTL

\* A unit has one buyer, and a buyer one unit of an activity.
THEOREM OneEachAlways == Spec => []OneEach
BY SaleIsSound, PTL
=============================================================================
