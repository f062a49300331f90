------------------------------ MODULE FlashSale ------------------------------
(***************************************************************************)
(* What a flash sale promises, with no database, connection or clock: the  *)
(* units of an activity are numbered by the stock that is left once they   *)
(* are sold, TotalStock-1 first and 0 last; a sale hands the next unit to  *)
(* a user who has none of that activity.  It is the transaction of         *)
(* sql/05_flash_sale_transaction.sql taken as one step.                    *)
(***************************************************************************)
EXTENDS Integers, FiniteSets

CONSTANTS Activities,   \* rows of flash_sale_activities
          Users,        \* rows of users
          TotalStock    \* total_stock of every activity

\* trg_activities_before_insert refuses an activity with total_stock = 0.
ASSUME StockAssumption == TotalStock \in [Activities -> Nat \ {0}]

VARIABLES stock,        \* available_stock of every activity
          sales         \* the sales made: who holds which unit of which activity

vars == <<stock, sales>>

Sold(a) == {x \in sales : x.activity = a}

\* An activity is inserted with available_stock = total_stock.
Init == /\ stock = TotalStock
        /\ sales = {}

\* Mutants of Sell: the last unit is not guarded, a user may buy again, or a
\* unit is sold and the stock not reduced.
SellAnyStock(u, a) ==
  /\ \A x \in Sold(a) : x.user # u
  /\ stock' = [stock EXCEPT ![a] = @ - 1]
  /\ sales' = sales \cup {[activity |-> a, user |-> u, unit |-> stock[a] - 1]}
SellAgain(u, a) ==
  /\ stock[a] > 0
  /\ stock' = [stock EXCEPT ![a] = @ - 1]
  /\ sales' = sales \cup {[activity |-> a, user |-> u, unit |-> stock[a] - 1]}
SellUndeducted(u, a) ==
  /\ stock[a] > 0
  /\ \A x \in Sold(a) : x.user # u
  /\ sales' = sales \cup {[activity |-> a, user |-> u, unit |-> stock[a] - 1]}
  /\ UNCHANGED stock

Sell(u, a) ==
  /\ stock[a] > 0
  /\ \A x \in Sold(a) : x.user # u
  /\ stock' = [stock EXCEPT ![a] = @ - 1]
  /\ sales' = sales \cup {[activity |-> a, user |-> u, unit |-> stock[a] - 1]}

Next == \E u \in Users, a \in Activities : Sell(u, a)

Spec == Init /\ [][Next]_vars
-----------------------------------------------------------------------------
Sale == [activity : Activities, user : Users, unit : Nat]

\* Every variable stays in its type: available_stock, unsigned, is never below
\* zero, and a sale names an activity, a user and a unit.
TypeOK == /\ stock \in [Activities -> Nat]
          /\ sales \subseteq Sale

\* The units sold of an activity are exactly those above its stock, from
\* stock[a] to TotalStock[a] - 1: none is skipped and none is oversold.
UnitsSold ==
  \A a \in Activities :
    /\ stock[a] =< TotalStock[a]
    /\ {x.unit : x \in Sold(a)} = stock[a] .. TotalStock[a] - 1

\* A unit is sold once, and a user holds one unit of an activity at most.
OneEach ==
  \A x, y \in sales :
    x.activity = y.activity /\ (x.unit = y.unit \/ x.user = y.user) => x = y

\* The consistency check of sql/04_queries.sql:97: the stock plus the number
\* of sales is the stock the activity was created with.
Conservation ==
  \A a \in Activities : Cardinality(Sold(a)) = TotalStock[a] - stock[a]
=============================================================================
