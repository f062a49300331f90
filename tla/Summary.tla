------------------------------- MODULE Summary -------------------------------
(***************************************************************************)
(* AdminService::listActivitySummaries while other processes sell, and the *)
(* administrator's page that shows its answers.                            *)
(*                                                                         *)
(* The summary is one SELECT for the activities, then two SELECT COUNT     *)
(* for each of them, every one in a transaction of its own.  Sales are the *)
(* atomic ones of FlashSale, which Purchase implements: one order and one  *)
(* inventory log each.  A web process serves one request at a time, so the *)
(* sales that come between are those of a CLI or of another web process.   *)
(* The page may refresh again before an answer is back, each refresh on a  *)
(* connection of its own: answers arrive in any order, or never.           *)
(***************************************************************************)
EXTENDS FlashSale, Sequences, SequencesExt

CONSTANT MaxAnswers     \* bound on the answers on their way to the page

VARIABLES pc,       \* the SELECT that is next, or "idle"
          left,     \* activities of the list not counted yet
          row,      \* the row being counted, of activity row.activity
          listed,   \* the stock of every activity as the list gave it
          counted,  \* the rows finished so far
          answers,  \* answers on their way to the page, oldest first
          shown     \* what the dashboard shows of each activity

reader == <<pc, left, row, listed, counted>>
page == <<answers, shown>>
allVars == <<vars, reader, page>>

NoRow == [activity |-> "none", stock |-> 0, orders |-> 0, logs |-> 0]

SummaryInit ==
  /\ Init
  /\ pc = "idle" /\ left = {} /\ row = NoRow /\ counted = {} /\ answers = <<>>
  /\ listed = TotalStock
  /\ shown = [a \in Activities |->
                [activity |-> a, stock |-> TotalStock[a], orders |-> 0, logs |-> 0]]

\* Every committed sale is one row of orders and one of inventory_logs.
Count(a) == Cardinality(Sold(a))

\* SELECT ... FROM flash_sale_activities, once the operator is found an admin.
ListAll ==
  /\ pc = "idle" /\ Len(answers) < MaxAnswers
  /\ pc' = "countOrders" /\ left' = Activities /\ listed' = stock
  /\ UNCHANGED <<vars, row, counted, page>>

\* SELECT COUNT(*) FROM orders, of the next activity of the list.
CountOrders(a) ==
  /\ pc = "countOrders" /\ a \in left
  /\ row' = [activity |-> a, stock |-> listed[a], orders |-> Count(a), logs |-> 0]
  /\ left' = left \ {a} /\ pc' = "countLogs"
  /\ UNCHANGED <<vars, listed, counted, page>>

\* Mutant of CountLogs: the two counts are taken in the other order.
CountLogsFirst ==
  /\ pc = "countLogs"
  /\ counted' = counted \cup {[row EXCEPT !.logs = row.orders, !.orders = Count(row.activity)]}
  /\ row' = NoRow /\ pc' = "countOrders"
  /\ UNCHANGED <<vars, left, listed, page>>

\* SELECT COUNT(*) FROM inventory_logs, of the same activity.
CountLogs ==
  /\ pc = "countLogs"
  /\ counted' = counted \cup {[row EXCEPT !.logs = Count(row.activity)]}
  /\ row' = NoRow /\ pc' = "countOrders"
  /\ UNCHANGED <<vars, left, listed, page>>

\* The locals of the request die with it.
Forget == pc' = "idle" /\ left' = {} /\ row' = NoRow /\ listed' = TotalStock /\ counted' = {}

\* Every activity is counted: the answer is sent.
Answer ==
  /\ pc = "countOrders" /\ left = {}
  /\ answers' = Append(answers, [a \in Activities |-> CHOOSE r \in counted : r.activity = a])
  /\ Forget
  /\ UNCHANGED <<vars, shown>>

\* Mutant of Fail: a SELECT that fails counts as no rows.
FailAsNoRows ==
  /\ pc # "idle"
  /\ answers' = Append(answers,
       [a \in Activities |-> [activity |-> a, stock |-> listed[a], orders |-> 0, logs |-> 0]])
  /\ Forget
  /\ UNCHANGED <<vars, shown>>

\* A SELECT fails, or the operator is no administrator: the answer is an error
\* and the dashboard keeps what it shows.
Fail == /\ pc # "idle"
        /\ Forget
        /\ UNCHANGED <<vars, page>>

\* The page shows all of an answer, and only it.
Receive == \E i \in DOMAIN answers :
  /\ shown' = answers[i]
  /\ answers' = RemoveAt(answers, i)
  /\ UNCHANGED <<vars, reader>>

Lose == \E i \in DOMAIN answers :
  /\ answers' = RemoveAt(answers, i)
  /\ UNCHANGED <<vars, reader, shown>>

SummaryNext == \/ Next /\ UNCHANGED <<reader, page>>
               \/ ListAll \/ (\E a \in Activities : CountOrders(a)) \/ CountLogs
               \/ Answer \/ Fail \/ Receive \/ Lose

SummarySpec == SummaryInit /\ [][SummaryNext]_allVars
-----------------------------------------------------------------------------
\* What the dashboard shows is skewed one way only: a unit gone from the stock
\* has its order, an order has its log, and no log is of a sale not made yet.
SkewIsOneSided ==
  \A a \in Activities :
    /\ TotalStock[a] - shown[a].stock =< shown[a].orders
    /\ shown[a].orders =< shown[a].logs
    /\ shown[a].logs =< TotalStock[a] - stock[a]

\* Of two answers one is the older in every column of every row.
Older(x, y) == \A a \in Activities : /\ x[a].stock >= y[a].stock
                                     /\ x[a].orders =< y[a].orders
                                     /\ x[a].logs =< y[a].logs

\* Although an answer is put together from many reads, a later one never takes
\* back any number of an earlier one: a stale page is stale, and no mixture.
AnswersGrow ==
  /\ \A i, j \in DOMAIN answers : i =< j => Older(answers[i], answers[j])
  /\ \A i \in DOMAIN answers : Older(answers[i], shown) \/ Older(shown, answers[i])

\* web/app.js:333 takes differing counts for inconsistent records: as the
\* records never are inconsistent, the dashboard should never say so.
DashboardConsistent == \A a \in Activities : shown[a].orders = shown[a].logs
=============================================================================
