---------------------------- MODULE SummaryProofs ----------------------------
(***************************************************************************)
(* Proofs about Summary: however many sales, refreshes and lost or late    *)
(* answers there are, the dashboard's figures are skewed one way only and  *)
(* never a mixture of an older and a newer answer.                         *)
(***************************************************************************)
EXTENDS Summary, FlashSaleProofs, SequenceTheorems

\* A row of a summary, and a summary with a row for every activity.
Row == [activity : Activities, stock : Nat, orders : Nat, logs : Nat]
Rows == [Activities -> Row]

\* A row whose counts were taken after its stock, and that is not newer than
\* the tables are.
Skewed(r, a) ==
  /\ stock[a] =< r.stock
  /\ TotalStock[a] - r.stock =< r.orders /\ r.orders =< r.logs
  /\ r.logs =< TotalStock[a] - stock[a]

Shown == shown \in Rows /\ \A a \in Activities : Skewed(shown[a], a)
Answers == /\ answers \in Seq(Rows)
           /\ \A i \in DOMAIN answers, a \in Activities : Skewed(answers[i][a], a)

\* The activities that were listed are counted or left to count, each with the
\* stock of the list, which can only have gone down since.
Counting ==
  /\ pc \in {"idle", "countOrders", "countLogs"}
  /\ listed \in [Activities -> Nat] /\ left \subseteq Activities /\ counted \subseteq Row
  /\ pc = "idle" => counted = {}
  /\ pc # "idle" =>
       /\ \A a \in Activities : stock[a] =< listed[a]
       /\ \A r \in counted : r.stock = listed[r.activity] /\ Skewed(r, r.activity)
       /\ \A a \in Activities \ left :
            \/ pc = "countLogs" /\ row.activity = a
            \/ \E r \in counted : r.activity = a
  /\ pc = "countLogs" =>
       /\ row \in Row /\ row.stock = listed[row.activity]
       /\ TotalStock[row.activity] - row.stock =< row.orders
       /\ row.orders =< TotalStock[row.activity] - stock[row.activity]

\* What was answered or is shown was counted before the list that is counted now.
Before(x) ==
  pc # "idle" => \A a \in Activities : /\ listed[a] =< x[a].stock
                                       /\ x[a].logs =< TotalStock[a] - listed[a]
Earlier == Before(shown) /\ \A i \in DOMAIN answers : Before(answers[i])

SummaryInv == Inv /\ Shown /\ Answers /\ Counting /\ Earlier /\ AnswersGrow

LEMMA StockFacts ==
  ASSUME Inv, NEW a \in Activities
  PROVE  /\ stock[a] \in Nat /\ TotalStock[a] \in Nat /\ stock[a] =< TotalStock[a]
         /\ Count(a) = TotalStock[a] - stock[a] /\ Count(a) \in Nat
<1>1. stock[a] \in Nat /\ TotalStock[a] \in Nat /\ stock[a] =< TotalStock[a]
  BY StockAssumption DEF Inv, TypeOK, UnitsSold
<1>2. Count(a) = TotalStock[a] - stock[a]
  BY DEF Inv, Counted, Count
<1> QED BY <1>1, <1>2

\* What is left of a sequence without its i-th element is in its order.
LEMMA RemoveAtProperties ==
  ASSUME NEW S, NEW s \in Seq(S), NEW i \in 1 .. Len(s)
  PROVE  /\ RemoveAt(s, i) \in Seq(S) /\ Len(RemoveAt(s, i)) = Len(s) - 1
         /\ \A j \in 1 .. Len(s) - 1 : RemoveAt(s, i)[j] = IF j < i THEN s[j] ELSE s[j + 1]
<1> DEFINE n == Len(s)
           t == SubSeq(s, 1, i - 1)
           u == SubSeq(s, i + 1, n)
<1>1. n \in Nat /\ i \in 1 .. n /\ \A j \in 1 .. n : s[j] \in S
  BY LenProperties, ElementOfSeq
<1>2. RemoveAt(s, i) = t \o u
  BY DEF RemoveAt
<1> HIDE DEF n
<1>3. /\ t \in Seq(S) /\ Len(t) = i - 1 /\ \A j \in 1 .. i - 1 : t[j] = s[j]
  <2> DEFINE k == i - 1
  <2>1. k \in Nat /\ \A j \in 1 .. k : s[j] \in S
    BY <1>1
  <2> HIDE DEF k
  <2>2. /\ SubSeq(s, 1, k) \in Seq(S) /\ Len(SubSeq(s, 1, k)) = (IF 1 <= k THEN k - 1 + 1 ELSE 0)
        /\ \A j \in 1 .. k - 1 + 1 : SubSeq(s, 1, k)[j] = s[1 + j - 1]
    BY <2>1, SubSeqProperties
  <2>3. Len(SubSeq(s, 1, k)) = k /\ \A j \in 1 .. k : j \in 1 .. k - 1 + 1 /\ 1 + j - 1 = j
    BY <2>1, <2>2
  <2>4. \A j \in 1 .. k : SubSeq(s, 1, k)[j] = s[j]
    BY <2>2, <2>3
  <2> QED BY <2>2, <2>3, <2>4 DEF k
<1>4. /\ u \in Seq(S) /\ Len(u) = n - i /\ \A j \in 1 .. n - i : u[j] = s[i + j]
  <2> DEFINE k == i + 1
  <2>1. k \in Int /\ n \in Int /\ \A j \in k .. n : s[j] \in S
    BY <1>1
  <2> HIDE DEF k
  <2>2. /\ SubSeq(s, k, n) \in Seq(S) /\ Len(SubSeq(s, k, n)) = (IF k <= n THEN n - k + 1 ELSE 0)
        /\ \A j \in 1 .. n - k + 1 : SubSeq(s, k, n)[j] = s[k + j - 1]
    BY <2>1, SubSeqProperties
  <2>3. Len(SubSeq(s, k, n)) = n - i
        /\ \A j \in 1 .. n - i : j \in 1 .. n - k + 1 /\ k + j - 1 = i + j
    BY <1>1, <2>2 DEF k
  <2>4. \A j \in 1 .. n - i : SubSeq(s, k, n)[j] = s[i + j]
    BY <2>2, <2>3
  <2> QED BY <2>2, <2>3, <2>4 DEF k
<1> HIDE DEF t, u
<1>5. /\ t \o u \in Seq(S) /\ Len(t \o u) = Len(t) + Len(u)
      /\ \A j \in 1 .. Len(t) + Len(u) :
            (t \o u)[j] = IF j <= Len(t) THEN t[j] ELSE u[j - Len(t)]
  BY <1>3, <1>4, ConcatProperties
<1>6. Len(t) + Len(u) = n - 1
  BY <1>1, <1>3, <1>4
<1>7. ASSUME NEW j \in 1 .. n - 1 PROVE (t \o u)[j] = IF j < i THEN s[j] ELSE s[j + 1]
  <2>1. CASE j < i
    <3>1. j \in 1 .. i - 1 /\ j <= Len(t)
      BY <1>1, <1>3, <2>1
    <3> QED BY <1>3, <1>5, <1>6, <2>1, <3>1
  <2>2. CASE ~(j < i)
    <3> DEFINE k == j - Len(t)
    <3>1. k \in 1 .. n - i /\ i + k = j + 1 /\ ~(j <= Len(t))
      BY <1>1, <1>3, <2>2
    <3>2. (t \o u)[j] = u[k]
      BY <1>5, <1>6, <3>1
    <3> HIDE DEF k
    <3>3. u[k] = s[i + k]
      BY <1>4, <3>1
    <3> QED BY <2>2, <3>1, <3>2, <3>3
  <2> QED BY <2>1, <2>2
<1> QED BY <1>2, <1>5, <1>6, <1>7 DEF n

LEMMA SummaryInitInv == SummaryInit => SummaryInv
<1> SUFFICES ASSUME SummaryInit PROVE SummaryInv
  OBVIOUS
<1>1. Inv
  BY InitInv DEF SummaryInit
<1>2. \A a \in Activities : stock[a] = TotalStock[a] /\ TotalStock[a] \in Nat
  BY StockAssumption DEF SummaryInit, Init
<1>3. answers = <<>> /\ DOMAIN answers = {} /\ pc = "idle" /\ counted = {} /\ left = {}
      /\ listed = TotalStock
  BY DEF SummaryInit
<1>4. shown = [a \in Activities |-> [activity |-> a, stock |-> TotalStock[a], orders |-> 0, logs |-> 0]]
  BY DEF SummaryInit
<1>5. \A a \in Activities : /\ shown[a] \in Row /\ shown[a].stock = TotalStock[a]
                            /\ shown[a].orders = 0 /\ shown[a].logs = 0
  BY <1>2, <1>4 DEF Row
<1>6. Shown
  <2>1. \A a \in Activities : Skewed(shown[a], a)
    BY <1>2, <1>5 DEF Skewed
  <2>2. shown \in Rows
    BY <1>4, <1>5 DEF Rows
  <2> QED BY <2>1, <2>2 DEF Shown
<1>7. Answers
  <2>1. answers \in Seq(Rows)
    BY <1>3, EmptySeq
  <2> QED BY <1>3, <2>1 DEF Answers
<1>8. Counting
  BY <1>3, StockAssumption DEF Counting
<1>9. Earlier /\ AnswersGrow
  BY <1>3 DEF Earlier, Before, AnswersGrow
<1> QED BY <1>1, <1>6, <1>7, <1>8, <1>9 DEF SummaryInv

\* The tables only move one way, so what was skewed stays so.
LEMMA SaleStep ==
  ASSUME SummaryInv, Next, UNCHANGED <<reader, page>>
  PROVE  SummaryInv'
<1>1. PICK u \in Users, a \in Activities : Sell(u, a)
  BY DEF Next
<1>2. Inv /\ Inv'
  BY <1>1, SellInv DEF SummaryInv
<1>3. \A b \in Activities : /\ stock[b] \in Nat /\ stock'[b] \in Nat /\ TotalStock[b] \in Nat
                            /\ stock'[b] =< stock[b]
  <2> TAKE b \in Activities
  <2>1. stock[b] \in Nat /\ TotalStock[b] \in Nat /\ stock \in [Activities -> Nat]
    BY <1>2, StockFacts DEF Inv, TypeOK
  <2>2. stock' = [stock EXCEPT ![a] = stock[a] - 1] /\ stock[a] > 0 /\ stock[a] \in Nat
    BY <1>1, <1>2, StockFacts DEF Sell
  <2> QED BY <2>1, <2>2
<1>4. \A r \in Row, b \in Activities : Skewed(r, b) => Skewed(r, b)'
  BY <1>3 DEF Skewed, Row
<1>5. UNCHANGED <<pc, left, row, listed, counted, answers, shown>>
  BY DEF reader, page
<1>6. Shown'
  <2>1. \A b \in Activities : shown[b] \in Row /\ Skewed(shown[b], b)
    BY DEF SummaryInv, Shown, Rows
  <2>2. \A b \in Activities : Skewed(shown[b], b)'
    BY <1>3, <1>5, <2>1 DEF Skewed, Row
  <2> QED BY <1>5, <2>2 DEF SummaryInv, Shown
<1>7. Answers'
  <2>1. answers \in Seq(Rows) /\ \A i \in DOMAIN answers : answers[i] \in Rows
    BY LenProperties, ElementOfSeq DEF SummaryInv, Answers
  <2>2. \A i \in DOMAIN answers, b \in Activities : answers[i][b] \in Row /\ Skewed(answers[i][b], b)
    BY <2>1 DEF SummaryInv, Answers, Rows
  <2>3. \A i \in DOMAIN answers, b \in Activities : Skewed(answers[i][b], b)'
    BY <1>3, <1>5, <2>2 DEF Skewed, Row
  <2> QED BY <1>5, <2>1, <2>3 DEF Answers
<1>8. Counting'
  <2>0. Counting
    BY DEF SummaryInv
  <2>1. ASSUME NEW r \in counted, pc # "idle" PROVE r.stock = listed[r.activity] /\ Skewed(r, r.activity)'
    <3>1. r \in Row /\ r.activity \in Activities /\ Skewed(r, r.activity) /\ r.stock = listed[r.activity]
      BY <2>0, <2>1 DEF Counting, Row
    <3> QED BY <1>3, <3>1 DEF Skewed, Row
  <2>2. ASSUME pc # "idle", NEW b \in Activities PROVE stock'[b] =< listed[b]
    BY <1>3, <2>0, <2>2 DEF Counting
  <2>3. ASSUME pc = "countLogs"
        PROVE  row.orders =< TotalStock[row.activity] - stock'[row.activity]
    <3>1. row.activity \in Activities /\ row.orders \in Nat
          /\ row.orders =< TotalStock[row.activity] - stock[row.activity]
      BY <2>0, <2>3 DEF Counting, Row
    <3> QED BY <1>3, <3>1
  <2> QED BY <1>5, <2>0, <2>1, <2>2, <2>3 DEF Counting, Skewed
<1>9. Earlier' /\ AnswersGrow'
  BY <1>5 DEF SummaryInv, Earlier, Before, AnswersGrow, Older
<1> QED BY <1>2, <1>6, <1>7, <1>8, <1>9 DEF SummaryInv

\* Counting disturbs nothing but the rows that are counted.
LEMMA CountingStep ==
  ASSUME SummaryInv, UNCHANGED <<vars, page>>
  PROVE  Inv' /\ Shown' /\ Answers' /\ AnswersGrow'
<1>1. UNCHANGED <<stock, answers, shown>>
  BY DEF vars, page
<1>2. Inv'
  BY StutterInv DEF SummaryInv
<1>3. Shown'
  BY <1>1 DEF SummaryInv, Shown, Skewed
<1>4. Answers'
  BY <1>1 DEF SummaryInv, Answers, Skewed
<1>5. AnswersGrow'
  BY <1>1 DEF SummaryInv, AnswersGrow, Older
<1> QED BY <1>2, <1>3, <1>4, <1>5

LEMMA ListAllStep ==
  ASSUME SummaryInv, ListAll
  PROVE  SummaryInv'
<1>1. /\ pc = "idle" /\ pc' = "countOrders" /\ left' = Activities /\ listed' = stock
      /\ counted' = counted /\ UNCHANGED <<vars, page>>
      /\ stock' = stock /\ answers' = answers /\ shown' = shown
  BY DEF ListAll, vars, page
<1>2. Inv' /\ Shown' /\ Answers' /\ AnswersGrow'
  BY <1>1, CountingStep
<1>3. \A a \in Activities : stock[a] \in Nat
  BY StockFacts DEF SummaryInv
<1>4. Counting'
  BY <1>1, <1>3 DEF SummaryInv, Inv, TypeOK, Counting
<1>5. Earlier'
  BY <1>1 DEF SummaryInv, Shown, Answers, Skewed, Earlier, Before
<1> QED BY <1>2, <1>4, <1>5 DEF SummaryInv

LEMMA CountOrdersStep ==
  ASSUME SummaryInv, NEW a \in Activities, CountOrders(a)
  PROVE  SummaryInv'
<1>1. /\ pc = "countOrders" /\ pc' = "countLogs" /\ left' = left \ {a} /\ a \in left
      /\ row' = [activity |-> a, stock |-> listed[a], orders |-> Count(a), logs |-> 0]
      /\ listed' = listed /\ counted' = counted /\ UNCHANGED <<vars, page>>
      /\ stock' = stock /\ answers' = answers /\ shown' = shown
  BY DEF CountOrders, vars, page
<1>2. Inv' /\ Shown' /\ Answers' /\ AnswersGrow'
  BY <1>1, CountingStep
<1>3. /\ stock[a] \in Nat /\ TotalStock[a] \in Nat /\ Count(a) = TotalStock[a] - stock[a]
      /\ Count(a) \in Nat /\ listed[a] \in Nat /\ stock[a] =< listed[a]
  BY <1>1, StockFacts DEF SummaryInv, Counting
<1> DEFINE n == Count(a)
<1> HIDE DEF n
<1>4. /\ row' \in Row /\ row'.activity = a /\ row'.stock = listed[a] /\ row'.orders = n
  <2>1. row' = [activity |-> a, stock |-> listed[a], orders |-> n, logs |-> 0] /\ n \in Nat
    BY <1>1, <1>3 DEF n
  <2> QED BY <1>3, <2>1 DEF Row
<1>5. TotalStock[a] - listed[a] =< n /\ n =< TotalStock[a] - stock[a]
  BY <1>3 DEF n
<1>6. Counting'
  <2>1. ASSUME NEW b \in Activities \ left'
        PROVE  row'.activity = b \/ \E r \in counted : r.activity = b
    BY <1>1, <1>4 DEF SummaryInv, Counting
  <2> QED BY <1>1, <1>4, <1>5, <2>1 DEF SummaryInv, Counting, Skewed
<1>7. Earlier'
  BY <1>1 DEF SummaryInv, Earlier, Before
<1> QED BY <1>2, <1>6, <1>7 DEF SummaryInv

LEMMA CountLogsStep ==
  ASSUME SummaryInv, CountLogs
  PROVE  SummaryInv'
<1> DEFINE a == row.activity
           n == Count(a)
           new == [row EXCEPT !.logs = n]
<1>1. /\ pc = "countLogs" /\ pc' = "countOrders" /\ left' = left
      /\ counted' = counted \cup {new}
      /\ listed' = listed /\ UNCHANGED <<vars, page>>
      /\ stock' = stock /\ answers' = answers /\ shown' = shown
  BY DEF CountLogs, vars, page
<1>2. Inv' /\ Shown' /\ Answers' /\ AnswersGrow'
  BY <1>1, CountingStep
<1>3. /\ row \in Row /\ row.stock = listed[a] /\ a \in Activities
      /\ TotalStock[a] - row.stock =< row.orders
      /\ row.orders =< TotalStock[a] - stock[a]
  BY <1>1 DEF SummaryInv, Counting, Row
<1>4. n \in Nat /\ n = TotalStock[a] - stock[a] /\ stock[a] =< listed[a]
  BY <1>1, <1>3, StockFacts DEF SummaryInv, Counting
<1> HIDE DEF n
<1>5. /\ new \in Row /\ new.activity = a /\ new.stock = row.stock /\ new.orders = row.orders
      /\ new.logs = n
  BY <1>3, <1>4 DEF Row
<1> HIDE DEF new
<1>6. Skewed(new, a)
  BY <1>3, <1>4, <1>5 DEF Skewed
<1>7. Counting'
  <2>0. Counting
    BY DEF SummaryInv
  <2>1. ASSUME NEW b \in Activities \ left PROVE \E r \in counted' : r.activity = b
    BY <1>1, <1>5, <2>0 DEF Counting
  <2>2. ASSUME NEW r \in counted' PROVE r.stock = listed[r.activity] /\ Skewed(r, r.activity)
    BY <1>1, <1>3, <1>5, <1>6, <2>0 DEF Counting
  <2>3. counted' \subseteq Row
    BY <1>1, <1>5, <2>0 DEF Counting
  <2> HIDE DEF a
  <2> QED BY <1>1, <2>0, <2>1, <2>2, <2>3 DEF Counting, Skewed
<1>8. Earlier'
  BY <1>1 DEF SummaryInv, Earlier, Before
<1> QED BY <1>2, <1>7, <1>8 DEF SummaryInv

LEMMA OlderFacts ==
  ASSUME NEW x \in Rows
  PROVE  /\ \A a \in Activities : x[a] \in Row /\ x[a].stock \in Nat /\ x[a].orders \in Nat
                                  /\ x[a].logs \in Nat
         /\ Older(x, x)
BY DEF Rows, Row, Older

\* The new answer is newer than all before, since all of it was counted after
\* they were.
LEMMA AnswerStep ==
  ASSUME SummaryInv, Answer
  PROVE  SummaryInv'
<1> DEFINE x == [a \in Activities |-> CHOOSE r \in counted : r.activity = a]
           n == Len(answers)
<1>1. /\ pc = "countOrders" /\ left = {} /\ answers' = Append(answers, x)
      /\ pc' = "idle" /\ left' = {} /\ listed' = TotalStock /\ counted' = {}
      /\ UNCHANGED vars /\ stock' = stock /\ shown' = shown
  BY DEF Answer, Forget, vars
<1>2. /\ Counting /\ Shown /\ Answers /\ Earlier /\ AnswersGrow /\ Inv
  BY DEF SummaryInv
<1>3. ASSUME NEW a \in Activities
      PROVE  x[a] \in Row /\ x[a].stock = listed[a] /\ Skewed(x[a], a)
  <2>1. \E r \in counted : r.activity = a
    BY <1>1, <1>2 DEF Counting
  <2>2. x[a] \in counted /\ x[a].activity = a
    BY <2>1
  <2> HIDE DEF x
  <2> QED BY <1>1, <1>2, <2>2 DEF Counting
<1>4. x \in Rows
  BY <1>3 DEF Rows
<1>5. ASSUME NEW y \in Rows, \A a \in Activities : Skewed(y[a], a), Before(y)
      PROVE  Older(y, x)
  <2> HIDE DEF x
  <2> SUFFICES ASSUME NEW a \in Activities
               PROVE  /\ y[a].stock >= x[a].stock /\ y[a].orders =< x[a].orders
                      /\ y[a].logs =< x[a].logs
    BY DEF Older
  <2>1. /\ y[a].stock \in Nat /\ y[a].orders \in Nat /\ y[a].logs \in Nat
        /\ x[a].stock \in Nat /\ x[a].orders \in Nat /\ x[a].logs \in Nat
    BY <1>4, <1>5, OlderFacts
  <2>2. /\ listed[a] =< y[a].stock /\ y[a].logs =< TotalStock[a] - listed[a]
        /\ y[a].orders =< y[a].logs
    BY <1>1, <1>5 DEF Before, Skewed
  <2>3. /\ x[a].stock = listed[a] /\ TotalStock[a] - x[a].stock =< x[a].orders
        /\ x[a].orders =< x[a].logs
    BY <1>3 DEF Skewed
  <2>4. TotalStock[a] \in Nat /\ listed[a] \in Nat
    BY <2>1, <2>3, StockAssumption
  <2> QED BY <2>1, <2>2, <2>3, <2>4
<1> HIDE DEF x
<1>6. /\ answers \in Seq(Rows) /\ n \in Nat /\ DOMAIN answers = 1 .. n
      /\ \A i \in 1 .. n : answers[i] \in Rows
  BY <1>2, LenProperties, ElementOfSeq DEF Answers
<1>7. /\ answers' \in Seq(Rows) /\ DOMAIN answers' = 1 .. n + 1 /\ answers'[n + 1] = x
      /\ \A i \in 1 .. n : answers'[i] = answers[i]
  <2> DEFINE s == Append(answers, x)
  <2>1. /\ s \in Seq(Rows) /\ Len(s) = n + 1 /\ s[n + 1] = x
        /\ \A i \in 1 .. n : s[i] = answers[i]
    BY <1>4, <1>6, AppendProperties
  <2>2. DOMAIN s = 1 .. Len(s)
    BY <2>1, LenProperties
  <2> HIDE DEF s
  <2> QED BY <1>1, <2>1, <2>2 DEF s
<1> HIDE DEF n
<1>8. ASSUME NEW i \in 1 .. n + 1 PROVE i \in 1 .. n \/ i = n + 1
  BY <1>6
<1>9. Answers'
  <2>1. ASSUME NEW i \in 1 .. n + 1, NEW a \in Activities PROVE Skewed(answers'[i][a], a)
    BY <1>2, <1>3, <1>6, <1>7, <1>8 DEF Answers
  <2> QED BY <1>1, <1>7, <2>1 DEF Answers, Skewed
<1>10. AnswersGrow'
  <2>1. ASSUME NEW i \in 1 .. n PROVE Older(answers[i], x)
    BY <1>2, <1>5, <1>6, <2>1 DEF Answers, Earlier
  <2>2. Older(x, x) /\ Older(shown, x)
    BY <1>2, <1>4, <1>5, OlderFacts DEF Shown, Earlier
  <2>3. ASSUME NEW i \in 1 .. n + 1, NEW j \in 1 .. n + 1, i =< j
        PROVE  Older(answers'[i], answers'[j])
    <3>1. CASE j \in 1 .. n
      <4>1. i \in 1 .. n
        BY <1>6, <2>3, <3>1
      <4> QED BY <1>2, <1>6, <1>7, <2>3, <3>1, <4>1 DEF AnswersGrow
    <3>2. CASE j = n + 1
      BY <1>7, <1>8, <2>1, <2>2, <3>2
    <3> QED BY <1>8, <3>1, <3>2
  <2>4. ASSUME NEW i \in 1 .. n + 1 PROVE Older(answers'[i], shown) \/ Older(shown, answers'[i])
    BY <1>2, <1>6, <1>7, <1>8, <2>2 DEF AnswersGrow
  <2> QED BY <1>1, <1>7, <2>3, <2>4 DEF AnswersGrow
<1>11. Shown' /\ Inv'
  BY <1>1, <1>2, StutterInv DEF Shown, Skewed
<1>12. Counting'
  BY <1>1, <1>2, StockAssumption DEF Counting
<1>13. Earlier'
  BY <1>1 DEF Earlier, Before
<1> QED BY <1>9, <1>10, <1>11, <1>12, <1>13 DEF SummaryInv

LEMMA FailStep ==
  ASSUME SummaryInv, Fail
  PROVE  SummaryInv'
<1>1. /\ pc' = "idle" /\ left' = {} /\ listed' = TotalStock /\ counted' = {}
      /\ UNCHANGED <<vars, page>>
  BY DEF Fail, Forget
<1>2. Inv' /\ Shown' /\ Answers' /\ AnswersGrow'
  BY <1>1, CountingStep
<1>3. Counting' /\ Earlier'
  BY <1>1, StockAssumption DEF Counting, Earlier, Before
<1> QED BY <1>2, <1>3 DEF SummaryInv

\* An answer that is lost, or that the page receives, leaves the rest in order.
LEMMA RemovalStep ==
  ASSUME SummaryInv, NEW i \in DOMAIN answers, answers' = RemoveAt(answers, i),
         shown' \in {shown, answers[i]}, UNCHANGED <<vars, reader>>
  PROVE  SummaryInv'
<1> DEFINE n == Len(answers)
<1>1. /\ Counting /\ Shown /\ Answers /\ Earlier /\ AnswersGrow /\ Inv
  BY DEF SummaryInv
<1>2. /\ answers \in Seq(Rows) /\ n \in Nat /\ DOMAIN answers = 1 .. n
      /\ \A j \in 1 .. n : answers[j] \in Rows
  BY <1>1, LenProperties, ElementOfSeq DEF Answers
<1>3. /\ answers' \in Seq(Rows) /\ DOMAIN answers' = 1 .. n - 1
      /\ \A j \in 1 .. n - 1 : answers'[j] = IF j < i THEN answers[j] ELSE answers[j + 1]
  <2> DEFINE s == RemoveAt(answers, i)
  <2>1. /\ s \in Seq(Rows) /\ Len(s) = n - 1
        /\ \A j \in 1 .. n - 1 : s[j] = IF j < i THEN answers[j] ELSE answers[j + 1]
    BY <1>2, RemoveAtProperties
  <2>2. DOMAIN s = 1 .. Len(s)
    BY <2>1, LenProperties
  <2> HIDE DEF s
  <2> QED BY <2>1, <2>2 DEF s
<1> HIDE DEF n
\* Where an element that is left was before.
<1> DEFINE was(j) == IF j < i THEN j ELSE j + 1
<1>4. \A j \in 1 .. n - 1 : was(j) \in 1 .. n /\ answers'[j] = answers[was(j)]
  BY <1>2, <1>3
<1>5. \A j, k \in 1 .. n - 1 : j =< k => was(j) =< was(k)
  BY <1>2
<1> HIDE DEF was
<1>6. UNCHANGED <<stock, sales, pc, left, row, listed, counted>>
  BY DEF vars, reader
<1>7. Answers'
  <2>1. \A j \in 1 .. n - 1, a \in Activities : Skewed(answers'[j][a], a)
    BY <1>1, <1>2, <1>4 DEF Answers
  <2> QED BY <1>3, <1>6, <2>1 DEF Answers, Skewed
<1>8. Shown'
  <2>1. \A a \in Activities : Skewed(shown'[a], a)
    BY <1>1, <1>2 DEF Shown, Answers
  <2>2. shown' \in Rows
    BY <1>1, <1>2 DEF Shown
  <2> QED BY <1>6, <2>1, <2>2 DEF Shown, Skewed
<1>9. Earlier'
  <2>1. Before(shown') /\ \A j \in 1 .. n - 1 : Before(answers'[j])
    BY <1>1, <1>2, <1>4 DEF Earlier
  <2> QED BY <1>3, <1>6, <2>1 DEF Earlier, Before
<1>10. AnswersGrow'
  <2>1. ASSUME NEW j \in 1 .. n - 1, NEW k \in 1 .. n - 1, j =< k
        PROVE  Older(answers'[j], answers'[k])
    BY <1>1, <1>2, <1>4, <1>5, <2>1 DEF AnswersGrow
  <2>2. ASSUME NEW j \in 1 .. n - 1
        PROVE  Older(answers'[j], shown') \/ Older(shown', answers'[j])
    <3>1. was(j) \in 1 .. n /\ answers'[j] = answers[was(j)]
      BY <1>4
    <3>2. CASE shown' = shown
      BY <1>1, <1>2, <3>1, <3>2 DEF AnswersGrow
    <3>3. CASE shown' = answers[i]
      <4>1. i =< was(j) \/ was(j) =< i
        BY <1>2, <3>1
      <4> QED BY <1>1, <1>2, <3>1, <3>3, <4>1 DEF AnswersGrow
    <3> QED BY <3>2, <3>3
  <2> QED BY <1>3, <2>1, <2>2 DEF AnswersGrow
<1>11. Inv'
  BY <1>1, StutterInv
<1>12. Counting'
  BY <1>1, <1>6 DEF Counting, Skewed
<1> QED BY <1>7, <1>8, <1>9, <1>10, <1>11, <1>12 DEF SummaryInv

THEOREM SummaryInvariant == SummarySpec => []SummaryInv
<1>1. SummaryInv /\ [SummaryNext]_allVars => SummaryInv'
  <2> SUFFICES ASSUME SummaryInv, [SummaryNext]_allVars PROVE SummaryInv'
    OBVIOUS
  <2>1. CASE Receive
    BY <2>1, RemovalStep DEF Receive
  <2>2. CASE Lose
    BY <2>2, RemovalStep DEF Lose
  <2>3. CASE UNCHANGED allVars
    <3>1. UNCHANGED <<stock, sales, pc, left, row, listed, counted, answers, shown>>
      BY <2>3 DEF allVars, vars, reader, page
    <3>2. Inv'
      BY <2>3, StutterInv DEF SummaryInv, allVars
    <3> QED BY <3>1, <3>2 DEF SummaryInv, Shown, Answers, Counting, Earlier, Before, AnswersGrow,
                              Older, Skewed
  <2> QED BY <2>1, <2>2, <2>3, SaleStep, ListAllStep, CountOrdersStep, CountLogsStep, AnswerStep,
             FailStep DEF SummaryNext
<1> QED BY <1>1, SummaryInitInv, PTL DEF SummarySpec

\* Whatever is sold between its SELECTs, a summary errs one way only: the
\* orders that it shows account for the stock that it shows gone, and the logs
\* for the orders.
THEOREM SkewIsOneSidedHolds == SummarySpec => []SkewIsOneSided
<1>1. SummaryInv => SkewIsOneSided
  BY DEF SummaryInv, Shown, Skewed, SkewIsOneSided
<1> QED BY <1>1, SummaryInvariant, PTL

\* Of any two answers one is the later in every figure, in whatever order the
\* page gets them.
THEOREM AnswersGrowHolds == SummarySpec => []AnswersGrow
<1>1. SummaryInv => AnswersGrow
  BY DEF SummaryInv
<1> QED BY <1>1, SummaryInvariant, PTL
=============================================================================
