--------------------------- MODULE PurchaseProofs ----------------------------
(***************************************************************************)
(* Proofs about Purchase for every set of sessions, processes, users and   *)
(* activities, every number of calls and every failure it models.          *)
(***************************************************************************)
EXTENDS Purchase, FiniteSetTheorems, TLAPS

Fresh(o, q) == /\ o.id # q.id
               /\ o.no # q.no
               /\ ~(o.user = q.user /\ o.activity = q.activity)

\* A transaction changes only rows it has locked, and no row has two lockers.
Locked ==
  /\ \A s \in Sessions : tx[s].took \subseteq tx[s].locks
  /\ \A s, t \in Sessions : s # t => tx[s].locks \cap tx[t].locks = {}

\* The unique indexes cover the rows of open transactions too.
Pending ==
  /\ \A s \in Sessions : \A o \in tx[s].orders :
       o.id < nextId /\ \A q \in orders : Fresh(o, q)
  /\ \A s, t \in Sessions : s # t =>
       \A o \in tx[s].orders, q \in tx[t].orders : Fresh(o, q)

MyOrder(s) == [id |-> frame[s].id, no |-> frame[s].no,
               user |-> frame[s].user, activity |-> frame[s].activity]
MyLog(s) == [order |-> frame[s].id, activity |-> frame[s].activity,
             stockAfter |-> frame[s].after]

Unwritten == {"idle", "begin", "lookUp", "sendDeduct", "deduct"}
Deducted  == {"readAfter", "createOrder", "createLog", "commit"}

\* What the transaction of a live connection holds at each statement.
Shape(s) ==
  /\ pc[s] \in Unwritten => tx[s] = NoTx
  /\ pc[s] \in Deducted => /\ tx[s].locks = {frame[s].activity}
                           /\ tx[s].took = {frame[s].activity}
                           /\ stock[frame[s].activity] > 0
  /\ pc[s] \in {"readAfter", "createOrder"} => tx[s].orders = {} /\ tx[s].logs = {}
  /\ pc[s] \in Deducted \ {"readAfter"} => frame[s].after = stock[frame[s].activity] - 1
  /\ pc[s] = "createLog" => tx[s].orders = {MyOrder(s)} /\ tx[s].logs = {}
  /\ pc[s] = "commit" => tx[s].orders = {MyOrder(s)} /\ tx[s].logs = {MyLog(s)}

Progress == \A s \in Sessions : link[s] = "up" => Shape(s)

\* A call in progress is for some user and activity.
Called == \A s \in Sessions : pc[s] # "idle" =>
            frame[s].user \in Users /\ frame[s].activity \in Activities

Committed == /\ OneOrderEach /\ Ledger
             /\ \A o \in orders : o.id < nextId
             /\ \A a \in Activities : stock[a] =< TotalStock[a]

IInv == TypeOK /\ Locked /\ Pending /\ Progress /\ Called /\ Committed
-----------------------------------------------------------------------------
LEMMA InitIInv == Init => IInv
<1> SUFFICES ASSUME Init PROVE IInv
  OBVIOUS
<1> USE DEF Init
<1>1. TypeOK
  BY PurchaseAssumption DEF TypeOK, NoTx, Tx, NoFrame, Frame, Labels, Replies
<1>2. Locked /\ Pending /\ Progress /\ Called
  BY DEF Locked, Pending, Progress, Shape, Called, NoTx, Unwritten, Deducted
<1>3. Committed
  <2>1. ASSUME NEW a \in Activities
        PROVE  {l.stockAfter : l \in {m \in logs : m.activity = a}} = stock[a] .. TotalStock[a] - 1
    <3>1. stock[a] = TotalStock[a] /\ TotalStock[a] \in Nat
      BY PurchaseAssumption
    <3>2. {l.stockAfter : l \in {m \in logs : m.activity = a}} = {}
      OBVIOUS
    <3> QED
      BY <3>1, <3>2
  <2> QED
    BY <2>1, PurchaseAssumption DEF Committed, OneOrderEach, Ledger
<1> QED
  BY <1>1, <1>2, <1>3 DEF IInv
-----------------------------------------------------------------------------
\* Publishing an empty transaction changes nothing.
LEMMA PublishNothing ==
  ASSUME TypeOK, NEW s \in Sessions, tx[s] = NoTx, Publish(s)
  PROVE  UNCHANGED <<tables, tx>>
BY DEF TypeOK, Publish, NoTx, tables

\* What a live session about to commit publishes.
LEMMA PublishSale ==
  ASSUME IInv, NEW s \in Sessions, At(s, "commit"), Publish(s)
  PROVE  /\ frame[s].user \in Users /\ frame[s].activity \in Activities
         /\ stock[frame[s].activity] \in Nat \ {0}
         /\ frame[s].after = stock[frame[s].activity] - 1
         /\ stock' = [stock EXCEPT ![frame[s].activity] = frame[s].after]
         /\ orders' = orders \cup {MyOrder(s)}
         /\ logs' = logs \cup {MyLog(s)}
         /\ tx' = [tx EXCEPT ![s] = NoTx]
         /\ \A q \in orders : Fresh(MyOrder(s), q)
         /\ MyOrder(s).id < nextId
         /\ MyOrder(s) \in Order /\ MyLog(s) \in Log
<1>1. /\ frame[s] \in Frame /\ frame[s].user \in Users /\ frame[s].activity \in Activities
      /\ stock \in [Activities -> Nat]
  BY DEF IInv, TypeOK, Called, At
<1>2. /\ tx[s].took = {frame[s].activity} /\ stock[frame[s].activity] > 0
      /\ frame[s].after = stock[frame[s].activity] - 1
      /\ tx[s].orders = {MyOrder(s)} /\ tx[s].logs = {MyLog(s)}
  BY DEF IInv, Progress, Shape, At, Deducted
<1>3. stock' = [stock EXCEPT ![frame[s].activity] = frame[s].after]
  BY <1>1, <1>2 DEF Publish
<1>4. /\ orders' = orders \cup {MyOrder(s)}
      /\ logs' = logs \cup {MyLog(s)}
      /\ tx' = [tx EXCEPT ![s] = NoTx]
  BY <1>2 DEF Publish
<1>5. MyOrder(s).id < nextId /\ \A q \in orders : Fresh(MyOrder(s), q)
  BY <1>2 DEF IInv, Pending
<1>6. MyOrder(s) \in Order /\ MyLog(s) \in Log
  BY <1>1 DEF MyOrder, MyLog, Order, Log, Frame
<1> QED
  BY <1>1, <1>2, <1>3, <1>4, <1>5, <1>6
-----------------------------------------------------------------------------
\* Setting locals to values of their types keeps a frame a frame.
LEMMA FrameUpdates ==
  /\ \A f \in Frame, n \in Nat : /\ [f EXCEPT !.seen = n] \in Frame
                                 /\ [f EXCEPT !.stmtTime = n] \in Frame
                                 /\ [f EXCEPT !.id = n] \in Frame
  /\ \A f \in Frame, n \in Nat, k \in Nat \X Nat : [f EXCEPT !.after = n, !.no = k] \in Frame
  /\ \A f \in Frame, user \in Users, activity \in Activities :
       [f EXCEPT !.user = user, !.activity = activity] \in Frame
BY DEF Frame

\* Locking a row, with or without updating it, keeps a transaction one.
LEMMA TxUpdates ==
  /\ \A x \in Tx, a \in Activities :
       /\ Take(x, a) \in Tx
       /\ [x EXCEPT !.locks = x.locks \cup {a}] \in Tx
  /\ \A x \in Tx, o \in Order : [x EXCEPT !.orders = x.orders \cup {o}] \in Tx
  /\ \A x \in Tx, l \in Log : [x EXCEPT !.logs = x.logs \cup {l}] \in Tx
BY DEF Tx, Take
-----------------------------------------------------------------------------
LEMMA TypeNext == ASSUME IInv, [Next]_vars PROVE TypeOK'
<1> USE PurchaseAssumption DEF At, Goto, Throw, Return, Discard, Fault, Owned
<1>1. TypeOK /\ NoFrame \in Frame /\ NoTx \in Tx
  BY DEF IInv, NoFrame, Frame, NoTx, Tx
<1>2. ASSUME NEW s \in Sessions, Request(s) PROVE TypeOK'
  <2>1. frame' \in [Sessions -> Frame]
    <3>1. PICK user \in Users, activity \in Activities :
            frame' = [frame EXCEPT ![s] = [NoFrame EXCEPT !.user = user, !.activity = activity]]
      BY <1>2 DEF Request
    <3>2. [NoFrame EXCEPT !.user = user, !.activity = activity] \in Frame
      BY <1>1, FrameUpdates
    <3> QED
      BY <1>1, <3>1, <3>2 DEF TypeOK
  <2> QED
    BY <1>1, <1>2, <2>1 DEF Request, TypeOK, tables, Labels
<1>3. ASSUME NEW s \in Sessions, Begin(s) PROVE TypeOK'
  <2>1. UNCHANGED <<tables, tx>>
    BY <1>1, <1>3, PublishNothing DEF Begin, IInv, Progress, Shape, Unwritten
  <2> QED
    BY <1>1, <1>3, <2>1 DEF Begin, TypeOK, tables, env, Labels
<1>4. ASSUME NEW s \in Sessions, LookUpRefuses(s) PROVE TypeOK'
  <2>1. Refusal(frame[s].user, frame[s].activity) \in Replies
    BY DEF Refusal, Replies
  <2> QED
    BY <1>1, <1>4, <2>1 DEF LookUpRefuses, TypeOK, tables, env, Labels
<1>5. ASSUME NEW s \in Sessions, LookUp(s) PROVE TypeOK'
  <2>1. stock[frame[s].activity] \in Nat
    BY <1>1, <1>5 DEF IInv, Called, LookUp, TypeOK
  <2>2. frame' \in [Sessions -> Frame]
    BY <1>1, <1>5, <2>1, FrameUpdates DEF LookUp, TypeOK
  <2> QED
    BY <1>1, <1>5, <2>2 DEF LookUp, TypeOK, tables, env, Labels
<1>6. ASSUME NEW s \in Sessions, SendDeduct(s) PROVE TypeOK'
  <2>1. frame' \in [Sessions -> Frame]
    BY <1>1, <1>6, FrameUpdates DEF SendDeduct, TypeOK
  <2> QED
    BY <1>1, <1>6, <2>1 DEF SendDeduct, TypeOK, tables, env, Labels
<1>7. ASSUME NEW s \in Sessions, Deduct(s) \/ DeductNothing(s) PROVE TypeOK'
  <2>1. frame[s].activity \in Activities
    BY <1>7 DEF IInv, Called, Deduct, DeductNothing
  <2>2. tx' \in [Sessions -> Tx]
    <3>1. /\ Take(tx[s], frame[s].activity) \in Tx
          /\ [tx[s] EXCEPT !.locks = tx[s].locks \cup {frame[s].activity}] \in Tx
      BY <1>1, <2>1, TxUpdates DEF TypeOK
    <3>2. CASE Deduct(s)
      BY <1>1, <3>1, <3>2 DEF Deduct, TypeOK
    <3>3. CASE DeductNothing(s)
      BY <1>1, <3>1, <3>3 DEF DeductNothing, TypeOK
    <3> QED
      BY <1>7, <3>2, <3>3
  <2> QED
    BY <1>1, <1>7, <2>2 DEF Deduct, DeductNothing, TypeOK, tables, env, Labels
<1>8. ASSUME NEW s \in Sessions, ReadStock(s) PROVE TypeOK'
  BY <1>1, <1>8 DEF ReadStock, TypeOK, tables, env, Labels, Replies
<1>9. ASSUME NEW s \in Sessions, ReadAfter(s) PROVE TypeOK'
  <2>1. stock[frame[s].activity] \in Nat /\ stock[frame[s].activity] > 0
    BY <1>1, <1>9 DEF IInv, Called, Progress, Shape, Deducted, ReadAfter, TypeOK
  <2>2. seq[ProcessOf[s]] \in Nat /\ seq[ProcessOf[s]] % SuffixModulus \in Nat /\ now \in Nat
    BY <1>1 DEF TypeOK
  <2>3. frame' \in [Sessions -> Frame]
    <3> DEFINE n == stock[frame[s].activity] - (IF frame[s].activity \in tx[s].took THEN 1 ELSE 0)
               k == <<now, seq[ProcessOf[s]] % SuffixModulus>>
    <3>1. n \in Nat /\ k \in Nat \X Nat
      BY <2>1, <2>2
    <3>2. frame' = [frame EXCEPT ![s] = [frame[s] EXCEPT !.after = n, !.no = k]]
      BY <1>9 DEF ReadAfter
    <3> HIDE DEF n, k
    <3>3. [frame[s] EXCEPT !.after = n, !.no = k] \in Frame
      BY <1>1, <3>1, FrameUpdates DEF TypeOK
    <3> QED
      BY <1>1, <3>2, <3>3 DEF TypeOK
  <2> QED
    BY <1>1, <1>9, <2>2, <2>3 DEF ReadAfter, TypeOK, tables, Labels
<1>10. ASSUME NEW s \in Sessions, CreateOrder(s) PROVE TypeOK'
  <2>1. frame[s] \in Frame /\ frame[s].user \in Users /\ frame[s].activity \in Activities
    BY <1>1, <1>10 DEF IInv, Called, CreateOrder, TypeOK
  <2>2. [id |-> nextId, no |-> frame[s].no,
         user |-> frame[s].user, activity |-> frame[s].activity] \in Order
    BY <1>1, <2>1 DEF TypeOK, Frame, Order
  <2>3. tx' \in [Sessions -> Tx]
    BY <1>1, <1>10, <2>2, TxUpdates DEF CreateOrder, TypeOK
  <2>4. frame' \in [Sessions -> Frame]
    BY <1>1, <1>10, FrameUpdates DEF CreateOrder, TypeOK
  <2> QED
    BY <1>1, <1>10, <2>3, <2>4 DEF CreateOrder, TypeOK, tables, env, Labels
<1>11. ASSUME NEW s \in Sessions, CreateOrderRefused(s) PROVE TypeOK'
  BY <1>1, <1>11 DEF CreateOrderRefused, TypeOK, tables, env, Labels, Replies
<1>12. ASSUME NEW s \in Sessions, CreateLog(s) PROVE TypeOK'
  <2>1. frame[s] \in Frame /\ frame[s].activity \in Activities
    BY <1>1, <1>12 DEF IInv, Called, CreateLog, TypeOK
  <2>2. [order |-> frame[s].id, activity |-> frame[s].activity,
         stockAfter |-> frame[s].after] \in Log
    BY <2>1 DEF Frame, Log
  <2>3. tx' \in [Sessions -> Tx]
    BY <1>1, <1>12, <2>2, TxUpdates DEF CreateLog, TypeOK
  <2> QED
    BY <1>1, <1>12, <2>3 DEF CreateLog, TypeOK, tables, env, Labels
<1>13. ASSUME NEW s \in Sessions, Commit(s) \/ CommitLost(s) PROVE TypeOK'
  <2>1. At(s, "commit") /\ Publish(s)
    BY <1>13 DEF Commit, CommitLost
  <2>2. /\ stock' \in [Activities -> Nat]
        /\ orders' \subseteq Order /\ logs' \subseteq Log /\ tx' \in [Sessions -> Tx]
    <3> HIDE DEF At
    <3> QED
      BY <1>1, <2>1, PublishSale DEF TypeOK
  <2> QED
    BY <1>1, <1>13, <2>2 DEF Commit, CommitLost, TypeOK, env, Labels, Replies
<1>14. ASSUME NEW s \in Sessions, Rollback(s) \/ StatementFails(s) \/ LockTimeout(s)
       PROVE  TypeOK'
  BY <1>1, <1>14 DEF Rollback, StatementFails, LockTimeout, TypeOK, tables, env, Labels, Replies
<1>15. ASSUME NEW s \in Sessions, DropLink(s) \/ Reap(s) PROVE TypeOK'
  BY <1>1, <1>15 DEF DropLink, Reap, TypeOK, tables, env
<1>16. ASSUME NEW p \in Processes, ProcessCrash(p) \/ ProcessStart(p) PROVE TypeOK'
  BY <1>1, <1>16 DEF ProcessCrash, ProcessStart, TypeOK, tables, env, Labels, Replies
<1>17. ASSUME ServerRestart \/ Tick PROVE TypeOK'
  BY <1>1, <1>17 DEF ServerRestart, Tick, TypeOK, tables, env
<1>18. ASSUME UNCHANGED vars PROVE TypeOK'
  BY <1>1, <1>18 DEF TypeOK, vars, env
<1> QED
  BY <1>2, <1>3, <1>4, <1>5, <1>6, <1>7, <1>8, <1>9, <1>10, <1>11, <1>12, <1>13, <1>14,
     <1>15, <1>16, <1>17, <1>18 DEF Next, Step
-----------------------------------------------------------------------------
\* To the tables and the open transactions a step is one of a few things: it
\* leaves them alone but for discarded transactions, it writes in one
\* transaction, or it publishes a finished sale; or the server restarts.
Quiet == /\ UNCHANGED tables /\ nextId' \in Nat /\ nextId' >= nextId
         /\ \A t \in Sessions : tx'[t] \in {tx[t], NoTx}
Writes(s) == Deduct(s) \/ DeductNothing(s) \/ CreateOrder(s) \/ CreateLog(s)
Sells(s) == At(s, "commit") /\ Publish(s) /\ UNCHANGED nextId

LEMMA StepKinds ==
  ASSUME IInv, [Next]_vars
  PROVE  Quiet \/ ServerRestart \/ \E s \in Sessions : Writes(s) \/ Sells(s)
<1> USE DEF Quiet, tables, env
<1>1. tx \in [Sessions -> Tx] /\ nextId \in Nat
  BY DEF IInv, TypeOK
<1>2. ASSUME NEW s \in Sessions, Begin(s) PROVE Quiet
  <2>1. UNCHANGED <<tables, tx>>
    BY <1>2, PublishNothing DEF Begin, At, IInv, Progress, Shape, Unwritten
  <2> QED
    BY <1>1, <1>2, <2>1 DEF Begin
<1>3. ASSUME NEW s \in Sessions,
             \/ Request(s) \/ LookUpRefuses(s) \/ LookUp(s) \/ SendDeduct(s) \/ ReadStock(s)
             \/ ReadAfter(s) \/ StatementFails(s) \/ LockTimeout(s) \/ DropLink(s)
      PROVE  Quiet
  <2>1. UNCHANGED <<tables, nextId, tx>>
    <3>1. CASE Request(s)
      BY <3>1 DEF Request
    <3>2. CASE LookUpRefuses(s) \/ LookUp(s)
      BY <3>2 DEF LookUpRefuses, LookUp
    <3>3. CASE SendDeduct(s) \/ ReadStock(s)
      BY <3>3 DEF SendDeduct, ReadStock
    <3>4. CASE ReadAfter(s)
      BY <3>4 DEF ReadAfter
    <3>5. CASE StatementFails(s) \/ LockTimeout(s) \/ DropLink(s)
      BY <3>5 DEF StatementFails, LockTimeout, DropLink
    <3> QED
      BY <1>3, <3>1, <3>2, <3>3, <3>4, <3>5
  <2> QED
    BY <1>1, <2>1
<1>4. ASSUME NEW s \in Sessions, CreateOrderRefused(s) PROVE Quiet
  BY <1>1, <1>4 DEF CreateOrderRefused
<1>5. ASSUME NEW s \in Sessions, Rollback(s) \/ Reap(s) PROVE Quiet
  BY <1>1, <1>5 DEF Rollback, Reap, Discard
<1>6. ASSUME NEW s \in Sessions, Commit(s) \/ CommitLost(s) PROVE Sells(s)
  BY <1>6 DEF Commit, CommitLost, Sells
<1>7. ASSUME NEW p \in Processes, ProcessCrash(p) \/ ProcessStart(p) PROVE Quiet
  BY <1>1, <1>7 DEF ProcessCrash, ProcessStart
<1>8. ASSUME Tick \/ UNCHANGED vars PROVE Quiet
  BY <1>1, <1>8 DEF Tick, vars
<1> QED
  BY <1>2, <1>3, <1>4, <1>5, <1>6, <1>7, <1>8 DEF Next, Step, Writes
-----------------------------------------------------------------------------
LEMMA LockedNext == ASSUME IInv, [Next]_vars PROVE Locked'
<1>1. tx \in [Sessions -> Tx] /\ Locked
  BY DEF IInv, TypeOK
<1>2. ASSUME Quiet PROVE Locked'
  BY <1>1, <1>2 DEF Quiet, Locked, NoTx
<1>3. ASSUME NEW s \in Sessions, Deduct(s) \/ DeductNothing(s) PROVE Locked'
  <2> DEFINE a == frame[s].activity
  <2>1. RowFree(s, a)
    BY <1>3 DEF Deduct, DeductNothing
  <2>2. /\ tx'[s].locks = tx[s].locks \cup {a}
        /\ tx'[s].took \subseteq tx[s].took \cup {a}
    BY <1>1, <1>3 DEF Deduct, DeductNothing, Take, Tx
  <2>3. \A t \in Sessions \ {s} : tx'[t] = tx[t]
    BY <1>1, <1>3 DEF Deduct, DeductNothing
  <2> HIDE DEF a
  <2> QED
    BY <1>1, <2>1, <2>2, <2>3 DEF Locked, RowFree
<1>4. ASSUME NEW s \in Sessions, CreateOrder(s) \/ CreateLog(s) PROVE Locked'
  <2>1. \A t \in Sessions : tx'[t].locks = tx[t].locks /\ tx'[t].took = tx[t].took
    BY <1>1, <1>4 DEF CreateOrder, CreateLog, Tx
  <2> QED
    BY <1>1, <2>1 DEF Locked
<1>5. ASSUME NEW s \in Sessions, Sells(s) PROVE Locked'
  BY <1>1, <1>5 DEF Sells, Publish, Locked, NoTx
<1>6. ASSUME ServerRestart PROVE Locked'
  BY <1>6 DEF ServerRestart, Locked, NoTx
<1> QED
  BY <1>2, <1>3, <1>4, <1>5, <1>6, StepKinds DEF Writes

LEMMA PendingNext == ASSUME IInv, [Next]_vars PROVE Pending'
<1>1. tx \in [Sessions -> Tx] /\ nextId \in Nat /\ orders \subseteq Order /\ Pending
  BY DEF IInv, TypeOK
<1>2. ASSUME Quiet PROVE Pending'
  <2>1. \A t \in Sessions : \A o \in tx'[t].orders : o \in tx[t].orders /\ o.id \in Nat
    BY <1>1, <1>2 DEF Quiet, NoTx, Tx, Order
  <2>2. orders' = orders /\ nextId' \in Nat /\ nextId' >= nextId
    BY <1>2 DEF Quiet, tables
  <2> QED
    BY <1>1, <2>1, <2>2 DEF Pending, Fresh
<1>3. ASSUME NEW s \in Sessions, Deduct(s) \/ DeductNothing(s) \/ CreateLog(s) PROVE Pending'
  <2>1. \A t \in Sessions : tx'[t].orders = tx[t].orders
    BY <1>1, <1>3 DEF Deduct, DeductNothing, CreateLog, Take, Tx
  <2>2. orders' = orders /\ nextId' = nextId
    BY <1>3 DEF Deduct, DeductNothing, CreateLog, tables
  <2> QED
    BY <1>1, <2>1, <2>2 DEF Pending, Fresh
<1>4. ASSUME NEW s \in Sessions, CreateOrder(s) PROVE Pending'
  <2> DEFINE new == [id |-> nextId, no |-> frame[s].no,
                     user |-> frame[s].user, activity |-> frame[s].activity]
  <2>1. tx'[s].orders = tx[s].orders \cup {new}
    BY <1>1, <1>4 DEF CreateOrder, Tx
  <2>2. \A t \in Sessions \ {s} : tx'[t] = tx[t]
    BY <1>1, <1>4 DEF CreateOrder
  <2>3. tx[s].orders = {}
    BY <1>4 DEF CreateOrder, At, IInv, Progress, Shape
  <2>4. \A q \in orders : Fresh(new, q)
    <3>1. \A q \in orders : q.id < nextId /\ q.id \in Nat
      BY <1>1 DEF IInv, Committed, Order
    <3> QED
      BY <1>1, <1>4, <3>1 DEF CreateOrder, KeyTaken, Fresh
  <2>5. \A t \in Sessions \ {s} : \A q \in tx[t].orders : Fresh(new, q) /\ Fresh(q, new)
    <3>1. \A t \in Sessions : \A q \in tx[t].orders : q.id < nextId /\ q.id \in Nat
      BY <1>1 DEF Pending, Tx, Order
    <3> QED
      BY <1>1, <1>4, <3>1 DEF CreateOrder, KeyFree, Fresh
  <2>6. \A t \in Sessions : \A q \in tx[t].orders : q.id \in Nat
    BY <1>1 DEF Tx, Order
  <2>7. orders' = orders /\ nextId' = nextId + 1 /\ new.id = nextId
    BY <1>4 DEF CreateOrder, tables
  <2> HIDE DEF new
  <2> QED
    BY <1>1, <2>1, <2>2, <2>3, <2>4, <2>5, <2>6, <2>7 DEF Pending, Fresh
<1>5. ASSUME NEW s \in Sessions, Sells(s) PROVE Pending'
  <2>1. tx'[s].orders = {} /\ \A t \in Sessions \ {s} : tx'[t] = tx[t]
    BY <1>1, <1>5 DEF Sells, Publish, NoTx
  <2>2. orders' = orders \cup tx[s].orders /\ nextId' = nextId
    BY <1>5 DEF Sells, Publish
  <2> QED
    BY <1>1, <2>1, <2>2 DEF Pending, Fresh
<1>6. ASSUME ServerRestart PROVE Pending'
  BY <1>6 DEF ServerRestart, Pending, NoTx
<1> QED
  BY <1>2, <1>3, <1>4, <1>5, <1>6, StepKinds DEF Writes
-----------------------------------------------------------------------------
LEMMA CalledNext == ASSUME IInv, [Next]_vars PROVE Called'
<1> USE DEF At, Goto, Throw, Return, Discard
<1>1. /\ pc \in [Sessions -> Labels] /\ frame \in [Sessions -> Frame] /\ Called
      /\ "idle" \in Labels
  BY DEF IInv, TypeOK, Labels
<1>2. ASSUME NEW s \in Sessions, Request(s) PROVE Called'
  <2>1. PICK user \in Users, activity \in Activities :
          frame' = [frame EXCEPT ![s] = [NoFrame EXCEPT !.user = user, !.activity = activity]]
    BY <1>2 DEF Request
  <2>2. frame'[s].user = user /\ frame'[s].activity = activity
    BY <1>1, <2>1 DEF NoFrame
  <2>3. \A t \in Sessions \ {s} : frame'[t] = frame[t] /\ pc'[t] = pc[t]
    BY <1>1, <1>2, <2>1 DEF Request
  <2> QED
    BY <1>1, <2>2, <2>3 DEF Called
<1>3. ASSUME NEW s \in Sessions, LookUp(s) \/ SendDeduct(s) \/ ReadAfter(s) \/ CreateOrder(s)
      PROVE  Called'
  <2>1. \A t \in Sessions : /\ frame'[t].user = frame[t].user
                            /\ frame'[t].activity = frame[t].activity
    <3>1. CASE LookUp(s)
      BY <1>1, <3>1 DEF LookUp, Frame
    <3>2. CASE SendDeduct(s)
      BY <1>1, <3>2 DEF SendDeduct, Frame
    <3>3. CASE ReadAfter(s)
      BY <1>1, <3>3 DEF ReadAfter, Frame
    <3>4. CASE CreateOrder(s)
      BY <1>1, <3>4 DEF CreateOrder, Frame
    <3> QED
      BY <1>3, <3>1, <3>2, <3>3, <3>4
  <2>2. pc[s] # "idle" /\ \A t \in Sessions \ {s} : pc'[t] = pc[t]
    BY <1>1, <1>3 DEF LookUp, SendDeduct, ReadAfter, CreateOrder
  <2> QED
    BY <1>1, <2>1, <2>2 DEF Called
<1>4. ASSUME NEW s \in Sessions,
             \/ Begin(s) \/ LookUpRefuses(s) \/ Deduct(s) \/ DeductNothing(s) \/ ReadStock(s)
             \/ CreateOrderRefused(s) \/ CreateLog(s) \/ LockTimeout(s) \/ CommitLost(s)
      PROVE  Called'
  <2>1. frame' = frame /\ pc[s] # "idle"
    BY <1>4 DEF Begin, LookUpRefuses, Deduct, DeductNothing, ReadStock,
                CreateOrderRefused, CreateLog, LockTimeout, CommitLost
  <2>2. \A t \in Sessions \ {s} : pc'[t] = pc[t]
    BY <1>1, <1>4 DEF Begin, LookUpRefuses, Deduct, DeductNothing, ReadStock,
                      CreateOrderRefused, CreateLog, LockTimeout, CommitLost
  <2> QED
    BY <1>1, <2>1, <2>2 DEF Called
<1>5. ASSUME NEW s \in Sessions, Commit(s) \/ Rollback(s) \/ StatementFails(s) PROVE Called'
  <2>1. \A t \in Sessions \ {s} : frame'[t] = frame[t] /\ pc'[t] = pc[t]
    BY <1>1, <1>5 DEF Commit, Rollback, StatementFails
  <2>2. pc'[s] = "idle" \/ (frame' = frame /\ pc[s] # "idle")
    BY <1>1, <1>5 DEF Commit, Rollback, StatementFails
  <2> QED
    BY <1>1, <2>1, <2>2 DEF Called
<1>6. ASSUME NEW p \in Processes, ProcessCrash(p) PROVE Called'
  BY <1>1, <1>6 DEF ProcessCrash, Called
<1>7. ASSUME UNCHANGED <<pc, frame>> PROVE Called'
  BY <1>1, <1>7 DEF Called
<1>8. ASSUME NEW s \in Sessions, DropLink(s) \/ Reap(s) PROVE UNCHANGED <<pc, frame>>
  BY <1>8 DEF DropLink, Reap
<1>9. ASSUME NEW p \in Processes, ProcessStart(p) PROVE UNCHANGED <<pc, frame>>
  BY <1>9 DEF ProcessStart
<1>10. ASSUME ServerRestart \/ Tick \/ UNCHANGED vars PROVE UNCHANGED <<pc, frame>>
  BY <1>10 DEF ServerRestart, Tick, vars
<1> QED
  BY <1>2, <1>3, <1>4, <1>5, <1>6, <1>7, <1>8, <1>9, <1>10 DEF Next, Step
-----------------------------------------------------------------------------
\* A session keeps its shape while nobody touches its part of the state.
LEMMA ShapeKept ==
  ASSUME NEW t \in Sessions, Shape(t), UNCHANGED <<pc[t], frame[t], tx[t]>>,
         pc[t] \in Deducted => stock'[frame[t].activity] = stock[frame[t].activity]
  PROVE  Shape(t)'
BY DEF Shape, MyOrder, MyLog, Deducted

\* A sale leaves the rows that other live sessions hold alone.
LEMMA SaleSpares ==
  ASSUME IInv, NEW s \in Sessions, Sells(s), NEW t \in Sessions \ {s}, link[t] = "up",
         pc[t] \in Deducted
  PROVE  stock'[frame[t].activity] = stock[frame[t].activity]
<1>1. frame[t].activity \in tx[t].locks /\ frame[s].activity \in tx[s].locks
  BY DEF IInv, Progress, Shape, Sells, At, Deducted
<1>2. frame[t].activity # frame[s].activity
  BY <1>1 DEF IInv, Locked
<1>3. frame[t].activity \in Activities /\ stock \in [Activities -> Nat]
  BY DEF IInv, Called, TypeOK, Deducted
<1>4. stock' = [stock EXCEPT ![frame[s].activity] = frame[s].after]
  BY PublishSale DEF Sells
<1> QED
  BY <1>2, <1>3, <1>4

LEMMA ProgressNext == ASSUME IInv, [Next]_vars PROVE Progress'
<1> SUFFICES ASSUME NEW t \in Sessions, link'[t] = "up" PROVE Shape(t)'
  BY DEF Progress
<1> USE DEF At, Goto, Throw, Return, Discard
<1>1. /\ pc \in [Sessions -> Labels] /\ frame \in [Sessions -> Frame]
      /\ tx \in [Sessions -> Tx] /\ link \in [Sessions -> {"up", "down"}]
      /\ stock \in [Activities -> Nat] /\ nextId \in Nat
  BY DEF IInv, TypeOK
<1>2. link[t] = "up" => Shape(t)
  BY DEF IInv, Progress
<1>3. ASSUME NEW s \in Sessions, Request(s) PROVE Shape(t)'
  <2>1. CASE t = s
    BY <1>1, <1>2, <1>3, <2>1 DEF Request, Shape, Unwritten, Deducted
  <2>2. CASE t # s
    BY <1>1, <1>2, <1>3, <2>2, ShapeKept DEF Request, tables
  <2> QED
    BY <2>1, <2>2
<1>4. ASSUME NEW s \in Sessions, Begin(s) PROVE Shape(t)'
  <2>1. UNCHANGED <<tables, tx>> /\ link[t] = "up" /\ tx[s] = NoTx
    BY <1>1, <1>2, <1>4, PublishNothing DEF Begin, IInv, Progress, Shape, Unwritten
  <2>2. CASE t = s
    BY <1>1, <1>4, <2>1, <2>2 DEF Begin, Shape, Unwritten, Deducted
  <2>3. CASE t # s
    BY <1>1, <1>2, <1>4, <2>1, <2>3, ShapeKept DEF Begin, tables
  <2> QED
    BY <2>2, <2>3
<1>5. ASSUME NEW s \in Sessions, LookUp(s) \/ SendDeduct(s) PROVE Shape(t)'
  <2>1. CASE t = s
    BY <1>1, <1>2, <1>5, <2>1 DEF LookUp, SendDeduct, Shape, Unwritten, Deducted
  <2>2. CASE t # s
    BY <1>1, <1>2, <1>5, <2>2, ShapeKept DEF LookUp, SendDeduct, tables
  <2> QED
    BY <2>1, <2>2
<1>6. ASSUME NEW s \in Sessions,
             LookUpRefuses(s) \/ ReadStock(s) \/ CreateOrderRefused(s) \/ LockTimeout(s)
      PROVE  Shape(t)'
  <2>1. link' = link /\ stock' = stock /\ tx' = tx /\ frame' = frame
    BY <1>6 DEF LookUpRefuses, ReadStock, CreateOrderRefused, LockTimeout, tables
  <2>2. pc' = [pc EXCEPT ![s] = "rollback"]
    BY <1>6 DEF LookUpRefuses, ReadStock, CreateOrderRefused, LockTimeout
  <2>3. CASE t = s
    BY <1>1, <2>2, <2>3 DEF Shape, Unwritten, Deducted
  <2>4. CASE t # s
    BY <1>1, <1>2, <2>1, <2>2, <2>4, ShapeKept
  <2> QED
    BY <2>3, <2>4
<1>7. ASSUME NEW s \in Sessions, Deduct(s) PROVE Shape(t)'
  <2>1. CASE t = s
    <3>1. tx[s] = NoTx /\ stock[frame[s].activity] > 0
      BY <1>1, <1>2, <1>7, <2>1 DEF Deduct, Deducts, Shape, Unwritten
    <3>2. /\ tx'[s].locks = {frame[s].activity} /\ tx'[s].took = {frame[s].activity}
          /\ tx'[s].orders = {} /\ tx'[s].logs = {}
      BY <1>1, <1>7, <3>1 DEF Deduct, Take, NoTx
    <3>3. pc'[s] = "readAfter" /\ frame' = frame /\ stock' = stock
      BY <1>1, <1>7 DEF Deduct, tables
    <3> QED
      BY <2>1, <3>1, <3>2, <3>3 DEF Shape, Unwritten, Deducted
  <2>2. CASE t # s
    BY <1>1, <1>2, <1>7, <2>2, ShapeKept DEF Deduct, tables
  <2> QED
    BY <2>1, <2>2
<1>8. ASSUME NEW s \in Sessions, DeductNothing(s) PROVE Shape(t)'
  <2>1. CASE t = s
    BY <1>1, <1>8, <2>1 DEF DeductNothing, Shape, Unwritten, Deducted
  <2>2. CASE t # s
    BY <1>1, <1>2, <1>8, <2>2, ShapeKept DEF DeductNothing, tables
  <2> QED
    BY <2>1, <2>2
<1>9. ASSUME NEW s \in Sessions, ReadAfter(s) PROVE Shape(t)'
  <2>1. CASE t = s
    <3>1. Shape(s) /\ pc[s] = "readAfter" /\ pc'[s] = "createOrder" /\ frame[s] \in Frame
      BY <1>1, <1>2, <1>9, <2>1 DEF ReadAfter
    <3>2. /\ frame'[s].activity = frame[s].activity
          /\ frame'[s].after = stock[frame[s].activity] - 1
      <4>1. frame[s].activity \in tx[s].took
        BY <3>1 DEF Shape, Deducted
      <4> QED
        BY <1>1, <1>9, <3>1, <4>1 DEF ReadAfter, Frame
    <3>3. tx' = tx /\ stock' = stock
      BY <1>9 DEF ReadAfter, tables
    <3> QED
      BY <2>1, <3>1, <3>2, <3>3 DEF Shape, Unwritten, Deducted
  <2>2. CASE t # s
    BY <1>1, <1>2, <1>9, <2>2, ShapeKept DEF ReadAfter, tables
  <2> QED
    BY <2>1, <2>2
<1>10. ASSUME NEW s \in Sessions, CreateOrder(s) PROVE Shape(t)'
  <2>1. CASE t = s
    <3>1. Shape(s) /\ pc[s] = "createOrder" /\ pc'[s] = "createLog" /\ frame[s] \in Frame
      BY <1>1, <1>2, <1>10, <2>1 DEF CreateOrder
    <3>2. /\ frame'[s].activity = frame[s].activity /\ frame'[s].after = frame[s].after
          /\ frame'[s].user = frame[s].user /\ frame'[s].no = frame[s].no
          /\ frame'[s].id = nextId
      BY <1>1, <1>10, <3>1 DEF CreateOrder, Frame
    <3>3. /\ tx'[s].orders = tx[s].orders \cup {MyOrder(s)'}
          /\ tx'[s].locks = tx[s].locks /\ tx'[s].took = tx[s].took /\ tx'[s].logs = tx[s].logs
      BY <1>1, <1>10, <3>2 DEF CreateOrder, Tx, MyOrder
    <3>4. stock' = stock
      BY <1>10 DEF CreateOrder, tables
    <3> QED
      BY <2>1, <3>1, <3>2, <3>3, <3>4 DEF Shape, Unwritten, Deducted
  <2>2. CASE t # s
    BY <1>1, <1>2, <1>10, <2>2, ShapeKept DEF CreateOrder, tables
  <2> QED
    BY <2>1, <2>2
<1>11. ASSUME NEW s \in Sessions, CreateLog(s) PROVE Shape(t)'
  <2>1. CASE t = s
    <3>1. Shape(s) /\ pc[s] = "createLog" /\ pc'[s] = "commit"
      BY <1>1, <1>2, <1>11, <2>1 DEF CreateLog
    <3>2. frame' = frame /\ stock' = stock
      BY <1>11 DEF CreateLog, tables
    <3>3. /\ tx'[s].logs = tx[s].logs \cup {MyLog(s)}
          /\ tx'[s].locks = tx[s].locks /\ tx'[s].took = tx[s].took
          /\ tx'[s].orders = tx[s].orders
      BY <1>1, <1>11 DEF CreateLog, Tx, MyLog
    <3> QED
      BY <2>1, <3>1, <3>2, <3>3 DEF Shape, Unwritten, Deducted, MyOrder, MyLog
  <2>2. CASE t # s
    BY <1>1, <1>2, <1>11, <2>2, ShapeKept DEF CreateLog, tables
  <2> QED
    BY <2>1, <2>2
<1>12. ASSUME NEW s \in Sessions, Commit(s) \/ CommitLost(s) PROVE Shape(t)'
  <2>1. Sells(s)
    BY <1>12 DEF Commit, CommitLost, Sells
  <2>2. CASE t = s
    BY <1>1, <1>12, <2>2 DEF Commit, CommitLost, Publish, Shape, Unwritten, Deducted
  <2>3. CASE t # s
    <3>1. link[t] = "up" /\ UNCHANGED <<pc[t], frame[t], tx[t]>>
      BY <1>1, <1>12, <2>3 DEF Commit, CommitLost, Publish
    <3> QED
      BY <1>2, <2>1, <2>3, <3>1, SaleSpares, ShapeKept
  <2> QED
    BY <2>2, <2>3
<1>13. ASSUME NEW s \in Sessions, Rollback(s) PROVE Shape(t)'
  <2>1. CASE t = s
    BY <1>1, <1>13, <2>1 DEF Rollback, Shape, Unwritten, Deducted
  <2>2. CASE t # s
    BY <1>1, <1>2, <1>13, <2>2, ShapeKept DEF Rollback, tables
  <2> QED
    BY <2>1, <2>2
<1>14. ASSUME NEW s \in Sessions, StatementFails(s) \/ Reap(s) \/ DropLink(s) PROVE Shape(t)'
  <2>1. t # s /\ link[t] = "up" /\ stock' = stock /\ UNCHANGED <<pc[t], frame[t], tx[t]>>
    BY <1>1, <1>14 DEF StatementFails, Reap, DropLink, tables
  <2> QED
    BY <1>2, <2>1, ShapeKept
<1>15. ASSUME NEW p \in Processes, ProcessCrash(p) PROVE Shape(t)'
  <2>1. link[t] = "up" /\ stock' = stock /\ UNCHANGED <<pc[t], frame[t], tx[t]>>
    BY <1>1, <1>15 DEF ProcessCrash, tables
  <2> QED
    BY <1>2, <2>1, ShapeKept
<1>16. ASSUME NEW p \in Processes, ProcessStart(p) PROVE Shape(t)'
  <2>1. CASE t \in Owned(p)
    BY <1>1, <1>16, <2>1 DEF ProcessStart, Shape, Unwritten, Deducted
  <2>2. CASE t \notin Owned(p)
    BY <1>1, <1>2, <1>16, <2>2, ShapeKept DEF ProcessStart, tables
  <2> QED
    BY <2>1, <2>2
<1>17. ASSUME ServerRestart PROVE Shape(t)'
  BY <1>17 DEF ServerRestart
<1>18. ASSUME Tick \/ UNCHANGED vars PROVE Shape(t)'
  <2>1. link' = link /\ stock' = stock /\ UNCHANGED <<pc[t], frame[t], tx[t]>>
    BY <1>18 DEF Tick, vars, tables
  <2> QED
    BY <1>2, <2>1, ShapeKept
<1> QED
  BY <1>3, <1>4, <1>5, <1>6, <1>7, <1>8, <1>9, <1>10, <1>11, <1>12, <1>13, <1>14, <1>15,
     <1>16, <1>17, <1>18 DEF Next, Step
-----------------------------------------------------------------------------
\* A published sale keeps the committed tables consistent.
LEMMA SaleCommitted ==
  ASSUME IInv, NEW s \in Sessions, Sells(s)
  PROVE  Committed'
<1> DEFINE a == frame[s].activity
           o == MyOrder(s)
           l == MyLog(s)
<1>1. /\ a \in Activities /\ stock \in [Activities -> Nat] /\ stock[a] > 0
      /\ stock' = [stock EXCEPT ![a] = stock[a] - 1]
      /\ orders' = orders \cup {o} /\ logs' = logs \cup {l}
      /\ \A q \in orders : Fresh(o, q)
      /\ o.id < nextId /\ nextId' = nextId
      /\ l.order = o.id /\ l.activity = a /\ l.stockAfter = stock[a] - 1 /\ o.activity = a
  <2>1. At(s, "commit") /\ Publish(s) /\ nextId' = nextId
    BY DEF Sells
  <2>2. /\ a \in Activities /\ stock[a] \in Nat \ {0} /\ frame[s].after = stock[a] - 1
        /\ stock' = [stock EXCEPT ![a] = frame[s].after]
        /\ orders' = orders \cup {o} /\ logs' = logs \cup {l}
        /\ \A q \in orders : Fresh(o, q)
        /\ o.id < nextId
    BY <2>1, PublishSale
  <2>3. /\ l.order = o.id /\ l.activity = a /\ l.stockAfter = frame[s].after
        /\ o.activity = a
    BY DEF MyOrder, MyLog
  <2> QED
    BY <2>1, <2>2, <2>3 DEF IInv, TypeOK
<1>2. /\ orders \subseteq Order /\ logs \subseteq Log /\ nextId \in Nat
      /\ TotalStock \in [Activities -> Nat \ {0}]
      /\ OneOrderEach /\ Ledger
      /\ \A q \in orders : q.id < nextId
      /\ \A b \in Activities : stock[b] =< TotalStock[b]
  BY PurchaseAssumption DEF IInv, TypeOK, Committed
<1> HIDE DEF a, o, l
<1>3. \A k \in logs : /\ k.order # l.order
                      /\ ~(k.activity = l.activity /\ k.stockAfter = l.stockAfter)
  <2> TAKE k \in logs
  <2>1. k.order # l.order
    BY <1>1, <1>2 DEF Ledger, Fresh
  <2>2. ASSUME k.activity = a PROVE k.stockAfter # l.stockAfter
    <3>1. k.stockAfter \in stock[a] .. TotalStock[a] - 1
      BY <1>1, <1>2, <2>2 DEF Ledger
    <3> QED
      BY <1>1, <3>1
  <2> QED
    BY <1>1, <2>1, <2>2
<1>4. OneOrderEach'
  BY <1>1, <1>2 DEF OneOrderEach, Fresh
<1>5. ASSUME NEW b \in Activities
      PROVE  /\ {k.stockAfter : k \in {m \in logs' : m.activity = b}} = stock'[b] .. TotalStock[b] - 1
             /\ stock'[b] =< TotalStock[b]
  <2>1. /\ {k.stockAfter : k \in {m \in logs : m.activity = b}} = stock[b] .. TotalStock[b] - 1
        /\ stock[b] \in Nat /\ TotalStock[b] \in Nat /\ stock[b] =< TotalStock[b]
    BY <1>1, <1>2 DEF Ledger
  <2>2. CASE b = a
    <3>1. {k.stockAfter : k \in {m \in logs' : m.activity = a}}
            = {k.stockAfter : k \in {m \in logs : m.activity = a}} \cup {stock[a] - 1}
      BY <1>1
    <3>2. (stock[a] - 1) .. TotalStock[a] - 1 = (stock[a] .. TotalStock[a] - 1) \cup {stock[a] - 1}
      BY <1>1, <2>1, <2>2
    <3> QED
      BY <1>1, <2>1, <2>2, <3>1, <3>2
  <2>3. CASE b # a
    <3>1. {m \in logs' : m.activity = b} = {m \in logs : m.activity = b}
      BY <1>1, <2>3
    <3> QED
      BY <1>1, <2>1, <2>3, <3>1
  <2> QED
    BY <2>2, <2>3
<1>6. \A k, m \in logs' :
        k.order = m.order \/ (k.activity = m.activity /\ k.stockAfter = m.stockAfter) => k = m
  BY <1>1, <1>2, <1>3 DEF Ledger
<1>7. /\ \A k \in logs' : \E q \in orders' : q.id = k.order /\ q.activity = k.activity
      /\ \A q \in orders' : \E k \in logs' : k.order = q.id
  BY <1>1, <1>2 DEF Ledger
<1>8. \A q \in orders' : q.id < nextId'
  BY <1>1, <1>2
<1> QED
  BY <1>4, <1>5, <1>6, <1>7, <1>8 DEF Committed, Ledger

LEMMA CommittedNext == ASSUME IInv, [Next]_vars PROVE Committed'
<1>1. /\ Committed /\ nextId \in Nat /\ orders \subseteq Order /\ tx \in [Sessions -> Tx]
  BY DEF IInv, TypeOK
<1>2. ASSUME UNCHANGED tables, nextId' \in Nat, nextId' >= nextId PROVE Committed'
  <2>1. \A o \in orders : o.id \in Nat
    BY <1>1 DEF Order
  <2>2. orders' = orders /\ logs' = logs /\ stock' = stock
    BY <1>2 DEF tables
  <2> QED
    BY <1>1, <1>2, <2>1, <2>2 DEF Committed, OneOrderEach, Ledger
<1>3. ASSUME NEW s \in Sessions, Writes(s)
      PROVE  UNCHANGED tables /\ nextId' \in Nat /\ nextId' >= nextId
  BY <1>1, <1>3 DEF Writes, Deduct, DeductNothing, CreateOrder, CreateLog
<1>4. ASSUME ServerRestart PROVE Committed'
  <2>1. orders' = orders /\ logs' = logs /\ stock' = stock
    BY <1>4 DEF ServerRestart, tables
  <2>2. \A o \in orders : o.id < nextId'
    BY <1>4 DEF ServerRestart
  <2> QED
    BY <1>1, <2>1, <2>2 DEF Committed, OneOrderEach, Ledger
<1> QED
  BY <1>2, <1>3, <1>4, StepKinds, SaleCommitted DEF Quiet
-----------------------------------------------------------------------------
THEOREM Inductive == Spec => []IInv
<1>1. IInv /\ [Next]_vars => IInv'
  BY TypeNext, LockedNext, PendingNext, ProgressNext, CalledNext, CommittedNext DEF IInv
<1> QED
  BY InitIInv, <1>1, PTL DEF Spec

\* Types: in particular no interleaving or failure takes stock below zero.
THEOREM TypeCorrect == Spec => []TypeOK
BY Inductive, PTL DEF IInv

\* The inventory audit of sql/04_queries.sql holds in every committed state.
THEOREM LedgerHolds == Spec => []Ledger
<1>1. IInv => Ledger
  BY DEF IInv, Committed
<1> QED
  BY Inductive, <1>1, PTL

\* No user ever has two orders of one activity, in any interleaving.
THEOREM OneOrderEachHolds == Spec => []OneOrderEach
<1>1. IInv => OneOrderEach
  BY DEF IInv, Committed
<1> QED
  BY Inductive, <1>1, PTL

\* A live connection between calls has no open transaction, so no START
\* TRANSACTION ever commits the remains of a failed purchase.
THEOREM CleanConnectionHolds == Spec => []CleanConnection
<1>1. IInv => CleanConnection
  BY DEF IInv, Progress, Shape, Unwritten, CleanConnection
<1> QED
  BY Inductive, <1>1, PTL

\* The stock_after a purchase is about to log is the one it will commit.
THEOREM AuditedStockHolds == Spec => []AuditedStock
<1>1. IInv => AuditedStock
  BY DEF IInv, Progress, Shape, Deducted, AuditedStock
<1> QED
  BY Inductive, <1>1, PTL
-----------------------------------------------------------------------------
\* What a published sale adds to the abstract sales.
LEMMA SaleMapped ==
  ASSUME IInv, NEW s \in Sessions, Sells(s)
  PROVE  Sale!Sell(frame[s].user, frame[s].activity)
<1> DEFINE a == frame[s].activity
           user == frame[s].user
           o == MyOrder(s)
           l == MyLog(s)
           new == [activity |-> a, user |-> user, unit |-> stock[a] - 1]
<1>1. At(s, "commit") /\ Publish(s)
  BY DEF Sells
<1>2. /\ stock[a] \in Nat \ {0} /\ frame[s].after = stock[a] - 1
      /\ stock' = [stock EXCEPT ![a] = frame[s].after]
      /\ orders' = orders \cup {o} /\ logs' = logs \cup {l}
      /\ \A q \in orders : Fresh(o, q)
  BY <1>1, PublishSale
<1>3. /\ l.order = o.id /\ l.activity = a /\ l.stockAfter = frame[s].after
      /\ o.activity = a /\ o.user = user
  BY DEF MyOrder, MyLog
<1>4. /\ \A q \in orders : q.id # o.id /\ ~(q.user = user /\ q.activity = a)
      /\ \A k \in logs : k.order # o.id
  <2>1. \A q \in orders : q.id # o.id /\ ~(q.user = user /\ q.activity = a)
    BY <1>2, <1>3 DEF Fresh
  <2>2. \A k \in logs : \E q \in orders : q.id = k.order
    BY DEF IInv, Committed, Ledger
  <2> QED
    BY <2>1, <2>2
<1>5. \A x \in Sales : \E q \in orders : q.user = x.user /\ q.activity = x.activity
  <2> TAKE x \in Sales
  <2>1. PICK q \in orders, k \in logs :
          q.id = k.order /\ x = [activity |-> k.activity, user |-> q.user, unit |-> k.stockAfter]
    BY DEF Sales
  <2>2. PICK r \in orders : r.id = k.order /\ r.activity = k.activity
    BY DEF IInv, Committed, Ledger
  <2>3. q = r
    BY <2>1, <2>2 DEF IInv, Committed, OneOrderEach
  <2> QED
    BY <2>1, <2>2, <2>3
<1>6. Sales' = Sales \cup {new}
  <2> DEFINE row(x) == [activity |-> x[2].activity, user |-> x[1].user,
                        unit |-> x[2].stockAfter]
             Joined == {y \in orders \X logs : y[1].id = y[2].order}
  <2>1. Sales = {row(x) : x \in Joined} /\ Sales' = {row(x) : x \in Joined'}
    BY DEF Sales
  <2>2. Joined' = Joined \cup {<<o, l>>}
    <3> HIDE DEF o, l
    <3> QED
      BY <1>2, <1>3, <1>4
  <2>3. new = row(<<o, l>>)
    <3> HIDE DEF o, l
    <3> QED
      BY <1>2, <1>3
  <2> HIDE DEF new, row, Joined
  <2> QED
    BY <2>1, <2>2, <2>3
<1>7. stock' = [stock EXCEPT ![a] = stock[a] - 1]
  BY <1>2
<1>8. \A x \in Sale!Sold(a) : x.user # user
  BY <1>4, <1>5 DEF Sale!Sold
<1> QED
  BY <1>2, <1>6, <1>7, <1>8 DEF Sale!Sell

\* purchase() implements the flash sale: every step of every session, with
\* all its failures, is one sale or leaves stock and sales as they were.
THEOREM Refinement == Spec => RefinesFlashSale
<1>1. Init => Sale!Init
  BY DEF Init, Sale!Init, Sales
<1>2. ASSUME IInv, [Next]_vars PROVE [Sale!Next]_(Sale!vars)
  <2>1. ASSUME UNCHANGED tables PROVE UNCHANGED Sale!vars
    BY <2>1 DEF tables, Sale!vars, Sales
  <2>2. ASSUME NEW s \in Sessions, Writes(s) PROVE UNCHANGED tables
    BY <2>2 DEF Writes, Deduct, DeductNothing, CreateOrder, CreateLog
  <2>3. ASSUME NEW s \in Sessions, Sells(s) PROVE Sale!Next
    <3>1. frame[s].user \in Users /\ frame[s].activity \in Activities
      BY <1>2, <2>3, PublishSale DEF Sells
    <3> QED
      BY <1>2, <2>3, <3>1, SaleMapped DEF Sale!Next
  <2>4. ASSUME ServerRestart PROVE UNCHANGED tables
    BY <2>4 DEF ServerRestart
  <2> QED
    BY <1>2, <2>1, <2>2, <2>3, <2>4, StepKinds DEF Quiet
<1> QED
  BY <1>1, <1>2, Inductive, PTL DEF Spec, RefinesFlashSale, Sale!Spec
-----------------------------------------------------------------------------
\* What was learnt by the UPDATE that found no row stays true until the reply.
Refused(s) == pc[s] = "readStock" \/ reply[s] \in {"SoldOut", "ActivityUnavailable"}
Unmet(s) == stock[frame[s].activity] = 0 \/ ~Open(frame[s].activity, frame[s].stmtTime)

RInv == \A s \in Sessions : /\ Refused(s) => Unmet(s)
                            /\ reply[s] # "none" => pc[s] = "rollback"

\* An activity that is sold out stays sold out.
LEMMA SoldOutStays ==
  ASSUME IInv, [Next]_vars, NEW a \in Activities, stock[a] = 0
  PROVE  stock'[a] = 0
<1>1. ASSUME UNCHANGED tables PROVE stock'[a] = 0
  BY <1>1 DEF tables
<1>2. ASSUME NEW s \in Sessions, Writes(s) PROVE UNCHANGED tables
  BY <1>2 DEF Writes, Deduct, DeductNothing, CreateOrder, CreateLog
<1>3. ASSUME NEW s \in Sessions, Sells(s) PROVE stock'[a] = 0
  <2>1. /\ stock[frame[s].activity] \in Nat \ {0}
        /\ stock' = [stock EXCEPT ![frame[s].activity] = frame[s].after]
    BY <1>3, PublishSale DEF Sells
  <2> QED
    BY <2>1 DEF IInv, TypeOK
<1>4. ASSUME ServerRestart PROVE UNCHANGED tables
  BY <1>4 DEF ServerRestart
<1> QED
  BY <1>1, <1>2, <1>3, <1>4, StepKinds DEF Quiet

LEMMA RInvNext == ASSUME IInv, RInv, [Next]_vars PROVE RInv'
<1> SUFFICES ASSUME NEW t \in Sessions
             PROVE  (Refused(t) => Unmet(t))' /\ (reply'[t] # "none" => pc'[t] = "rollback")
  BY DEF RInv
<1> USE DEF At, Goto, Throw, Return
<1>1. /\ pc \in [Sessions -> Labels] /\ frame \in [Sessions -> Frame]
      /\ reply \in [Sessions -> Replies]
      /\ Refused(t) => Unmet(t)
      /\ reply[t] # "none" => pc[t] = "rollback"
  BY DEF IInv, TypeOK, RInv
<1>2. ASSUME UNCHANGED frame[t], Refused(t)' => Refused(t) PROVE (Refused(t) => Unmet(t))'
  <2> SUFFICES ASSUME Refused(t)' PROVE Unmet(t)'
    OBVIOUS
  <2>1. frame[t].activity \in Activities
    BY <1>1, <1>2 DEF Refused, IInv, Called
  <2> QED
    BY <1>1, <1>2, <2>1, SoldOutStays DEF Unmet
<1>3. ASSUME UNCHANGED <<pc[t], frame[t], reply[t]>>
      PROVE  (Refused(t) => Unmet(t))' /\ (reply'[t] # "none" => pc'[t] = "rollback")
  BY <1>1, <1>2, <1>3 DEF Refused
<1>4. ASSUME pc'[t] # "readStock", reply'[t] = "none"
      PROVE  (Refused(t) => Unmet(t))' /\ (reply'[t] # "none" => pc'[t] = "rollback")
  BY <1>4 DEF Refused
<1>5. ASSUME NEW s \in Sessions, Request(s) \/ Begin(s) \/ LookUp(s) \/ SendDeduct(s) \/ Deduct(s)
                                 \/ ReadAfter(s) \/ CreateOrder(s) \/ CreateLog(s)
      PROVE  (Refused(t) => Unmet(t))' /\ (reply'[t] # "none" => pc'[t] = "rollback")
  <2>1. /\ reply' = reply /\ pc[s] # "rollback" /\ pc'[s] # "readStock"
        /\ t # s => UNCHANGED <<pc[t], frame[t]>>
    <3>1. CASE Request(s) \/ Begin(s) \/ LookUp(s)
      BY <1>1, <3>1 DEF Request, Begin, LookUp
    <3>2. CASE SendDeduct(s) \/ Deduct(s) \/ ReadAfter(s)
      BY <1>1, <3>2 DEF SendDeduct, Deduct, ReadAfter
    <3>3. CASE CreateOrder(s) \/ CreateLog(s)
      BY <1>1, <3>3 DEF CreateOrder, CreateLog
    <3> QED
      BY <1>5, <3>1, <3>2, <3>3
  <2> QED
    BY <1>1, <1>3, <1>4, <2>1
<1>6. ASSUME NEW s \in Sessions, DeductNothing(s)
      PROVE  (Refused(t) => Unmet(t))' /\ (reply'[t] # "none" => pc'[t] = "rollback")
  <2>1. reply' = reply /\ frame' = frame /\ stock' = stock /\ pc[s] = "deduct"
    BY <1>6 DEF DeductNothing, tables
  <2>2. CASE t = s
    <3>1. stock[frame[s].activity] \in Nat
      BY <2>1 DEF IInv, TypeOK, Called
    <3> QED
      BY <1>1, <1>6, <2>1, <2>2, <3>1 DEF DeductNothing, Deducts, Unmet
  <2>3. CASE t # s
    BY <1>1, <1>3, <1>6, <2>1, <2>3 DEF DeductNothing
  <2> QED
    BY <2>2, <2>3
<1>7. ASSUME NEW s \in Sessions, \/ LookUpRefuses(s) \/ ReadStock(s) \/ CreateOrderRefused(s)
                                 \/ LockTimeout(s) \/ CommitLost(s)
      PROVE  (Refused(t) => Unmet(t))' /\ (reply'[t] # "none" => pc'[t] = "rollback")
  <2>1. \E error \in Replies :
          /\ reply' = [reply EXCEPT ![s] = error] /\ pc' = [pc EXCEPT ![s] = "rollback"]
          /\ frame' = frame
          /\ error \in {"SoldOut", "ActivityUnavailable"} => pc[s] = "readStock"
    <3>1. CASE LookUpRefuses(s)
      <4>1. Refusal(frame[s].user, frame[s].activity)
              \in Replies \ {"SoldOut", "ActivityUnavailable"}
        BY DEF Refusal, Replies
      <4> QED
        BY <3>1, <4>1 DEF LookUpRefuses
    <3>2. CASE ReadStock(s)
      BY <3>2 DEF ReadStock, Replies
    <3>3. CASE CreateOrderRefused(s) \/ LockTimeout(s) \/ CommitLost(s)
      BY <3>3 DEF CreateOrderRefused, LockTimeout, CommitLost, Replies
    <3> QED
      BY <1>7, <3>1, <3>2, <3>3
  <2>2. CASE t = s
    <3>1. pc'[t] = "rollback" /\ frame'[t] = frame[t] /\ (Refused(t)' => Refused(t))
      BY <1>1, <2>1, <2>2 DEF Refused
    <3> QED
      BY <1>2, <3>1
  <2>3. CASE t # s
    BY <1>1, <1>3, <2>1, <2>3
  <2> QED
    BY <2>2, <2>3
<1>8. ASSUME NEW s \in Sessions, Commit(s) \/ Rollback(s) \/ StatementFails(s)
      PROVE  (Refused(t) => Unmet(t))' /\ (reply'[t] # "none" => pc'[t] = "rollback")
  <2>1. CASE t # s
    BY <1>1, <1>3, <1>8, <2>1 DEF Commit, Rollback, StatementFails
  <2>2. CASE t = s /\ (Commit(s) \/ Rollback(s))
    BY <1>1, <1>4, <2>2 DEF Commit, Rollback
  <2>3. CASE t = s /\ StatementFails(s)
    <3>1. CASE pc[s] = "begin"
      BY <1>1, <1>4, <2>3, <3>1 DEF StatementFails
    <3>2. CASE pc[s] # "begin"
      BY <1>1, <2>3, <3>2 DEF StatementFails, Refused
    <3> QED
      BY <3>1, <3>2
  <2> QED
    BY <1>8, <2>1, <2>2, <2>3
<1>9. ASSUME NEW p \in Processes, ProcessCrash(p)
      PROVE  (Refused(t) => Unmet(t))' /\ (reply'[t] # "none" => pc'[t] = "rollback")
  BY <1>1, <1>3, <1>4, <1>9 DEF ProcessCrash
<1>10. ASSUME NEW s \in Sessions, DropLink(s) \/ Reap(s) PROVE UNCHANGED <<pc, frame, reply>>
  BY <1>10 DEF DropLink, Reap
<1>11. ASSUME NEW p \in Processes, ProcessStart(p) PROVE UNCHANGED <<pc, frame, reply>>
  BY <1>11 DEF ProcessStart
<1>12. ASSUME ServerRestart \/ Tick \/ UNCHANGED vars PROVE UNCHANGED <<pc, frame, reply>>
  BY <1>12 DEF ServerRestart, Tick, vars
<1> QED
  BY <1>3, <1>5, <1>6, <1>7, <1>8, <1>9, <1>10, <1>11, <1>12 DEF Next, Step

\* A view without stock, and the reply it leads to.
SawNone(s) == \/ pc[s] \in {"sendDeduct", "deduct", "readStock"} /\ frame[s].seen = 0
              \/ reply[s] = "SoldOut"

VInv == \A s \in Sessions : SawNone(s) => stock[frame[s].activity] = 0

LEMMA VInvNext == ASSUME IInv, RInv, VInv, [Next]_vars PROVE VInv'
<1> SUFFICES ASSUME NEW t \in Sessions, SawNone(t)' PROVE stock'[frame'[t].activity] = 0
  BY DEF VInv
<1> USE DEF At, Goto, Throw, Return
<1>1. /\ pc \in [Sessions -> Labels] /\ frame \in [Sessions -> Frame]
      /\ reply \in [Sessions -> Replies]
      /\ reply[t] # "none" => pc[t] = "rollback"
  BY DEF IInv, TypeOK, RInv
<1>2. CASE LookUp(t)
  <2>1. frame' = [frame EXCEPT ![t].seen = stock[frame[t].activity]] /\ UNCHANGED <<reply, stock>>
    BY <1>2 DEF LookUp, tables
  <2>2. pc[t] = "lookUp" /\ frame'[t].activity = frame[t].activity
        /\ frame'[t].seen = stock[frame[t].activity]
    BY <1>1, <1>2, <2>1 DEF LookUp, Frame
  <2> QED
    BY <1>1, <2>1, <2>2 DEF SawNone
<1>3. ASSUME UNCHANGED <<pc[t], frame[t], reply[t]>>
      PROVE  SawNone(t) /\ frame'[t].activity = frame[t].activity
  BY <1>3 DEF SawNone
<1>4. CASE ~LookUp(t)
  <2>1. SawNone(t) /\ frame'[t].activity = frame[t].activity
    <3>1. ASSUME NEW s \in Sessions, s # t, Request(s) \/ Step(s) \/ LockTimeout(s) \/ CommitLost(s)
          PROVE  UNCHANGED <<pc[t], frame[t], reply[t]>>
      <4>1. CASE Request(s) \/ Begin(s) \/ LookUpRefuses(s) \/ LookUp(s)
        BY <1>1, <3>1, <4>1 DEF Request, Begin, LookUpRefuses, LookUp
      <4>2. CASE SendDeduct(s) \/ Deduct(s) \/ DeductNothing(s) \/ ReadStock(s)
        BY <1>1, <3>1, <4>2 DEF SendDeduct, Deduct, DeductNothing, ReadStock
      <4>3. CASE ReadAfter(s) \/ CreateOrder(s) \/ CreateOrderRefused(s) \/ CreateLog(s)
        BY <1>1, <3>1, <4>3 DEF ReadAfter, CreateOrder, CreateOrderRefused, CreateLog
      <4>4. CASE Commit(s) \/ Rollback(s) \/ StatementFails(s) \/ LockTimeout(s) \/ CommitLost(s)
        BY <1>1, <3>1, <4>4 DEF Commit, Rollback, StatementFails, LockTimeout, CommitLost
      <4> QED
        BY <3>1, <4>1, <4>2, <4>3, <4>4 DEF Step
    <3>2. CASE Request(t) \/ Begin(t) \/ LookUpRefuses(t)
      <4>1. Refusal(frame[t].user, frame[t].activity) # "SoldOut"
        BY DEF Refusal
      <4> QED
        BY <1>1, <3>2, <4>1 DEF Request, Begin, LookUpRefuses, SawNone
    <3>3. CASE SendDeduct(t)
      BY <1>1, <3>3 DEF SendDeduct, SawNone, Frame
    <3>4. CASE Deduct(t) \/ DeductNothing(t) \/ ReadStock(t)
      BY <1>1, <3>4 DEF Deduct, DeductNothing, ReadStock, SawNone
    <3>5. CASE ReadAfter(t) \/ CreateOrder(t) \/ CreateOrderRefused(t) \/ CreateLog(t)
      BY <1>1, <3>5 DEF ReadAfter, CreateOrder, CreateOrderRefused, CreateLog, SawNone
    <3>6. CASE Commit(t) \/ Rollback(t) \/ StatementFails(t) \/ LockTimeout(t) \/ CommitLost(t)
      BY <1>1, <3>6 DEF Commit, Rollback, StatementFails, LockTimeout, CommitLost, SawNone
    <3>7. ASSUME NEW p \in Processes, ProcessCrash(p) PROVE UNCHANGED <<pc[t], frame[t], reply[t]>>
      BY <1>1, <3>7 DEF ProcessCrash, SawNone
    <3>8. ASSUME \/ \E s \in Sessions : DropLink(s) \/ Reap(s)
                 \/ \E p \in Processes : ProcessStart(p)
                 \/ ServerRestart \/ Tick \/ UNCHANGED vars
          PROVE  UNCHANGED <<pc[t], frame[t], reply[t]>>
      BY <3>8 DEF DropLink, Reap, ProcessStart, ServerRestart, Tick, vars
    <3> QED
      BY <1>3, <1>4, <3>1, <3>2, <3>3, <3>4, <3>5, <3>6, <3>7, <3>8 DEF Next, Step
  <2>2. frame[t].activity \in Activities
    BY <1>1, <2>1 DEF SawNone, IInv, Called
  <2> QED
    BY <2>1, <2>2, SoldOutStays DEF VInv
<1> QED
  BY <1>2, <1>4

\* Nobody is turned away from a sale that was open and had stock left, or is told
\* that an activity is sold out while it has stock.
THEOREM RefusalIsJustified == Spec => []RefusalJustified
<1>1. Init => RInv /\ VInv
  BY DEF Init, RInv, Refused, VInv, SawNone
<1>2. IInv /\ RInv /\ [Next]_vars => RInv'
  BY RInvNext
<1>3. IInv /\ RInv /\ VInv /\ [Next]_vars => VInv'
  BY VInvNext
<1>4. RInv /\ VInv => RefusalJustified
  BY DEF RInv, VInv, Refused, Unmet, SawNone, RefusalJustified
<1> QED
  BY Inductive, <1>1, <1>2, <1>3, <1>4, PTL DEF Spec
-----------------------------------------------------------------------------
(* One process: its sequence keeps the numbers of its orders apart.  Numbers are
   compared with their clock and with the sequence of the process, which two
   processes, a wrap of the sequence, and a process that starts again within a
   millisecond would break. *)

OneSequence == \A s, t \in Sessions : ProcessOf[s] = ProcessOf[t]

\* The process numbers no more orders than generateOrderNo has suffixes, and
\* does not start again in the millisecond in which it numbered a sale.
FewNumbers == \A p \in Processes : seq[p] =< SuffixModulus
StartsLater == \A p \in Processes : ProcessStart(p) => \A o \in orders : o.no[1] < now

Number == Nat \X Nat

\* A number that was given out already.
Earlier(n) ==
  \A s \in Sessions : n[1] < now \/ (n[1] = now /\ n[2] < seq[ProcessOf[s]])

Ordered == orders \cup UNION {tx[s].orders : s \in Sessions}
Inserting(s) == pc[s] = "createOrder"

\* No order has the number of an order that is about to be inserted.
Numbered ==
  /\ \A o \in Ordered : Earlier(o.no)
  /\ \A s \in Sessions : Inserting(s) =>
       Earlier(frame[s].no) /\ \A o \in Ordered : o.no # frame[s].no
  /\ \A s, t \in Sessions :
       s # t /\ Inserting(s) /\ Inserting(t) => frame[s].no # frame[t].no

LEMMA NumberTypes ==
  ASSUME IInv
  PROVE  /\ \A s \in Sessions : frame[s].no \in Number
         /\ \A o \in Ordered : o.no \in Number
BY DEF IInv, TypeOK, Frame, Tx, Order, Ordered, Number

\* Numbers stay apart when none is given out and none is used.
LEMMA NumberedKept ==
  ASSUME IInv, Numbered, Ordered' \subseteq Ordered,
         \A t \in Sessions : Inserting(t)' => Inserting(t) /\ frame'[t].no = frame[t].no,
         \A n \in Number : Earlier(n) => Earlier(n)'
  PROVE  Numbered'
BY NumberTypes DEF Numbered

\* A COMMIT moves orders from a transaction to the table.
LEMMA PublishedOrders ==
  ASSUME NEW s \in Sessions, tx \in [Sessions -> Tx], Publish(s)
  PROVE  Ordered' \subseteq Ordered
<1>1. \A t \in Sessions : tx'[t].orders \subseteq tx[t].orders
  BY DEF Publish, NoTx
<1>2. orders' = orders \cup tx[s].orders
  BY DEF Publish
<1> QED BY <1>1, <1>2 DEF Ordered

LEMMA NumberedNext ==
  ASSUME OneSequence, IInv, Numbered, FewNumbers', StartsLater, [Next]_vars
  PROVE  Numbered'
<1> USE DEF At, Goto, Throw, Return
<1>1. /\ pc \in [Sessions -> Labels] /\ frame \in [Sessions -> Frame]
      /\ tx \in [Sessions -> Tx] /\ seq \in [Processes -> Nat] /\ now \in Nat
      /\ ProcessOf \in [Sessions -> Processes] /\ SuffixModulus \in Nat \ {0}
  BY PurchaseAssumption DEF IInv, TypeOK
<1>2. ASSUME UNCHANGED <<seq, now>> PROVE \A n \in Number : Earlier(n) => Earlier(n)'
  BY <1>2 DEF Earlier
<1>3. ASSUME UNCHANGED <<orders, tx>> PROVE Ordered' = Ordered
  BY <1>3 DEF Ordered
\* The steps that give out no number and use none.
<1>4. ASSUME NEW s \in Sessions, UNCHANGED <<seq, now>>, Ordered' \subseteq Ordered,
             NEW l \in Labels \ {"createOrder"}, pc' = [pc EXCEPT ![s] = l],
             \A t \in Sessions \ {s} : frame'[t] = frame[t]
      PROVE  Numbered'
  <2>1. \A t \in Sessions : Inserting(t)' => Inserting(t) /\ frame'[t].no = frame[t].no
    BY <1>1, <1>4 DEF Inserting
  <2> QED BY <1>2, <1>4, <2>1, NumberedKept
<1>5. ASSUME UNCHANGED <<seq, now, pc, frame>>, Ordered' \subseteq Ordered PROVE Numbered'
  <2>1. \A t \in Sessions : Inserting(t)' => Inserting(t) /\ frame'[t].no = frame[t].no
    BY <1>5 DEF Inserting
  <2> QED BY <1>2, <1>5, <2>1, NumberedKept
<1>6. ASSUME NEW s \in Sessions, Request(s) \/ LookUpRefuses(s) \/ LookUp(s) \/ SendDeduct(s)
      PROVE  Numbered'
  <2>1. UNCHANGED <<seq, now, orders, tx>> /\ \A t \in Sessions \ {s} : frame'[t] = frame[t]
    BY <1>1, <1>6 DEF Request, LookUpRefuses, LookUp, SendDeduct, tables, env
  <2>2. \E l \in Labels \ {"createOrder"} : pc' = [pc EXCEPT ![s] = l]
    BY <1>6 DEF Request, LookUpRefuses, LookUp, SendDeduct, Labels
  <2> QED BY <1>3, <1>4, <2>1, <2>2
<1>7. ASSUME NEW s \in Sessions, Begin(s) \/ Commit(s) \/ CommitLost(s) PROVE Numbered'
  <2>1. Publish(s) /\ UNCHANGED <<seq, now>> /\ \A t \in Sessions \ {s} : frame'[t] = frame[t]
    BY <1>1, <1>7 DEF Begin, Commit, CommitLost, env
  <2>2. \E l \in Labels \ {"createOrder"} : pc' = [pc EXCEPT ![s] = l]
    BY <1>7 DEF Begin, Commit, CommitLost, Labels
  <2> QED BY <1>1, <1>4, <2>1, <2>2, PublishedOrders
<1>8. ASSUME NEW s \in Sessions, Deduct(s) \/ DeductNothing(s) \/ CreateLog(s) PROVE Numbered'
  <2>1. UNCHANGED <<seq, now, orders, frame>>
    BY <1>8 DEF Deduct, DeductNothing, CreateLog, tables, env
  <2>2. \A t \in Sessions : tx'[t].orders = tx[t].orders
    <3>1. CASE Deduct(s)
      BY <1>1, <3>1 DEF Deduct, Take, Tx
    <3>2. CASE DeductNothing(s)
      BY <1>1, <3>2 DEF DeductNothing, Tx
    <3>3. CASE CreateLog(s)
      BY <1>1, <3>3 DEF CreateLog, Tx
    <3> QED BY <1>8, <3>1, <3>2, <3>3
  <2>3. \E l \in Labels \ {"createOrder"} : pc' = [pc EXCEPT ![s] = l]
    BY <1>8 DEF Deduct, DeductNothing, CreateLog, Labels
  <2>4. Ordered' = Ordered
    BY <2>1, <2>2 DEF Ordered
  <2> QED BY <1>4, <2>1, <2>3, <2>4
<1>9. ASSUME NEW s \in Sessions, ReadStock(s) \/ CreateOrderRefused(s) \/ LockTimeout(s)
      PROVE  Numbered'
  <2>1. /\ UNCHANGED <<seq, now, orders, tx, frame>>
        /\ pc' = [pc EXCEPT ![s] = "rollback"]
    BY <1>9 DEF ReadStock, CreateOrderRefused, LockTimeout, tables, env
  <2> QED BY <1>3, <1>4, <2>1 DEF Labels
<1>10. ASSUME NEW s \in Sessions, Rollback(s) \/ StatementFails(s) PROVE Numbered'
  <2>1. UNCHANGED <<seq, now, orders>> /\ \A t \in Sessions \ {s} : frame'[t] = frame[t]
    BY <1>1, <1>10 DEF Rollback, StatementFails, tables, env
  <2>2. \A t \in Sessions : tx'[t].orders \subseteq tx[t].orders
    BY <1>1, <1>10 DEF Rollback, StatementFails, Discard, NoTx
  <2>3. \E l \in Labels \ {"createOrder"} : pc' = [pc EXCEPT ![s] = l]
    BY <1>10 DEF Rollback, StatementFails, Labels
  <2>4. Ordered' \subseteq Ordered
    BY <2>1, <2>2 DEF Ordered
  <2> QED BY <1>4, <2>1, <2>3, <2>4
\* The number that is given out is the first of its millisecond and suffix.
<1>11. ASSUME NEW s \in Sessions, ReadAfter(s) PROVE Numbered'
  <2> DEFINE p == ProcessOf[s]
  <2> PICK n : n = <<now, seq[p] % SuffixModulus>>
    OBVIOUS
  <2>1. /\ UNCHANGED <<now, orders, tx>>
        /\ seq' = [seq EXCEPT ![p] = seq[p] + 1]
        /\ frame'[s].no = n /\ \A t \in Sessions \ {s} : frame'[t] = frame[t]
        /\ \A t \in Sessions \ {s} : pc'[t] = pc[t]
    BY <1>1, <1>11 DEF ReadAfter, tables, Frame
  <2>2. p \in Processes /\ seq[p] \in Nat /\ seq'[p] = seq[p] + 1 /\ seq'[p] =< SuffixModulus
    BY <1>1, <2>1 DEF FewNumbers
  <2>3. \A t \in Sessions : ProcessOf[t] = p
    BY DEF OneSequence
  <2> HIDE DEF p
  <2>4. seq[p] % SuffixModulus = seq[p]
    <3> DEFINE m == seq[p]
    <3>1. m \in Nat /\ m < SuffixModulus
      BY <1>1, <2>2
    <3> HIDE DEF m
    <3>2. m % SuffixModulus = m
      BY <1>1, <3>1
    <3> QED BY <3>2 DEF m
  <2>5. n[1] = now /\ n[2] = seq[p]
    BY <2>4
  <2>6. \A k \in Number : Earlier(k) => Earlier(k)' /\ k # n
    <3> SUFFICES ASSUME NEW k \in Number, Earlier(k) PROVE Earlier(k)' /\ k # n
      OBVIOUS
    <3>1. /\ k[1] < now \/ (k[1] = now /\ k[2] < seq[p])
          /\ k[1] \in Nat /\ k[2] \in Nat
      BY <2>3 DEF Earlier, Number
    <3>2. k # n
      <4>1. CASE k[1] < now
        BY <1>1, <2>5, <4>1
      <4>2. CASE k[1] = now /\ k[2] < seq[p]
        BY <2>2, <2>5, <4>2
      <4> QED BY <3>1, <4>1, <4>2
    <3>3. k[1] < now \/ (k[1] = now /\ k[2] < seq'[p])
      <4>1. CASE k[1] = now /\ k[2] < seq[p]
        BY <2>2, <3>1, <4>1
      <4> QED BY <3>1, <4>1
    <3> QED BY <2>1, <2>3, <3>2, <3>3 DEF Earlier
  <2>7. Earlier(n)'
    BY <2>1, <2>2, <2>3, <2>5 DEF Earlier
  <2>8. Ordered' = Ordered
    BY <1>3, <2>1
  <2>9. \A o \in Ordered : Earlier(o.no)' /\ o.no # n
    BY <2>6, NumberTypes DEF Numbered
  <2>10. ASSUME NEW t \in Sessions \ {s}, Inserting(t)'
         PROVE  /\ Earlier(frame[t].no)' /\ frame'[t].no # n
                /\ Inserting(t) /\ frame'[t].no = frame[t].no
    <3>1. Inserting(t) /\ frame'[t] = frame[t]
      BY <2>1, <2>10 DEF Inserting
    <3> PICK k : k = frame[t].no
      OBVIOUS
    <3>2. k \in Number /\ Earlier(k) /\ frame'[t].no = k
      BY <3>1, NumberTypes DEF Numbered
    <3>3. Earlier(k)' /\ k # n
      BY <2>6, <3>2
    <3> QED BY <3>1, <3>2, <3>3
  <2>11. \A o \in Ordered' : Earlier(o.no)'
    BY <2>8, <2>9
  <2>12. ASSUME NEW t \in Sessions, Inserting(t)'
         PROVE  Earlier(frame[t].no)' /\ \A o \in Ordered' : o.no # frame'[t].no
    <3>1. CASE t = s
      BY <2>1, <2>7, <2>8, <2>9, <3>1
    <3>2. CASE t # s
      BY <2>8, <2>10, <2>12, <3>2 DEF Numbered
    <3> QED BY <3>1, <3>2
  <2>13. ASSUME NEW t \in Sessions, NEW u \in Sessions, t # u, Inserting(t)', Inserting(u)'
         PROVE  frame'[t].no # frame'[u].no
    <3>1. CASE t # s /\ u # s
      BY <2>10, <2>13, <3>1 DEF Numbered
    <3>2. CASE t = s \/ u = s
      BY <2>1, <2>10, <2>13, <3>2
    <3> QED BY <3>1, <3>2
  <2> QED BY <2>11, <2>12, <2>13 DEF Numbered
<1>12. ASSUME NEW s \in Sessions, CreateOrder(s) PROVE Numbered'
  <2>1. /\ UNCHANGED <<seq, now, orders>> /\ Inserting(s)
        /\ pc' = [pc EXCEPT ![s] = "createLog"]
        /\ \A t \in Sessions : frame'[t].no = frame[t].no
        /\ \A t \in Sessions \ {s} : tx'[t] = tx[t]
        /\ \A o \in tx'[s].orders : o \in tx[s].orders \/ o.no = frame[s].no
    BY <1>1, <1>12 DEF CreateOrder, tables, env, Inserting, Frame, Tx
  <2>2. \A o \in Ordered' : o \in Ordered \/ o.no = frame[s].no
    BY <2>1 DEF Ordered
  <2>3. \A t \in Sessions : Inserting(t)' => t # s /\ Inserting(t)
    BY <1>1, <2>1 DEF Inserting
  <2>4. \A k \in Number : Earlier(k) => Earlier(k)'
    BY <1>2, <2>1
  <2> QED BY <2>1, <2>2, <2>3, <2>4, NumberTypes DEF Numbered
<1>13. ASSUME NEW s \in Sessions, DropLink(s) \/ Reap(s) PROVE Numbered'
  <2>1. UNCHANGED <<seq, now, pc, frame, orders>>
    BY <1>13 DEF DropLink, Reap, tables, env
  <2>2. \A t \in Sessions : tx'[t].orders \subseteq tx[t].orders
    BY <1>1, <1>13 DEF DropLink, Reap, Discard, NoTx
  <2>3. Ordered' \subseteq Ordered
    BY <2>1, <2>2 DEF Ordered
  <2> QED BY <1>5, <2>1, <2>3
<1>14. ASSUME ServerRestart PROVE Numbered'
  <2>1. UNCHANGED <<seq, now, pc, frame, orders>>
    BY <1>14 DEF ServerRestart, tables
  <2>2. \A t \in Sessions : tx'[t].orders = {}
    BY <1>14 DEF ServerRestart, NoTx
  <2>3. Ordered' \subseteq Ordered
    BY <2>1, <2>2 DEF Ordered
  <2> QED BY <1>5, <2>1, <2>3
<1>15. ASSUME NEW p \in Processes, ProcessCrash(p) PROVE Numbered'
  <2>1. UNCHANGED <<seq, now, orders, tx>>
    BY <1>15 DEF ProcessCrash, tables
  <2>2. \A t \in Sessions : Inserting(t)' => Inserting(t) /\ frame'[t].no = frame[t].no
    BY <1>15 DEF ProcessCrash, Inserting
  <2> QED BY <1>2, <1>3, <2>1, <2>2, NumberedKept
\* No order is open when the process starts, and the committed ones are older.
<1>16. ASSUME NEW p \in Processes, ProcessStart(p) PROVE Numbered'
  <2>1. Owned(p) = Sessions
    BY <1>16 DEF ProcessStart, Owned, OneSequence
  <2>2. /\ UNCHANGED <<now, orders, tx, pc>>
        /\ \A t \in Sessions : pc[t] = "idle" /\ tx[t].orders = {}
    BY <1>16, <2>1 DEF ProcessStart, tables, NoTx
  <2>3. \A o \in orders : o.no[1] < now
    BY <1>16 DEF StartsLater
  <2>4. Ordered' = orders
    BY <2>2 DEF Ordered
  <2>5. \A o \in Ordered' : Earlier(o.no)'
    BY <2>2, <2>3, <2>4 DEF Earlier
  <2>6. \A t \in Sessions : ~Inserting(t)'
    BY <2>2 DEF Inserting
  <2> QED BY <2>5, <2>6 DEF Numbered
<1>17. ASSUME Tick PROVE Numbered'
  <2>1. UNCHANGED <<seq, pc, frame, orders, tx>> /\ now' = now + 1
    BY <1>17 DEF Tick, tables
  <2>2. \A i \in Nat : i < now \/ i = now => i < now'
    BY <1>1, <2>1
  <2>3. \A k \in Number : Earlier(k) => Earlier(k)'
    BY <2>2 DEF Earlier, Number
  <2>4. \A t \in Sessions : Inserting(t)' => Inserting(t) /\ frame'[t].no = frame[t].no
    BY <2>1 DEF Inserting
  <2> QED BY <1>3, <2>1, <2>3, <2>4, NumberedKept
<1>18. ASSUME UNCHANGED vars PROVE Numbered'
  <2>1. UNCHANGED <<seq, now, pc, frame, orders, tx>>
    BY <1>18 DEF vars, env
  <2> QED BY <1>3, <1>5, <2>1
<1> QED
  BY <1>6, <1>7, <1>8, <1>9, <1>10, <1>11, <1>12, <1>13, <1>14, <1>15, <1>16, <1>17, <1>18
  DEF Next, Step

\* Who is told of an order has it: his row was read, or his number is his alone.
LEMMA DuplicateNext ==
  ASSUME IInv, RInv, Numbered, DuplicateMeansOrdered, [Next]_vars
  PROVE  DuplicateMeansOrdered'
<1> SUFFICES ASSUME NEW t \in Sessions, reply'[t] = "DuplicateOrder"
             PROVE  \E o \in orders' : o.user = frame'[t].user /\ o.activity = frame'[t].activity
  BY DEF DuplicateMeansOrdered
<1> USE DEF At, Goto, Throw, Return
<1>1. /\ pc \in [Sessions -> Labels] /\ frame \in [Sessions -> Frame]
      /\ reply \in [Sessions -> Replies]
      /\ reply[t] # "none" => pc[t] = "rollback"
  BY DEF IInv, TypeOK, RInv
<1>2. orders \subseteq orders'
  <2>1. ASSUME NEW s \in Sessions, Writes(s) PROVE orders' = orders
    BY <2>1 DEF Writes, Deduct, DeductNothing, CreateOrder, CreateLog, tables
  <2>2. ASSUME NEW s \in Sessions, Sells(s) PROVE orders \subseteq orders'
    BY <2>2 DEF Sells, Publish
  <2> QED BY <2>1, <2>2, StepKinds DEF Quiet, ServerRestart, tables
<1>3. ASSUME UNCHANGED <<reply[t], frame[t]>>
      PROVE  \E o \in orders' : o.user = frame'[t].user /\ o.activity = frame'[t].activity
  BY <1>2, <1>3 DEF DuplicateMeansOrdered
<1>4. ASSUME NEW s \in Sessions, s # t,
             \/ Request(s) \/ Step(s) \/ LockTimeout(s) \/ DropLink(s) \/ CommitLost(s) \/ Reap(s)
      PROVE  UNCHANGED <<reply[t], frame[t]>>
  <2>1. CASE Request(s) \/ LockTimeout(s) \/ DropLink(s) \/ CommitLost(s) \/ Reap(s)
    BY <1>1, <1>4, <2>1 DEF Request, LockTimeout, DropLink, CommitLost, Reap
  <2>2. CASE Begin(s) \/ LookUpRefuses(s) \/ LookUp(s) \/ SendDeduct(s) \/ Deduct(s)
    BY <1>1, <1>4, <2>2 DEF Begin, LookUpRefuses, LookUp, SendDeduct, Deduct
  <2>3. CASE DeductNothing(s) \/ ReadStock(s) \/ ReadAfter(s)
    BY <1>1, <1>4, <2>3 DEF DeductNothing, ReadStock, ReadAfter
  <2>4. CASE CreateOrder(s) \/ CreateOrderRefused(s) \/ CreateLog(s)
    BY <1>1, <1>4, <2>4 DEF CreateOrder, CreateOrderRefused, CreateLog
  <2>5. CASE Commit(s) \/ Rollback(s) \/ StatementFails(s)
    BY <1>1, <1>4, <2>5 DEF Commit, Rollback, StatementFails
  <2> QED BY <1>4, <2>1, <2>2, <2>3, <2>4, <2>5 DEF Step
\* While it runs, nothing is being thrown yet.
<1>5. CASE Request(t) \/ Begin(t) \/ LookUp(t) \/ SendDeduct(t) \/ Deduct(t) \/ DeductNothing(t)
           \/ ReadAfter(t) \/ CreateOrder(t) \/ CreateLog(t)
  <2>1. reply'[t] = reply[t] /\ pc[t] # "rollback"
    <3>1. CASE Request(t) \/ Begin(t) \/ LookUp(t)
      BY <3>1 DEF Request, Begin, LookUp
    <3>2. CASE SendDeduct(t) \/ Deduct(t) \/ DeductNothing(t)
      BY <3>2 DEF SendDeduct, Deduct, DeductNothing
    <3>3. CASE ReadAfter(t) \/ CreateOrder(t) \/ CreateLog(t)
      BY <3>3 DEF ReadAfter, CreateOrder, CreateLog
    <3> QED BY <1>5, <3>1, <3>2, <3>3
  <2> QED BY <1>1, <2>1
<1>6. CASE ReadStock(t) \/ LockTimeout(t) \/ CommitLost(t) \/ Commit(t) \/ Rollback(t)
           \/ StatementFails(t)
  BY <1>1, <1>6 DEF ReadStock, LockTimeout, CommitLost, Commit, Rollback, StatementFails
<1>7. CASE LookUpRefuses(t)
  BY <1>1, <1>7 DEF LookUpRefuses, Refusal, tables
<1>8. CASE CreateOrderRefused(t)
  <2>1. frame' = frame /\ orders' = orders
    BY <1>8 DEF CreateOrderRefused, tables
  <2>2. \A o \in orders : o.no # frame[t].no
    BY <1>8 DEF CreateOrderRefused, Numbered, Ordered, Inserting
  <2>3. KeyTaken(t)
    BY <1>8 DEF CreateOrderRefused
  <2> QED BY <2>1, <2>2, <2>3 DEF KeyTaken
<1>9. CASE DropLink(t) \/ Reap(t)
  BY <1>3, <1>9 DEF DropLink, Reap
<1>10. ASSUME NEW p \in Processes, ProcessCrash(p) \/ ProcessStart(p)
       PROVE  UNCHANGED <<reply[t], frame[t]>>
  BY <1>1, <1>10 DEF ProcessCrash, ProcessStart
<1>11. ASSUME ServerRestart \/ Tick \/ UNCHANGED vars PROVE UNCHANGED <<reply[t], frame[t]>>
  BY <1>11 DEF ServerRestart, Tick, vars
<1> QED
  BY <1>3, <1>4, <1>5, <1>6, <1>7, <1>8, <1>9, <1>10, <1>11 DEF Next, Step

\* Who is told that he has already purchased an activity has an order of it, if
\* one process sells, however many threads, losses and restarts there are.
THEOREM DuplicateMeansOrderedHolds ==
  ASSUME OneSequence
  PROVE  Spec /\ []FewNumbers /\ [][StartsLater]_vars => []DuplicateMeansOrdered
<1>1. Init => RInv /\ Numbered /\ DuplicateMeansOrdered
  BY DEF Init, RInv, Refused, Numbered, Ordered, Inserting, NoTx, DuplicateMeansOrdered
<1>2. IInv /\ RInv /\ [Next]_vars => RInv'
  BY RInvNext
<1>3. IInv /\ Numbered /\ FewNumbers' /\ [Next]_vars /\ [StartsLater]_vars => Numbered'
  <2>1. ASSUME UNCHANGED vars PROVE StartsLater \/ (Numbered => Numbered')
    <3>1. UNCHANGED <<seq, now, pc, frame, orders, tx>>
      BY <2>1 DEF vars, env, tables
    <3> QED BY <3>1 DEF Numbered, Ordered, Inserting, Earlier
  <2> QED BY <2>1, NumberedNext
<1>4. IInv /\ RInv /\ Numbered /\ DuplicateMeansOrdered /\ [Next]_vars => DuplicateMeansOrdered'
  BY DuplicateNext
<1> QED
  BY Inductive, <1>1, <1>2, <1>3, <1>4, PTL DEF Spec
-----------------------------------------------------------------------------
FS == INSTANCE FlashSaleProofs WITH sales <- Sales

\* The stock and the sales of an activity always add up to its total stock:
\* what FlashSale promises is kept by the implementation.
THEOREM SalesAddUp == Spec => []FS!Conservation
<1>1. FS!StockAssumption
  BY PurchaseAssumption DEF FS!StockAssumption
<1>2. Sale!Spec => FS!Spec
  BY PTL DEF Sale!Spec, FS!Spec, Sale!Init, FS!Init, Sale!Next, FS!Next, Sale!vars, FS!vars,
             Sale!Sell, FS!Sell, Sale!Sold, FS!Sold
<1> QED
  BY <1>1, <1>2, Refinement, FS!SaleIsSound, PTL DEF RefinesFlashSale
=============================================================================
