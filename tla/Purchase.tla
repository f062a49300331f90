------------------------------ MODULE Purchase -------------------------------
(***************************************************************************)
(* FlashSaleService::purchase over MySQL, statement by statement.          *)
(*                                                                         *)
(* A session is one MySqlConnection and the thread that calls purchase()   *)
(* on it: the event loop of a web process, a CLI, or one of the threads of *)
(* the concurrency test.  A process owns the sequence that numbers its     *)
(* orders.  The tables hold committed rows; what a transaction has written *)
(* and locked stays in tx[s] until COMMIT publishes it.  InnoDB runs at    *)
(* its default isolation, REPEATABLE READ: the first SELECT fixes a read   *)
(* view, an UPDATE works on the latest committed row under an exclusive    *)
(* lock held to the end of the transaction, and a SELECT sees the          *)
(* transaction's own writes.                                               *)
(***************************************************************************)
EXTENDS Integers, FiniteSets

CONSTANTS
  Sessions, Processes, ProcessOf,  \* ProcessOf[s]: the process that owns session s
  Users, UserStatus,               \* users.status, or "MISSING" for an id with no row
  Activities, ActivityStatus,      \* flash_sale_activities.status, or "MISSING"
  TotalStock, StartTime, EndTime,  \* the other columns of an activity
  SuffixModulus,                   \* 1000000 in generateOrderNo
  MaxTime, MaxRequests, MaxFaults  \* bounds: clock, calls of purchase(), failures

ASSUME PurchaseAssumption ==
  /\ ProcessOf \in [Sessions -> Processes]
  /\ TotalStock \in [Activities -> Nat \ {0}]
  /\ StartTime \in [Activities -> Nat]
  /\ EndTime \in [Activities -> Nat]
  /\ SuffixModulus \in Nat \ {0}

VARIABLES
  stock,      \* committed available_stock of every activity
  orders,     \* committed rows of orders
  logs,       \* committed rows of inventory_logs
  nextId,     \* AUTO_INCREMENT of orders: a rollback does not give an id back
  tx,         \* tx[s]: what the open transaction of session s locked and wrote
  link,       \* link[s]: is the TCP connection of session s usable
  pc,         \* pc[s]: the statement purchase() is about to complete
  frame,      \* frame[s]: the locals of the call of purchase()
  reply,      \* reply[s]: the ServiceErrorCode being thrown, or "DbError"
  seq,        \* seq[p]: the static atomic of generateOrderNo
  now,        \* milliseconds: NOW(3) of the server and the clock of its clients
  requests,   \* calls of purchase() so far
  faults      \* failures so far

tables == <<stock, orders, logs>>
env    == <<seq, now, requests, faults>>
vars   == <<stock, orders, logs, nextId, tx, link, pc, frame, reply, env>>
-----------------------------------------------------------------------------
NoTx    == [locks |-> {}, took |-> {}, orders |-> {}, logs |-> {}]
NoFrame == [user |-> "none", activity |-> "none", seen |-> 0, stmtTime |-> 0,
            after |-> 0, no |-> <<0, 0>>, id |-> 0]

Init == /\ stock = TotalStock
        /\ orders = {} /\ logs = {} /\ nextId = 1
        /\ tx = [s \in Sessions |-> NoTx]
        /\ link = [s \in Sessions |-> "up"]
        /\ pc = [s \in Sessions |-> "idle"]
        /\ frame = [s \in Sessions |-> NoFrame]
        /\ reply = [s \in Sessions |-> "none"]
        /\ seq = [p \in Processes |-> 0]
        /\ now = 0 /\ requests = 0 /\ faults = 0

\* Session s can run its next statement: control is at l and the link works.
At(s, l) == pc[s] = l /\ link[s] = "up"
Goto(s, l) == pc' = [pc EXCEPT ![s] = l]

\* throw: the Transaction on the stack is destroyed before a handler runs.
Throw(s, error) == /\ reply' = [reply EXCEPT ![s] = error]
                   /\ Goto(s, "rollback")

\* purchase() leaves: its locals are gone and the session can be called again.
Return(s) == /\ Goto(s, "idle")
             /\ frame' = [frame EXCEPT ![s] = NoFrame]
             /\ reply' = [reply EXCEPT ![s] = "none"]

\* COMMIT of whatever session s has open, one atomic step of the server.
Publish(s) ==
  /\ stock' = [a \in Activities |-> IF a \in tx[s].took THEN stock[a] - 1 ELSE stock[a]]
  /\ orders' = orders \cup tx[s].orders
  /\ logs' = logs \cup tx[s].logs
  /\ tx' = [tx EXCEPT ![s] = NoTx]

Discard(s) == tx' = [tx EXCEPT ![s] = NoTx]
-----------------------------------------------------------------------------
Request(s) ==
  /\ pc[s] = "idle" /\ requests < MaxRequests
  /\ \E user \in Users, activity \in Activities :
       frame' = [frame EXCEPT ![s] = [NoFrame EXCEPT !.user = user, !.activity = activity]]
  /\ Goto(s, "begin")
  /\ requests' = requests + 1
  /\ UNCHANGED <<tables, nextId, tx, link, reply, seq, now, faults>>

\* START TRANSACTION: the server first commits a transaction left open.
Begin(s) ==
  /\ At(s, "begin")
  /\ Publish(s)
  /\ Goto(s, "lookUp")
  /\ UNCHANGED <<nextId, link, frame, reply, env>>

\* The early returns, in their order; all of them read the view that the first
\* SELECT fixes.  A product row cannot be missing: it is a foreign key.
Refusal(user, activity) ==
  IF UserStatus[user] = "MISSING" THEN "UserNotFound"
  ELSE IF UserStatus[user] = "DISABLED" THEN "UserDisabled"
  ELSE IF \E o \in orders : o.user = user /\ o.activity = activity THEN "DuplicateOrder"
  ELSE IF ActivityStatus[activity] = "MISSING" THEN "ActivityNotFound" ELSE "none"

LookUpRefuses(s) ==
  /\ At(s, "lookUp")
  /\ Refusal(frame[s].user, frame[s].activity) # "none"
  /\ Throw(s, Refusal(frame[s].user, frame[s].activity))
  /\ UNCHANGED <<tables, nextId, tx, link, frame, env>>

LookUp(s) ==
  /\ At(s, "lookUp")
  /\ Refusal(frame[s].user, frame[s].activity) = "none"
  /\ frame' = [frame EXCEPT ![s].seen = stock[frame[s].activity]]
  /\ Goto(s, "sendDeduct")
  /\ UNCHANGED <<tables, nextId, tx, link, reply, env>>

\* NOW(3) is fixed when the UPDATE starts, before it waits for the row.
SendDeduct(s) ==
  /\ At(s, "sendDeduct")
  /\ frame' = [frame EXCEPT ![s].stmtTime = now]
  /\ Goto(s, "deduct")
  /\ UNCHANGED <<tables, nextId, tx, link, reply, env>>

RowFree(s, a) == \A t \in Sessions \ {s} : a \notin tx[t].locks

\* The part of the WHERE clause that is not about the stock.
Open(a, t) == ActivityStatus[a] = "ACTIVE" /\ StartTime[a] =< t /\ EndTime[a] > t

\* Mutants of Deducts: the stock is not part of the WHERE clause; or it is
\* compared with the stock that was read before.
DeductsAnyStock(s) == Open(frame[s].activity, frame[s].stmtTime)
DeductsIfUnchanged(s) == /\ Open(frame[s].activity, frame[s].stmtTime)
                         /\ stock[frame[s].activity] \in {frame[s].seen} \ {0}

Deducts(s) == /\ Open(frame[s].activity, frame[s].stmtTime)
              /\ stock[frame[s].activity] > 0

Take(x, a) == [x EXCEPT !.locks = @ \cup {a}, !.took = @ \cup {a}]

Deduct(s) ==
  LET a == frame[s].activity IN
  /\ At(s, "deduct")
  /\ RowFree(s, a) /\ Deducts(s)
  /\ tx' = [tx EXCEPT ![s] = Take(@, a)]
  /\ Goto(s, "readAfter")
  /\ UNCHANGED <<tables, nextId, link, frame, reply, env>>

\* The row is locked even when the rest of the WHERE clause does not hold.
DeductNothing(s) ==
  LET a == frame[s].activity IN
  /\ At(s, "deduct")
  /\ RowFree(s, a) /\ ~Deducts(s)
  /\ tx' = [tx EXCEPT ![s].locks = @ \cup {a}]
  /\ Goto(s, "readStock")
  /\ UNCHANGED <<tables, nextId, link, frame, reply, env>>

\* No row was updated: the SELECT that tells why reads the old view.
ReadStock(s) ==
  /\ At(s, "readStock")
  /\ Throw(s, IF frame[s].seen = 0 THEN "SoldOut" ELSE "ActivityUnavailable")
  /\ UNCHANGED <<tables, nextId, tx, link, frame, env>>

\* Mutants of ReadAfter: stock_after comes from the row read before the UPDATE;
\* or the order number is the time alone.
ReadAfterOldView(s) ==
  LET p == ProcessOf[s] IN
  /\ At(s, "readAfter")
  /\ frame' = [frame EXCEPT ![s] = [@ EXCEPT !.after = frame[s].seen - 1,
                                            !.no = <<now, seq[p] % SuffixModulus>>]]
  /\ seq' = [seq EXCEPT ![p] = @ + 1]
  /\ Goto(s, "createOrder")
  /\ UNCHANGED <<tables, nextId, tx, link, reply, now, requests, faults>>

ReadAfterNoSuffix(s) ==
  LET a == frame[s].activity IN
  /\ At(s, "readAfter")
  /\ frame' = [frame EXCEPT ![s] = [@ EXCEPT !.after = stock[a] - 1, !.no = <<now, 0>>]]
  /\ Goto(s, "createOrder")
  /\ UNCHANGED <<tables, nextId, tx, link, reply, env>>

\* The SELECT sees the transaction's own UPDATE; then generateOrderNo.
ReadAfter(s) ==
  LET a == frame[s].activity
      p == ProcessOf[s] IN
  /\ At(s, "readAfter")
  /\ frame' = [frame EXCEPT ![s] = [@ EXCEPT
                  !.after = stock[a] - (IF a \in tx[s].took THEN 1 ELSE 0),
                  !.no = <<now, seq[p] % SuffixModulus>>]]
  /\ seq' = [seq EXCEPT ![p] = @ + 1]
  /\ Goto(s, "createOrder")
  /\ UNCHANGED <<tables, nextId, tx, link, reply, now, requests, faults>>

\* An uncommitted row of another transaction holds this key of a unique index.
KeyFree(s) ==
  \A t \in Sessions \ {s} : \A o \in tx[t].orders :
     /\ o.no # frame[s].no
     /\ <<o.activity, o.user>> # <<frame[s].activity, frame[s].user>>

\* Mutant of KeyTaken: uk_orders_activity_user is missing.
KeyTakenByNumber(s) == \E o \in orders : o.no = frame[s].no

\* uk_orders_order_no or uk_orders_activity_user has the key: error 1062.
KeyTaken(s) ==
  \E o \in orders : \/ o.no = frame[s].no
                    \/ o.activity = frame[s].activity /\ o.user = frame[s].user

CreateOrder(s) ==
  /\ At(s, "createOrder")
  /\ KeyFree(s) /\ ~KeyTaken(s)
  /\ tx' = [tx EXCEPT ![s].orders = @ \cup
              {[id |-> nextId, no |-> frame[s].no,
                user |-> frame[s].user, activity |-> frame[s].activity]}]
  /\ frame' = [frame EXCEPT ![s].id = nextId]
  /\ nextId' = nextId + 1
  /\ Goto(s, "createLog")
  /\ UNCHANGED <<tables, link, reply, env>>

CreateOrderRefused(s) ==
  /\ At(s, "createOrder")
  /\ KeyFree(s) /\ KeyTaken(s)
  /\ nextId' = nextId + 1
  /\ Throw(s, "DuplicateOrder")
  /\ UNCHANGED <<tables, tx, link, frame, env>>

CreateLog(s) ==
  /\ At(s, "createLog")
  /\ tx' = [tx EXCEPT ![s].logs = @ \cup
              {[order |-> frame[s].id, activity |-> frame[s].activity,
                stockAfter |-> frame[s].after]}]
  /\ Goto(s, "commit")
  /\ UNCHANGED <<tables, nextId, link, frame, reply, env>>

\* COMMIT, and purchase() returns the order.
Commit(s) ==
  /\ At(s, "commit")
  /\ Publish(s)
  /\ Return(s)
  /\ UNCHANGED <<nextId, link, env>>

\* Mutant of Rollback: the destructor leaves the transaction open.
RollbackForgotten(s) ==
  /\ pc[s] = "rollback"
  /\ Return(s)
  /\ UNCHANGED <<tables, nextId, tx, link, env>>

\* ~Transaction: ROLLBACK; a failure of it is only logged.
Rollback(s) ==
  /\ pc[s] = "rollback"
  /\ IF link[s] = "up" THEN Discard(s) ELSE UNCHANGED tx
  /\ Return(s)
  /\ UNCHANGED <<tables, nextId, link, env>>

\* A statement on a dead link throws; when it is the constructor's START
\* TRANSACTION there is no Transaction to destroy.
StatementFails(s) ==
  /\ link[s] = "down" /\ pc[s] \notin {"idle", "rollback"}
  /\ IF pc[s] = "begin"
     THEN Return(s)
     ELSE Throw(s, "DbError") /\ UNCHANGED frame
  /\ UNCHANGED <<tables, nextId, tx, link, env>>

\* innodb_lock_wait_timeout: error 1205 undoes the statement, not the transaction.
LockTimeout(s) ==
  /\ \/ At(s, "deduct") /\ ~RowFree(s, frame[s].activity)
     \/ At(s, "createOrder") /\ ~KeyFree(s)
  /\ Throw(s, "DbError")
  /\ UNCHANGED <<tables, nextId, tx, link, frame, env>>
-----------------------------------------------------------------------------
Fault == faults < MaxFaults /\ faults' = faults + 1

DropLink(s) ==
  /\ link[s] = "up" /\ Fault
  /\ link' = [link EXCEPT ![s] = "down"]
  /\ UNCHANGED <<tables, nextId, tx, pc, frame, reply, seq, now, requests>>

\* The link drops once the server has committed and before purchase() knows.
CommitLost(s) ==
  /\ At(s, "commit") /\ Fault
  /\ Publish(s)
  /\ link' = [link EXCEPT ![s] = "down"]
  /\ Throw(s, "DbError")
  /\ UNCHANGED <<nextId, frame, seq, now, requests>>

\* The server notices a dead client and rolls its transaction back.
Reap(s) ==
  /\ link[s] = "down" /\ tx[s] # NoTx
  /\ Discard(s)
  /\ UNCHANGED <<tables, nextId, link, pc, frame, reply, env>>

\* MySQL 5.7 restarts: what was not committed is gone, and so is every link;
\* AUTO_INCREMENT starts over behind the largest committed id.
ServerRestart ==
  /\ Fault
  /\ \E n \in 1 .. nextId :
       /\ \A o \in orders : o.id < n
       /\ n = 1 \/ \E o \in orders : o.id = n - 1
       /\ nextId' = n
  /\ tx' = [s \in Sessions |-> NoTx]
  /\ link' = [s \in Sessions |-> "down"]
  /\ UNCHANGED <<tables, pc, frame, reply, seq, now, requests>>

Owned(p) == {s \in Sessions : ProcessOf[s] = p}

ProcessCrash(p) ==
  /\ Fault
  /\ link' = [s \in Sessions |-> IF s \in Owned(p) THEN "down" ELSE link[s]]
  /\ pc' = [s \in Sessions |-> IF s \in Owned(p) THEN "idle" ELSE pc[s]]
  /\ frame' = [s \in Sessions |-> IF s \in Owned(p) THEN NoFrame ELSE frame[s]]
  /\ reply' = [s \in Sessions |-> IF s \in Owned(p) THEN "none" ELSE reply[s]]
  /\ UNCHANGED <<tables, nextId, tx, seq, now, requests>>

\* A process started anew: MySqlConnection::connect runs once, at start-up, so
\* a link that was lost comes back in no other way.
ProcessStart(p) ==
  /\ Owned(p) # {}
  /\ \A s \in Owned(p) : link[s] = "down" /\ pc[s] = "idle" /\ tx[s] = NoTx
  /\ link' = [s \in Sessions |-> IF s \in Owned(p) THEN "up" ELSE link[s]]
  /\ seq' = [seq EXCEPT ![p] = 0]
  /\ UNCHANGED <<tables, nextId, tx, pc, frame, reply, now, requests, faults>>

Tick == /\ now < MaxTime
        /\ now' = now + 1
        /\ UNCHANGED <<tables, nextId, tx, link, pc, frame, reply, seq, requests, faults>>
-----------------------------------------------------------------------------
\* The statements of purchase(); waiting for a lock is not being able to step.
Step(s) == \/ Begin(s) \/ LookUpRefuses(s) \/ LookUp(s) \/ SendDeduct(s)
           \/ Deduct(s) \/ DeductNothing(s) \/ ReadStock(s) \/ ReadAfter(s)
           \/ CreateOrder(s) \/ CreateOrderRefused(s) \/ CreateLog(s)
           \/ Commit(s) \/ Rollback(s) \/ StatementFails(s)

Next == \/ \E s \in Sessions : \/ Request(s) \/ Step(s) \/ LockTimeout(s)
                               \/ DropLink(s) \/ CommitLost(s) \/ Reap(s)
        \/ \E p \in Processes : ProcessCrash(p) \/ ProcessStart(p)
        \/ ServerRestart \/ Tick

Spec == Init /\ [][Next]_vars

\* A thread runs on until its statement waits for a lock, and the server ends
\* the transaction of a dead client.  A call, a failure, a restart and a lock
\* timeout are never owed.
LiveSpec == Spec /\ \A s \in Sessions : WF_vars(Step(s)) /\ WF_vars(Reap(s))
-----------------------------------------------------------------------------
Order == [id : Nat, no : Nat \X Nat, user : Users, activity : Activities]
Log   == [order : Nat, activity : Activities, stockAfter : Nat]
Tx    == [locks : SUBSET Activities, took : SUBSET Activities,
          orders : SUBSET Order, logs : SUBSET Log]
Frame == [user : Users \cup {"none"}, activity : Activities \cup {"none"}, seen : Nat,
          stmtTime : Nat, after : Nat, no : Nat \X Nat, id : Nat]
Labels == {"idle", "begin", "lookUp", "sendDeduct", "deduct", "readStock", "readAfter",
           "createOrder", "createLog", "commit", "rollback"}
Replies == {"none", "UserNotFound", "UserDisabled", "ActivityNotFound", "DuplicateOrder",
            "SoldOut", "ActivityUnavailable", "DbError"}

\* Every variable stays in its type; in particular available_stock and
\* stock_after, unsigned columns, never go below zero.
TypeOK ==
  /\ stock \in [Activities -> Nat]
  /\ orders \subseteq Order /\ logs \subseteq Log /\ nextId \in Nat
  /\ tx \in [Sessions -> Tx]
  /\ link \in [Sessions -> {"up", "down"}]
  /\ pc \in [Sessions -> Labels]
  /\ frame \in [Sessions -> Frame]
  /\ reply \in [Sessions -> Replies]
  /\ seq \in [Processes -> Nat]
  /\ now \in Nat /\ requests \in Nat /\ faults \in Nat

\* A sale is an order and the inventory log that points to it.
Sales == {[activity |-> x[2].activity, user |-> x[1].user, unit |-> x[2].stockAfter] :
            x \in {y \in orders \X logs : y[1].id = y[2].order}}

Sale == INSTANCE FlashSale WITH sales <- Sales

\* purchase() is a sale or nothing: however transactions interleave, fail or
\* are cut off, the committed tables move only as the abstract sale allows.
RefinesFlashSale == Sale!Spec

\* The audit of sql/04_queries.sql:97-107: stock_after of the logs of an
\* activity counts down without a gap, a repeat or a mismatched order, and
\* there is one log for every order.
Ledger ==
  /\ \A a \in Activities :
       {l.stockAfter : l \in {m \in logs : m.activity = a}} = stock[a] .. TotalStock[a] - 1
  /\ \A k, l \in logs :
       k.order = l.order \/ (k.activity = l.activity /\ k.stockAfter = l.stockAfter) => k = l
  /\ \A l \in logs : \E o \in orders : o.id = l.order /\ o.activity = l.activity
  /\ \A o \in orders : \E l \in logs : l.order = o.id

\* sql/04_queries.sql:109-116: no user has two orders of one activity, and no
\* two orders share a number or an id.
OneOrderEach ==
  \A o, q \in orders :
    o.id = q.id \/ o.no = q.no \/ (o.user = q.user /\ o.activity = q.activity) => o = q

\* Between calls a live connection carries no open transaction; the next START
\* TRANSACTION would commit it, and its row lock would block every other buyer.
CleanConnection ==
  \A s \in Sessions : pc[s] = "idle" /\ link[s] = "up" => tx[s] = NoTx

\* One session at a time holds the row of an activity, so the stock a
\* transaction read after its UPDATE is still the one it commits.
AuditedStock ==
  \A s \in Sessions : pc[s] \in {"createOrder", "createLog", "commit"} /\ link[s] = "up" =>
    frame[s].after = stock[frame[s].activity] - 1

\* A buyer is turned away as unavailable only when the stock is gone or the sale
\* was not open as the UPDATE started, and as sold out only when the stock is
\* gone, although the SELECT behind it (FlashSaleService.cpp:78) reads an old view.
RefusalJustified ==
  \A s \in Sessions :
    LET a == frame[s].activity IN
    /\ reply[s] = "SoldOut" => stock[a] = 0
    /\ reply[s] = "ActivityUnavailable" => stock[a] = 0 \/ ~Open(a, frame[s].stmtTime)

\* "user has already purchased this activity" (FlashSaleService.cpp:128) is
\* said only to a user who has an order of the activity.
DuplicateMeansOrdered ==
  \A s \in Sessions : reply[s] = "DuplicateOrder" =>
    \E o \in orders : o.user = frame[s].user /\ o.activity = frame[s].activity

\* Every call of purchase() ends, with no help of a lock timeout: the waits for
\* rows and unique keys are never circular.
Answered == \A s \in Sessions : pc[s] # "idle" ~> pc[s] = "idle"
=============================================================================
