---------------------------- MODULE CatalogProofs ----------------------------
(***************************************************************************)
(* Proofs about Catalog, for any seed data, administrators, products,       *)
(* activity numbers and calls, with every deadlock, lost connection and    *)
(* failed statement: the row locks and the count of changed rows make the  *)
(* activity and the status of its product one.                             *)
(***************************************************************************)
EXTENDS Catalog, TLAPS

Transaction == [rows : SUBSET Row, shared : SUBSET Products,
                exclusive : SUBSET Products, marked : SUBSET Products]
Statement == {"idle", "findProduct", "insert", "share", "update", "commit", "rollback"}

\* What the transaction of s has done where create() is.  A transaction that
\* rolls back may have done any part of it.
Holds(s) ==
  LET p == call[s].product IN
  /\ pc[s] # "idle" => call[s] \in Row
  /\ pc[s] \in {"idle", "findProduct", "insert"} => tx[s] = NoTx
  /\ pc[s] \in {"share", "update", "commit"} => tx[s].rows = {call[s]}
  /\ pc[s] \in {"share", "update"} => tx[s].exclusive = {} /\ tx[s].marked = {}
  /\ pc[s] = "commit" => /\ tx[s].exclusive = {p} /\ tx[s].marked = {p}
                         /\ status[p] # "IN_FLASH_SALE"
  /\ pc[s] \in {"insert", "share", "update", "commit"} => status[p] # "NONE"

\* The numbers of uncommitted activities are new.
Fresh == \A s \in Sessions : \A q \in tx[s].rows, r \in activities : q.no # r.no

\* What two transactions hold at once does not conflict.
Compatible(s, t) == /\ tx[s].exclusive \cap (tx[t].exclusive \cup tx[t].shared) = {}
                    /\ \A q \in tx[s].rows, r \in tx[t].rows : q.no # r.no

IInv == /\ TypeOK /\ MarkedTogether /\ Fresh /\ SeedActivities \subseteq activities
        /\ \A s \in Sessions : Holds(s)
        /\ \A s, t \in Sessions : s # t => Compatible(s, t)

LEMMA TxTyped ==
  ASSUME TypeOK, NEW s \in Sessions
  PROVE  /\ tx[s] \in Transaction /\ NoTx \in Transaction
         /\ tx[s].rows \subseteq Row /\ tx[s].shared \subseteq Products
         /\ tx[s].exclusive \subseteq Products /\ tx[s].marked \subseteq Products
BY DEF TypeOK, Transaction, NoTx

\* A row that is inserted has a type.
LEMMA RowTyped ==
  ASSUME NEW r \in Row
  PROVE  r.no \in Numbers /\ r.product \in Products
BY DEF Row
-----------------------------------------------------------------------------
LEMMA InitInv == Init => IInv
<1> SUFFICES ASSUME Init PROVE IInv
  OBVIOUS
<1>1. TypeOK
  BY SeedAssumption DEF Init, Seeded, SeedAssumption, TypeOK, NoTx
<1>2. MarkedTogether /\ Fresh
  BY SeedAssumption DEF Init, Seeded, SeedAssumption, MarkedTogether, Fresh, NoTx
<1>3. \A s \in Sessions : Holds(s)
  BY DEF Init, Holds, NoTx
<1>4. \A s, t \in Sessions : Compatible(s, t)
  BY DEF Init, Compatible, NoTx
<1> QED BY <1>1, <1>2, <1>3, <1>4 DEF IInv, Init

\* Of a step of s that commits nothing: what it leaves to be shown is about s
\* alone, and what it now holds against the others.
LEMMA LocalStep ==
  ASSUME IInv, NEW s \in Sessions, TypeOK', Holds(s)',
         UNCHANGED <<status, activities>>,
         \A t \in Sessions \ {s} : tx'[t] = tx[t] /\ pc'[t] = pc[t] /\ call'[t] = call[t],
         \A q \in tx'[s].rows, r \in activities : q.no # r.no,
         \A t \in Sessions \ {s} : Compatible(s, t)' /\ Compatible(t, s)'
  PROVE  IInv'
<1>1. MarkedTogether'
  BY DEF IInv, MarkedTogether
<1>2. Fresh'
  BY DEF IInv, Fresh
<1>3. ASSUME NEW t \in Sessions PROVE Holds(t)'
  <2>1. CASE t = s
    BY <2>1
  <2>2. CASE t # s
    BY <2>2 DEF IInv, Holds
  <2> QED BY <2>1, <2>2
<1>4. ASSUME NEW t \in Sessions, NEW u \in Sessions, t # u PROVE Compatible(t, u)'
  <2>1. CASE t # s /\ u # s
    BY <1>4, <2>1 DEF IInv, Compatible
  <2> QED BY <1>4, <2>1
<1> QED BY <1>1, <1>2, <1>3, <1>4 DEF IInv

\* A step of s that takes nothing more than it held.
LEMMA ReleasingStep ==
  ASSUME IInv, NEW s \in Sessions, TypeOK', Holds(s)',
         UNCHANGED <<status, activities>>,
         \A t \in Sessions \ {s} : tx'[t] = tx[t] /\ pc'[t] = pc[t] /\ call'[t] = call[t],
         tx'[s] = tx[s] \/ tx'[s] = NoTx
  PROVE  IInv'
<1>1. /\ tx'[s].rows \subseteq tx[s].rows /\ tx'[s].shared \subseteq tx[s].shared
      /\ tx'[s].exclusive \subseteq tx[s].exclusive
  BY DEF NoTx
<1>2. \A q \in tx'[s].rows, r \in activities : q.no # r.no
  BY <1>1 DEF IInv, Fresh
<1>3. ASSUME NEW t \in Sessions \ {s} PROVE Compatible(s, t)' /\ Compatible(t, s)'
  <2>1. Compatible(s, t) /\ Compatible(t, s) /\ tx'[t] = tx[t]
    BY DEF IInv
  <2> QED BY <1>1, <2>1 DEF Compatible
<1> QED BY <1>2, <1>3, LocalStep
-----------------------------------------------------------------------------
LEMMA PublishInv ==
  ASSUME IInv, NEW p \in Products, Publish(p)
  PROVE  IInv'
<1>1. TypeOK'
  BY DEF IInv, TypeOK, Status, Publish
<1>2. status \in [Products -> Status \cup {"NONE"}] /\ activities \subseteq Row
  BY DEF IInv, TypeOK
<1>3. \A q \in Products : /\ status'[q] = "IN_FLASH_SALE" <=> status[q] = "IN_FLASH_SALE"
                         /\ status'[q] = "NONE" => status[q] = "NONE"
  BY <1>2 DEF Publish
<1>4. MarkedTogether' /\ Fresh'
  BY <1>3 DEF IInv, MarkedTogether, Fresh, Publish
<1>5. ASSUME NEW s \in Sessions PROVE Holds(s)'
  <2>1. Holds(s) /\ (pc[s] # "idle" => call[s].product \in Products)
    BY RowTyped DEF IInv, Holds
  <2> QED BY <1>3, <2>1 DEF Holds, Publish
<1>6. \A s, t \in Sessions : s # t => Compatible(s, t)'
  BY DEF IInv, Compatible, Publish
<1> QED BY <1>1, <1>4, <1>5, <1>6 DEF IInv, Publish

\* The seed changes only products whose rows nobody holds, and puts none into a
\* flash sale that no activity sells.
LEMMA SeedInv ==
  ASSUME IInv, Seed
  PROVE  IInv'
<1>1. /\ status \in [Products -> Status \cup {"NONE"}] /\ status' = Seeded(status)
      /\ UNCHANGED <<activities, tx, pc, call, reply, calls>>
  BY DEF IInv, TypeOK, Seed
<1>2. ASSUME NEW p \in Products
      PROVE  /\ p \in DOMAIN SeedProducts => status'[p] = SeedProducts[p] /\ SeedProducts[p] \in Status
             /\ p \notin DOMAIN SeedProducts => status'[p] = status[p]
             /\ status'[p] = "NONE" => status[p] = "NONE"
  BY <1>1, SeedAssumption DEF Seeded, SeedAssumption, Status
<1>3. TypeOK'
  <2>1. status' \in [Products -> Status \cup {"NONE"}]
    BY <1>1, <1>2 DEF Seeded
  <2> QED BY <1>1, <2>1 DEF IInv, TypeOK
<1>4. Fresh'
  BY <1>1 DEF IInv, Fresh
<1>6. SeedActivities \subseteq activities
  BY DEF IInv
<1>7. MarkedTogether'
  <2> SUFFICES ASSUME NEW p \in Products
               PROVE  LET offered == \E r \in activities : r.product = p IN
                      /\ status'[p] = "IN_FLASH_SALE" => offered
                      /\ offered /\ p \notin DOMAIN SeedProducts => status'[p] = "IN_FLASH_SALE"
    BY <1>1 DEF MarkedTogether
  <2>1. CASE p \in DOMAIN SeedProducts
    BY <1>2, <1>6, <2>1, SeedAssumption DEF SeedAssumption
  <2>2. CASE p \notin DOMAIN SeedProducts
    BY <1>2, <2>2 DEF IInv, MarkedTogether
  <2> QED BY <2>1, <2>2
<1>8. ASSUME NEW s \in Sessions PROVE Holds(s)'
  <2>1. Holds(s) /\ (pc[s] # "idle" => call[s].product \in Products)
    BY RowTyped DEF IInv, Holds
  <2>2. pc[s] = "commit" => call[s].product \notin DOMAIN SeedProducts
    BY <2>1 DEF Seed, Holds
  <2> QED BY <1>1, <1>2, <2>1, <2>2 DEF Holds
<1>9. \A s, t \in Sessions : s # t => Compatible(s, t)'
  BY <1>1 DEF IInv, Compatible
<1> QED BY <1>1, <1>3, <1>4, <1>6, <1>7, <1>8, <1>9 DEF IInv

\* Steps that touch no table and take no lock.
LEMMA ReplyInv ==
  ASSUME IInv, NEW s \in Sessions,
         \/ Request(s) \/ FindProduct(s) \/ Refuse(s) \/ FindNoProduct(s)
         \/ InsertRefused(s) \/ StatementFails(s)
  PROVE  IInv'
<1>1. TypeOK /\ Holds(s)
  BY DEF IInv
<1>2. TypeOK'
  <2>1. CASE Request(s)
    BY <1>1, <2>1 DEF TypeOK, Request, Goto, Row
  <2>2. CASE FindProduct(s)
    BY <1>1, <2>2 DEF TypeOK, FindProduct, Goto
  <2>3. CASE Refuse(s) \/ FindNoProduct(s) \/ InsertRefused(s) \/ StatementFails(s)
    BY <1>1, <2>3 DEF TypeOK, Refuse, FindNoProduct, InsertRefused, StatementFails, Throw, Goto
  <2> QED BY <2>1, <2>2, <2>3
<1>3. UNCHANGED <<status, activities, tx>>
  BY DEF Request, FindProduct, Refuse, FindNoProduct, InsertRefused, StatementFails
<1>4. \A t \in Sessions \ {s} : tx'[t] = tx[t] /\ pc'[t] = pc[t] /\ call'[t] = call[t]
  BY <1>1 DEF TypeOK, Request, FindProduct, Refuse, FindNoProduct, InsertRefused,
              StatementFails, Throw, Goto
<1>5. Holds(s)'
  <2>1. CASE Request(s)
    BY <1>1, <2>1 DEF TypeOK, Request, Goto, Holds, Row
  <2>2. CASE FindProduct(s)
    <3>1. /\ pc[s] = "findProduct" /\ pc'[s] = "insert" /\ status[call[s].product] # "NONE"
          /\ call' = call /\ status' = status /\ tx' = tx
      BY <1>1, <2>2 DEF TypeOK, FindProduct, Goto
    <3> QED BY <1>1, <3>1 DEF Holds
  <2>3. CASE Refuse(s) \/ FindNoProduct(s) \/ InsertRefused(s) \/ StatementFails(s)
    <3>1. pc[s] # "idle" /\ pc'[s] = "rollback" /\ call' = call
      BY <1>1, <2>3 DEF TypeOK, Refuse, FindNoProduct, InsertRefused, StatementFails, Throw, Goto
    <3> QED BY <1>1, <3>1 DEF Holds
  <2> QED BY <2>1, <2>2, <2>3
<1> QED BY <1>2, <1>3, <1>4, <1>5, ReleasingStep

\* The number is in nobody's transaction and in no committed row.
LEMMA InsertInv ==
  ASSUME IInv, NEW s \in Sessions, Insert(s)
  PROVE  IInv'
<1>1. TypeOK /\ Holds(s) /\ call[s] \in Row /\ tx[s] = NoTx
  BY DEF IInv, Holds, Insert
<1>2. tx[s] \in Transaction
  BY <1>1, TxTyped
<1>3. /\ tx' = [tx EXCEPT ![s] = [tx[s] EXCEPT !.rows = {call[s]}]]
      /\ pc[s] = "insert" /\ pc' = [pc EXCEPT ![s] = "share"]
      /\ UNCHANGED <<status, activities, call, reply, calls>>
  BY <1>1 DEF Insert, Goto, NoTx
<1>4. tx'[s] = [tx[s] EXCEPT !.rows = {call[s]}] /\ pc'[s] = "share"
  BY <1>1, <1>3 DEF TypeOK
<1>5. /\ tx'[s].rows = {call[s]} /\ tx'[s].shared = {} /\ tx'[s].exclusive = {}
      /\ tx'[s].marked = {} /\ tx'[s] \in Transaction
  BY <1>1, <1>2, <1>4 DEF NoTx, Transaction
<1>6. TypeOK'
  BY <1>1, <1>3, <1>4, <1>5 DEF TypeOK, Transaction
<1>7. \A t \in Sessions \ {s} : tx'[t] = tx[t] /\ pc'[t] = pc[t] /\ call'[t] = call[t]
  BY <1>1, <1>3 DEF TypeOK
<1>8. Holds(s)'
  BY <1>1, <1>3, <1>4, <1>5 DEF Holds
<1>9. \A q \in tx'[s].rows, r \in activities : q.no # r.no
  BY <1>5 DEF Insert, NumberTaken
<1>10. ASSUME NEW t \in Sessions \ {s} PROVE Compatible(s, t)' /\ Compatible(t, s)'
  <2>1. \A r \in tx[t].rows : r.no # call[s].no
    BY DEF Insert, NumberFree, Others
  <2> QED BY <1>5, <1>7, <2>1 DEF Compatible
<1> QED BY <1>3, <1>6, <1>7, <1>8, <1>9, <1>10, LocalStep

\* Nobody has the product row exclusively.
LEMMA ShareInv ==
  ASSUME IInv, NEW s \in Sessions, Share(s)
  PROVE  IInv'
<1> DEFINE p == call[s].product
<1>1. TypeOK /\ Holds(s) /\ call[s] \in Row /\ tx[s] \in Transaction /\ p \in Products
  BY TxTyped, RowTyped DEF IInv, Holds, Share
<1>2. /\ tx' = [tx EXCEPT ![s] = [tx[s] EXCEPT !.shared = tx[s].shared \cup {p}]]
      /\ pc[s] = "share" /\ pc' = [pc EXCEPT ![s] = "update"]
      /\ UNCHANGED <<status, activities, call, reply, calls>>
  BY DEF Share, Goto
<1>3. tx'[s] = [tx[s] EXCEPT !.shared = tx[s].shared \cup {p}] /\ pc'[s] = "update"
  BY <1>1, <1>2 DEF TypeOK
<1>4. /\ tx'[s].rows = tx[s].rows /\ tx'[s].shared = tx[s].shared \cup {p}
      /\ tx'[s].exclusive = tx[s].exclusive /\ tx'[s].marked = tx[s].marked
      /\ tx'[s] \in Transaction
  BY <1>1, <1>3 DEF Transaction
<1>5. TypeOK'
  BY <1>1, <1>2, <1>3, <1>4 DEF TypeOK, Transaction
<1>6. \A t \in Sessions \ {s} : tx'[t] = tx[t] /\ pc'[t] = pc[t] /\ call'[t] = call[t]
  BY <1>1, <1>2 DEF TypeOK
<1>7. Holds(s)'
  BY <1>1, <1>2, <1>3, <1>4 DEF Holds
<1>8. \A q \in tx'[s].rows, r \in activities : q.no # r.no
  BY <1>4 DEF IInv, Fresh
<1>9. ASSUME NEW t \in Sessions \ {s} PROVE Compatible(s, t)' /\ Compatible(t, s)'
  <2>1. p \notin tx[t].exclusive
    BY DEF Share, ShareFree, Others
  <2>2. Compatible(s, t) /\ Compatible(t, s)
    BY DEF IInv
  <2> QED BY <1>4, <1>6, <2>1, <2>2 DEF Compatible
<1> QED BY <1>2, <1>5, <1>6, <1>7, <1>8, <1>9, LocalStep

\* Nobody else has the product row at all, whether or not the UPDATE changes it.
LEMMA UpdateInv ==
  ASSUME IInv, NEW s \in Sessions, Update(s) \/ UpdateNothing(s)
  PROVE  IInv'
<1> DEFINE p == call[s].product
<1>1. TypeOK /\ Holds(s) /\ pc[s] = "update" /\ call[s] \in Row /\ p \in Products
  BY RowTyped DEF IInv, Holds, Update, UpdateNothing
<1>2. tx[s] \in Transaction /\ tx[s].rows = {call[s]} /\ tx[s].exclusive = {} /\ tx[s].marked = {}
  BY <1>1, TxTyped DEF Holds
<1>3. UNCHANGED <<status, activities, call, calls>>
  BY DEF Update, UpdateNothing
<1> DEFINE Updated ==
      /\ TypeOK' /\ Holds(s)'
      /\ \A t \in Sessions \ {s} : tx'[t] = tx[t] /\ pc'[t] = pc[t] /\ call'[t] = call[t]
      /\ tx'[s].rows = tx[s].rows /\ tx'[s].shared = tx[s].shared /\ tx'[s].exclusive = {p}
<1> DEFINE x == tx[s]
           y == [x EXCEPT !.exclusive = {p}]
           z == [y EXCEPT !.marked = {p}]
<1>4. /\ y \in Transaction /\ y.rows = x.rows /\ y.shared = x.shared /\ y.exclusive = {p}
      /\ z \in Transaction /\ z.rows = x.rows /\ z.shared = x.shared /\ z.exclusive = {p}
      /\ z.marked = {p}
  <2> HIDE DEF p, x
  <2>1. x \in Transaction /\ p \in Products
    BY <1>1, <1>2 DEF p, x
  <2> QED BY <2>1 DEF Transaction
<1>5. ASSUME Update(s) PROVE Updated
  <2>1. /\ tx' = [tx EXCEPT ![s] = z] /\ pc' = [pc EXCEPT ![s] = "commit"]
        /\ reply' = reply /\ status[p] # "IN_FLASH_SALE"
    BY <1>1, <1>2, <1>5 DEF TypeOK, Transaction, Update, Goto
  <2> HIDE DEF y, z, p
  <2>2. TypeOK'
    BY <1>1, <1>3, <1>4, <2>1 DEF TypeOK, Transaction
  <2>3. /\ \A t \in Sessions \ {s} : tx'[t] = tx[t] /\ pc'[t] = pc[t] /\ call'[t] = call[t]
        /\ tx'[s] = z /\ pc'[s] = "commit"
    BY <1>1, <1>3, <2>1 DEF TypeOK
  <2>4. Holds(s)'
    BY <1>1, <1>2, <1>3, <1>4, <2>1, <2>3 DEF Holds, p
  <2> QED BY <1>4, <2>2, <2>3, <2>4
<1>6. ASSUME UpdateNothing(s) PROVE Updated
  <2>1. /\ tx' = [tx EXCEPT ![s] = y] /\ pc' = [pc EXCEPT ![s] = "rollback"]
        /\ reply' = [reply EXCEPT ![s] = "ProductDisappeared"]
    BY <1>1, <1>2, <1>6 DEF TypeOK, Transaction, UpdateNothing, Goto, Throw
  <2> HIDE DEF y, z, p
  <2>2. TypeOK'
    BY <1>1, <1>3, <1>4, <2>1 DEF TypeOK, Transaction
  <2>3. /\ \A t \in Sessions \ {s} : tx'[t] = tx[t] /\ pc'[t] = pc[t] /\ call'[t] = call[t]
        /\ tx'[s] = y /\ pc'[s] = "rollback"
    BY <1>1, <1>3, <2>1 DEF TypeOK
  <2>4. Holds(s)'
    BY <1>1, <1>3, <2>3 DEF Holds
  <2> QED BY <1>4, <2>2, <2>3, <2>4
<1> HIDE DEF p, y, z
<1>a. Updated
  BY <1>5, <1>6
<1>7. \A q \in tx'[s].rows, r \in activities : q.no # r.no
  BY <1>a DEF IInv, Fresh
<1>8. ASSUME NEW t \in Sessions \ {s} PROVE Compatible(s, t)' /\ Compatible(t, s)'
  <2>1. p \notin tx[t].exclusive \cup tx[t].shared
    BY DEF Update, UpdateNothing, UpdateFree, Others, p
  <2>2. Compatible(s, t) /\ Compatible(t, s)
    BY DEF IInv
  <2> QED BY <1>a, <2>1, <2>2 DEF Compatible
<1> QED BY <1>3, <1>a, <1>7, <1>8, LocalStep

\* A transaction that is rolled back gives up all it holds.
LEMMA RollbackInv ==
  ASSUME IInv, NEW s \in Sessions, Rollback(s) \/ Deadlock(s)
  PROVE  IInv'
<1>1. TypeOK /\ Holds(s) /\ NoTx \in Transaction
  BY TxTyped DEF IInv
<1>2. TypeOK'
  <2> HIDE DEF NoTx
  <2>1. CASE Rollback(s)
    BY <1>1, <2>1 DEF TypeOK, Transaction, Rollback, Return, Goto
  <2>2. CASE Deadlock(s)
    BY <1>1, <2>2 DEF TypeOK, Transaction, Deadlock, Throw, Goto
  <2> QED BY <2>1, <2>2
<1>3. /\ UNCHANGED <<status, activities>> /\ tx'[s] = NoTx
      /\ \A t \in Sessions \ {s} : tx'[t] = tx[t] /\ pc'[t] = pc[t] /\ call'[t] = call[t]
  BY <1>1 DEF TypeOK, Rollback, Deadlock, Return, Throw, Goto
<1>4. Holds(s)'
  <2>1. CASE Rollback(s)
    BY <1>1, <1>3, <2>1 DEF TypeOK, Holds, Rollback, Return, Goto
  <2>2. CASE Deadlock(s)
    BY <1>1, <1>3, <2>2 DEF TypeOK, Holds, Deadlock, Throw, Goto
  <2> QED BY <2>1, <2>2
<1> QED BY <1>2, <1>3, <1>4, ReleasingStep

\* COMMIT: the product of the transaction is in no flash sale yet, its number is
\* new, and no other transaction that may commit has marked that product.
LEMMA CommitInv ==
  ASSUME IInv, NEW s \in Sessions, Commit(s) \/ CommitLost(s)
  PROVE  IInv'
<1> DEFINE r == call[s]
           p == r.product
<1>1. TypeOK /\ pc[s] = "commit" /\ Holds(s)
  BY DEF IInv, Commit, CommitLost
<1>2. /\ r \in Row /\ r.no \in Numbers /\ p \in Products
      /\ tx[s].rows = {r} /\ tx[s].exclusive = {p} /\ tx[s].marked = {p}
      /\ status[p] # "IN_FLASH_SALE"
  BY <1>1, RowTyped DEF Holds
<1> HIDE DEF r, p
<1>3. /\ activities' = activities \cup {r}
      /\ status' = [q \in Products |-> IF q = p THEN "IN_FLASH_SALE" ELSE status[q]]
      /\ tx' = [tx EXCEPT ![s] = NoTx]
  BY <1>2 DEF Commit, CommitLost, CommitRows
<1>4. /\ pc'[s] \in {"idle", "rollback"} /\ (pc'[s] # "idle" => call'[s] = call[s])
      /\ \A t \in Sessions \ {s} : tx'[t] = tx[t] /\ pc'[t] = pc[t] /\ call'[t] = call[t]
      /\ tx'[s] = NoTx
  <2>1. \A t \in Sessions \ {s} : tx'[t] = tx[t] /\ tx'[s] = NoTx
    BY <1>1, <1>3 DEF TypeOK
  <2>2. CASE Commit(s)
    BY <1>1, <1>3, <2>1, <2>2 DEF TypeOK, Commit, Return, Goto
  <2>3. CASE CommitLost(s)
    BY <1>1, <1>3, <2>1, <2>3 DEF TypeOK, CommitLost, Throw, Goto
  <2> QED BY <2>2, <2>3
<1>5. TypeOK'
  <2>1. NoTx \in Transaction
    BY <1>1, TxTyped
  <2>2. /\ status' \in [Products -> Status \cup {"NONE"}]
        /\ activities' \subseteq Row /\ tx' \in [Sessions -> Transaction] /\ calls' = calls
    <3> HIDE DEF NoTx
    <3>1. tx' \in [Sessions -> Transaction]
      BY <1>1, <1>3, <2>1 DEF TypeOK, Transaction
    <3>2. status' \in [Products -> Status \cup {"NONE"}]
      BY <1>1, <1>3 DEF TypeOK, Status
    <3> QED BY <1>1, <1>2, <1>3, <3>1, <3>2 DEF TypeOK, Commit, CommitLost
  <2>3. CASE Commit(s)
    BY <1>1, <2>2, <2>3 DEF TypeOK, Transaction, Commit, Return, Goto
  <2>4. CASE CommitLost(s)
    BY <1>1, <2>2, <2>4 DEF TypeOK, Transaction, CommitLost, Throw, Goto
  <2> QED BY <2>3, <2>4
<1>7. MarkedTogether'
  <2> SUFFICES ASSUME NEW q \in Products
               PROVE  LET offered == \E a \in activities' : a.product = q IN
                      /\ status'[q] = "IN_FLASH_SALE" => offered
                      /\ offered /\ q \notin DOMAIN SeedProducts => status'[q] = "IN_FLASH_SALE"
    BY DEF MarkedTogether
  <2>1. LET offered == \E a \in activities : a.product = q IN
        /\ status[q] = "IN_FLASH_SALE" => offered
        /\ offered /\ q \notin DOMAIN SeedProducts => status[q] = "IN_FLASH_SALE"
    BY DEF IInv, MarkedTogether
  <2> QED BY <1>2, <1>3, <2>1 DEF p
<1>9. Fresh'
  <2> SUFFICES ASSUME NEW t \in Sessions, NEW q \in tx'[t].rows, NEW a \in activities'
               PROVE  q.no # a.no
    BY DEF Fresh
  <2>1. t # s /\ q \in tx[t].rows
    BY <1>4 DEF NoTx
  <2>2. CASE a \in activities
    BY <2>1, <2>2 DEF IInv, Fresh
  <2>3. CASE a = r
    BY <1>2, <2>1, <2>3 DEF IInv, Compatible
  <2> QED BY <1>3, <2>2, <2>3
<1>10. ASSUME NEW t \in Sessions PROVE Holds(t)'
  <2>1. CASE t = s
    BY <1>2, <1>4, <2>1 DEF Holds, r
  <2>2. CASE t # s
    <3>1. Holds(t) /\ Compatible(s, t)
      BY <2>2 DEF IInv
    <3>2. pc[t] = "commit" => call[t].product # p /\ call[t].product \in Products
      BY <1>2, <3>1, RowTyped DEF Holds, Compatible
    <3>3. pc[t] = "commit" => status'[call[t].product] # "IN_FLASH_SALE"
      BY <1>3, <3>1, <3>2 DEF Holds
    <3>5. pc[t] \in {"insert", "share", "update", "commit"} => status'[call[t].product] # "NONE"
      <4>1. pc[t] # "idle" => call[t].product \in Products
        BY <3>1, RowTyped DEF Holds
      <4> QED BY <1>3, <3>1, <4>1 DEF Holds
    <3>4. tx'[t] = tx[t] /\ pc'[t] = pc[t] /\ call'[t] = call[t]
      BY <1>4, <2>2
    <3> QED BY <3>1, <3>3, <3>4, <3>5 DEF Holds
  <2> QED BY <2>1, <2>2
<1>11. ASSUME NEW t \in Sessions, NEW u \in Sessions, t # u PROVE Compatible(t, u)'
  <2>1. Compatible(t, u)
    BY <1>11 DEF IInv
  <2>2. CASE t = s \/ u = s
    BY <1>4, <2>2 DEF Compatible, NoTx
  <2>3. CASE t # s /\ u # s
    BY <1>4, <2>1, <2>3 DEF Compatible
  <2> QED BY <2>2, <2>3
<1> QED BY <1>3, <1>5, <1>7, <1>9, <1>10, <1>11 DEF IInv
-----------------------------------------------------------------------------
LEMMA StutterInv ==
  ASSUME IInv, UNCHANGED vars
  PROVE  IInv'
<1>1. TypeOK' /\ MarkedTogether' /\ Fresh' /\ activities' = activities
  BY DEF IInv, vars, TypeOK, MarkedTogether, Fresh
<1>2. \A s \in Sessions : Holds(s)'
  BY DEF IInv, vars, Holds
<1>3. \A s, t \in Sessions : s # t => Compatible(s, t)'
  BY DEF IInv, vars, Compatible
<1> QED BY <1>1, <1>2, <1>3 DEF IInv

\* The invariant holds however the calls of create() interleave.
THEOREM CatalogInv == Spec => []IInv
<1>1. IInv /\ [Next]_vars => IInv'
  <2> SUFFICES ASSUME IInv, [Next]_vars PROVE IInv'
    OBVIOUS
  <2>1. CASE UNCHANGED vars
    BY <2>1, StutterInv
  <2>2. ASSUME NEW p \in Products, Publish(p) PROVE IInv'
    BY <2>2, PublishInv
  <2>3. ASSUME NEW s \in Sessions, Request(s) \/ Step(s) \/ StatementFails(s) \/ CommitLost(s)
        PROVE  IInv'
    BY <2>3, ReplyInv, InsertInv, ShareInv, UpdateInv, RollbackInv, CommitInv DEF Step
  <2>4. CASE Seed
    BY <2>4, SeedInv
  <2> QED BY <2>1, <2>2, <2>3, <2>4 DEF Next
<1> QED BY InitInv, <1>1, PTL DEF Spec

\* Every variable of Catalog stays in its type.
THEOREM CatalogTypes == Spec => []TypeOK
<1>1. IInv => TypeOK
  BY DEF IInv
<1> QED BY CatalogInv, <1>1, PTL

\* A product is in a flash sale only if an activity sells it, and one that is not
\* of the seed data whenever one does, whichever statement of a create() fails,
\* and wherever its connection is lost.
THEOREM MarkedTogetherHolds == Spec => []MarkedTogether
<1>1. IInv => MarkedTogether
  BY DEF IInv
<1> QED BY CatalogInv, <1>1, PTL

\* Of the creates for a product one at most is past its UPDATE, and none that
\* is past its INSERT has a number that somebody else has.
THEOREM OneWinnerHolds == Spec => []OneWinner
<1>1. IInv => OneWinner
  BY DEF IInv, Fresh, Compatible, OneWinner
<1> QED BY CatalogInv, <1>1, PTL
-----------------------------------------------------------------------------
\* COMMIT is the step of create() that Offers has: the product is there and in no
\* flash sale, whatever its status, and the number is new.
LEMMA CommitMapped ==
  ASSUME IInv, NEW s \in Sessions, Commit(s) \/ CommitLost(s)
  PROVE  Atomic!Next
<1> DEFINE r == call[s]
           p == r.product
<1>1. TypeOK /\ pc[s] = "commit" /\ Holds(s)
  BY DEF IInv, Commit, CommitLost
<1>2. /\ r \in Row /\ r = [no |-> r.no, product |-> p]
      /\ r.no \in Numbers /\ p \in Products
  BY <1>1 DEF Holds, Row
<1>3. /\ tx[s].rows = {r} /\ tx[s].marked = {p}
      /\ status \in [Products -> Status \cup {"NONE"}]
      /\ status[p] \notin {"NONE", "IN_FLASH_SALE"}
  BY <1>1, <1>2 DEF Holds, TypeOK
<1>4. \A q \in activities : q.no # r.no
  BY <1>3 DEF IInv, Fresh
<1> HIDE DEF r
<1>5. /\ activities' = activities \cup {[no |-> r.no, product |-> p]}
      /\ status' = [status EXCEPT ![p] = "IN_FLASH_SALE"]
  BY <1>2, <1>3 DEF Commit, CommitLost, CommitRows
<1>6. Atomic!Create(r.no, p)
  BY <1>3, <1>4, <1>5 DEF Atomic!Create
<1> QED BY <1>2, <1>6 DEF Atomic!Next

\* create() implements the one step of Offers: every other statement of it, and
\* whatever cuts it off, leaves products and activities alone.
THEOREM CreateIsAtomic == Spec => RefinesOffers
<1>1. Init => Atomic!Init
  BY DEF Init, Seeded, Atomic!Init, Atomic!Seeded
<1>2. IInv /\ [Next]_vars => [Atomic!Next]_Atomic!vars
  <2> SUFFICES ASSUME IInv, [Next]_vars PROVE Atomic!Next \/ UNCHANGED <<status, activities>>
    BY DEF Atomic!vars
  <2>1. CASE UNCHANGED vars
    BY <2>1 DEF vars
  <2>2. ASSUME NEW p \in Products, Publish(p) PROVE Atomic!Next
    BY <2>2 DEF Publish, Atomic!Publish, Atomic!Next
  <2>3. ASSUME NEW s \in Sessions, Request(s) \/ StatementFails(s)
        PROVE  UNCHANGED <<status, activities>>
    BY <2>3 DEF Request, StatementFails
  <2>4. ASSUME NEW s \in Sessions, Commit(s) \/ CommitLost(s) PROVE Atomic!Next
    BY <2>4, CommitMapped
  <2>5. ASSUME NEW s \in Sessions, Step(s), ~Commit(s) PROVE UNCHANGED <<status, activities>>
    BY <2>5 DEF Step, FindProduct, Refuse, FindNoProduct, Insert, InsertRefused, Share, Update,
                UpdateNothing, Rollback, Deadlock
  <2>6. CASE Seed
    BY <2>6 DEF Seed, Seeded, Atomic!Seed, Atomic!Seeded, Atomic!Next
  <2> QED BY <2>1, <2>2, <2>3, <2>4, <2>5, <2>6 DEF Next
<1> QED BY CatalogInv, <1>1, <1>2, PTL DEF Spec, RefinesOffers, Atomic!Spec
=============================================================================
