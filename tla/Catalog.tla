------------------------------- MODULE Catalog -------------------------------
(***************************************************************************)
(* ProductService::publish and ActivityService::create over MySQL.         *)
(*                                                                         *)
(* A session is an administrator's connection: the web process, a CLI.     *)
(* create() inserts an activity, whose foreign key takes a shared lock on  *)
(* the product row, and then updates that row, which needs an exclusive    *)
(* one: two creates for one product can each hold the shared lock the      *)
(* other waits for.  InnoDB then makes one of them the victim (1213).      *)
(* The seed data is loaded before, and its script may be run again.        *)
(***************************************************************************)
EXTENDS Integers

CONSTANTS Sessions,     \* connections that administrators use
          Products,     \* products that can be published
          Numbers,      \* activity numbers administrators choose
          SeedProducts, \* status of each product of the seed data
          SeedActivities, \* rows of flash_sale_activities of the seed data
          MaxCalls      \* bound on calls of create()

Status == {"ON_SALE", "IN_FLASH_SALE", "SOLD", "OFF_SHELF"}
Row == [no : Numbers, product : Products]

\* The seed may have an activity of a product in any status; a product it has
\* in a flash sale has one.
ASSUME SeedAssumption ==
  /\ DOMAIN SeedProducts \subseteq Products /\ SeedActivities \subseteq Row
  /\ \A p \in DOMAIN SeedProducts :
       /\ SeedProducts[p] \in Status
       /\ SeedProducts[p] = "IN_FLASH_SALE" => \E r \in SeedActivities : r.product = p
  /\ \A r \in SeedActivities : r.product \in DOMAIN SeedProducts

VARIABLES status,       \* products.status, or "NONE" before publish()
          activities,   \* committed rows of flash_sale_activities
          tx,           \* tx[s]: rows inserted, locked and updated, uncommitted
          pc,           \* pc[s]: the statement create() is about to complete
          call,         \* call[s]: the activity being created
          reply,        \* reply[s]: the error being thrown
          calls         \* calls of create() so far

vars == <<status, activities, tx, pc, call, reply, calls>>

NoTx == [rows |-> {}, shared |-> {}, exclusive |-> {}, marked |-> {}]
NoCall == [no |-> "none", product |-> "none"]

Seeded(rows) ==
  [p \in Products |-> IF p \in DOMAIN SeedProducts THEN SeedProducts[p] ELSE rows[p]]

Init == /\ status = Seeded([p \in Products |-> "NONE"])
        /\ activities = SeedActivities /\ calls = 0
        /\ tx = [s \in Sessions |-> NoTx]
        /\ pc = [s \in Sessions |-> "idle"]
        /\ call = [s \in Sessions |-> NoCall]
        /\ reply = [s \in Sessions |-> "none"]

Goto(s, l) == pc' = [pc EXCEPT ![s] = l]
Throw(s, error) == /\ reply' = [reply EXCEPT ![s] = error]
                   /\ Goto(s, "rollback")
Return(s) == /\ Goto(s, "idle")
             /\ call' = [call EXCEPT ![s] = NoCall]
             /\ reply' = [reply EXCEPT ![s] = "none"]
Others(s) == Sessions \ {s}
-----------------------------------------------------------------------------
\* publish(): one INSERT, committed by itself.
Publish(p) == /\ status[p] = "NONE"
              /\ status' = [status EXCEPT ![p] = "ON_SALE"]
              /\ UNCHANGED <<activities, tx, pc, call, reply, calls>>

\* The seed script is run again: the products it has are set back to the status
\* they have there, once nobody holds their rows; its activities are there already.
Seed == /\ \A s \in Sessions : DOMAIN SeedProducts \cap (tx[s].shared \cup tx[s].exclusive) = {}
        /\ status' = Seeded(status)
        /\ UNCHANGED <<activities, tx, pc, call, reply, calls>>

Request(s) ==
  /\ pc[s] = "idle" /\ calls < MaxCalls
  /\ \E n \in Numbers, p \in Products : call' = [call EXCEPT ![s] = [no |-> n, product |-> p]]
  /\ Goto(s, "findProduct")
  /\ calls' = calls + 1
  /\ UNCHANGED <<status, activities, tx, reply>>

\* The product is looked up before the transaction starts, so a refusal has
\* nothing to roll back.
FindProduct(s) ==
  /\ pc[s] = "findProduct" /\ status[call[s].product] # "NONE"
  /\ Goto(s, "insert")
  /\ UNCHANGED <<status, activities, tx, call, reply, calls>>

\* The operator is missing, disabled or no administrator, or the input invalid:
\* which it is of a call depends on nothing modelled here.
Refuse(s) ==
  /\ pc[s] = "findProduct"
  /\ Throw(s, "Refused")
  /\ UNCHANGED <<status, activities, tx, call, calls>>

FindNoProduct(s) ==
  /\ pc[s] = "findProduct" /\ status[call[s].product] = "NONE"
  /\ Throw(s, "ProductNotFound")
  /\ UNCHANGED <<status, activities, tx, call, calls>>

\* INSERT, first half: the row goes into uk_flash_sale_activities_activity_no,
\* waiting for an uncommitted row with its number.
NumberFree(s) == \A t \in Others(s) : \A r \in tx[t].rows : r.no # call[s].no
NumberTaken(s) == \E r \in activities : r.no = call[s].no

Insert(s) ==
  /\ pc[s] = "insert" /\ NumberFree(s) /\ ~NumberTaken(s)
  /\ tx' = [tx EXCEPT ![s].rows = @ \cup {call[s]}]
  /\ Goto(s, "share")
  /\ UNCHANGED <<status, activities, call, reply, calls>>

InsertRefused(s) ==
  /\ pc[s] = "insert" /\ NumberFree(s) /\ NumberTaken(s)
  /\ Throw(s, "DuplicateKey")
  /\ UNCHANGED <<status, activities, tx, call, calls>>

\* INSERT, second half: the foreign key locks the product row, shared.
ShareFree(s) == \A t \in Others(s) : call[s].product \notin tx[t].exclusive

Share(s) ==
  /\ pc[s] = "share" /\ ShareFree(s)
  /\ tx' = [tx EXCEPT ![s].shared = @ \cup {call[s].product}]
  /\ Goto(s, "update")
  /\ UNCHANGED <<status, activities, call, reply, calls>>

\* UPDATE products SET status = 'IN_FLASH_SALE', whatever it was: exclusive, so
\* nobody else may share the row.  The connection counts rows changed, not rows
\* matched: a product that is in a flash sale already counts none.
UpdateFree(s) ==
  \A t \in Others(s) : call[s].product \notin tx[t].shared \cup tx[t].exclusive

\* Mutants of Update: rows matched are counted in place of rows changed; or the
\* UPDATE commits by itself.
UpdateMatched(s) ==
  LET p == call[s].product IN
  /\ pc[s] = "update" /\ UpdateFree(s)
  /\ tx' = [tx EXCEPT ![s].exclusive = @ \cup {p}, ![s].marked = @ \cup {p}]
  /\ Goto(s, "commit")
  /\ UNCHANGED <<status, activities, call, reply, calls>>
UpdateAlone(s) ==
  LET p == call[s].product IN
  /\ pc[s] = "update" /\ UpdateFree(s)
  /\ status[p] # "IN_FLASH_SALE"
  /\ status' = [status EXCEPT ![p] = "IN_FLASH_SALE"]
  /\ Goto(s, "commit")
  /\ UNCHANGED <<activities, tx, call, reply, calls>>

Update(s) ==
  LET p == call[s].product IN
  /\ pc[s] = "update" /\ UpdateFree(s)
  /\ status[p] # "IN_FLASH_SALE"
  /\ tx' = [tx EXCEPT ![s].exclusive = @ \cup {p}, ![s].marked = @ \cup {p}]
  /\ Goto(s, "commit")
  /\ UNCHANGED <<status, activities, call, reply, calls>>

UpdateNothing(s) ==
  LET p == call[s].product IN
  /\ pc[s] = "update" /\ UpdateFree(s)
  /\ status[p] = "IN_FLASH_SALE"
  /\ tx' = [tx EXCEPT ![s].exclusive = @ \cup {p}]
  /\ Throw(s, "ProductDisappeared")
  /\ UNCHANGED <<status, activities, call, calls>>

\* Mutant of CommitRows: the product gets the status of its activity.
CommitRowsActive(s) ==
  /\ activities' = activities \cup tx[s].rows
  /\ status' = [p \in Products |-> IF p \in tx[s].marked THEN "ACTIVE" ELSE status[p]]
  /\ tx' = [tx EXCEPT ![s] = NoTx]

\* COMMIT publishes the activity with the status of its product.
CommitRows(s) ==
  /\ activities' = activities \cup tx[s].rows
  /\ status' = [p \in Products |-> IF p \in tx[s].marked THEN "IN_FLASH_SALE" ELSE status[p]]
  /\ tx' = [tx EXCEPT ![s] = NoTx]

\* The created row is read back, which cannot fail to find it, and committed.
Commit(s) ==
  /\ pc[s] = "commit"
  /\ CommitRows(s)
  /\ Return(s)
  /\ UNCHANGED calls

\* The connection is lost after the server committed: create() throws.  The
\* next call of the session comes once its process is started again.
CommitLost(s) ==
  /\ pc[s] = "commit"
  /\ CommitRows(s)
  /\ Throw(s, "DbError")
  /\ UNCHANGED <<call, calls>>

\* Mutant of Rollback: the transaction and its locks stay.
RollbackForgotten(s) ==
  /\ pc[s] = "rollback"
  /\ Return(s)
  /\ UNCHANGED <<status, activities, tx, calls>>

\* ~Transaction, or the server after it lost the client or chose a victim.
Rollback(s) ==
  /\ pc[s] = "rollback"
  /\ tx' = [tx EXCEPT ![s] = NoTx]
  /\ Return(s)
  /\ UNCHANGED <<status, activities, calls>>

\* A session waits for one that waits for it; either may be the victim.
Deadlock(s) ==
  /\ pc[s] = "update"
  /\ \E t \in Others(s) : /\ pc[t] = "update" /\ call[t].product = call[s].product
                          /\ call[s].product \in tx[t].shared
  /\ tx' = [tx EXCEPT ![s] = NoTx]
  /\ Throw(s, "DbError")
  /\ UNCHANGED <<status, activities, call, calls>>

\* A statement fails: the link is lost or a lock wait times out.
StatementFails(s) ==
  /\ pc[s] \notin {"idle", "rollback"}
  /\ Throw(s, "DbError")
  /\ UNCHANGED <<status, activities, tx, call, calls>>

Step(s) == \/ FindProduct(s) \/ Refuse(s) \/ FindNoProduct(s) \/ Insert(s)
           \/ InsertRefused(s) \/ Share(s) \/ Update(s) \/ UpdateNothing(s) \/ Commit(s) \/ Rollback(s)
           \/ Deadlock(s)

Next == \/ Seed
        \/ \E p \in Products : Publish(p)
        \/ \E s \in Sessions : Request(s) \/ Step(s) \/ StatementFails(s) \/ CommitLost(s)

Spec == Init /\ [][Next]_vars

\* Statements run on, and InnoDB looks for a deadlock at every wait.
LiveSpec == Spec /\ \A s \in Sessions : WF_vars(Step(s))
-----------------------------------------------------------------------------
\* Every variable stays in its type.
TypeOK ==
  /\ status \in [Products -> Status \cup {"NONE"}]
  /\ activities \subseteq Row
  /\ tx \in [Sessions -> [rows : SUBSET Row, shared : SUBSET Products,
                          exclusive : SUBSET Products, marked : SUBSET Products]]
  /\ pc \in [Sessions -> {"idle", "findProduct", "insert", "share", "update", "commit",
                          "rollback"}]
  /\ call \in [Sessions -> Row \cup {NoCall}]
  /\ reply \in [Sessions -> {"none", "Refused", "ProductNotFound", "ProductDisappeared",
                            "DuplicateKey", "DbError"}]
  /\ calls \in Nat

\* The activity and the status of its product are committed together: a product
\* is in a flash sale only if an activity sells it, and one that administrators
\* published is in it as soon as an activity does.  (The seed data has an activity
\* of a product that is sold, and sets its own products back.)
MarkedTogether ==
  \A p \in Products :
    LET offered == \E r \in activities : r.product = p IN
    /\ status[p] = "IN_FLASH_SALE" => offered
    /\ offered /\ p \notin DOMAIN SeedProducts => status[p] = "IN_FLASH_SALE"

\* Of the creates that race for a product one at most is past the UPDATE.
OneWinner ==
  \A s, t \in Sessions :
    s # t => /\ tx[s].exclusive \cap (tx[t].exclusive \cup tx[t].shared) = {}
             /\ \A q \in tx[s].rows, r \in tx[t].rows \cup activities : q.no # r.no

Atomic == INSTANCE Offers

\* create() is one step or nothing: whatever happens between its statements,
\* products and activities move only as Offers allows.  So no activity is changed
\* or gets the number of another, no status is set back but by the seed, and of
\* creates that race for a product one puts it into a flash sale.
RefinesOffers == Atomic!Spec

\* Every create() ends: deadlocks over the product row are always broken.
Answered == \A s \in Sessions : pc[s] # "idle" ~> pc[s] = "idle"

\* docs/database-design.md:124 wants several activities for one product in
\* succession: "product disappeared" is not said of a product that exists.
PublishedIsFound ==
  \A s \in Sessions : reply[s] = "ProductDisappeared" => status[call[s].product] = "NONE"
=============================================================================
