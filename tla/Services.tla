------------------------------- MODULE Services -------------------------------
(***************************************************************************)
(* The services as a front end calls them, and the processes they run in.  *)
(*                                                                         *)
(* A process has one thread and one MySQL connection, made when it starts  *)
(* and never again, so it is at one service call at a time.  A service     *)
(* reads the row of its user first and then does its work.  A purchase,    *)
(* which Purchase has statement by statement, is three steps: its checks,  *)
(* the UPDATE, which locks the row of the activity to the end of the       *)
(* transaction so that whoever else buys waits, and the INSERTs with the   *)
(* COMMIT.  An administrator of the database, or the seed script run       *)
(* again, may change the role and the status of a user.                    *)
(***************************************************************************)
EXTENDS Integers, FiniteSets, Sequences

CONSTANTS Users,            \* users there are, with the rows Accounts[u]
          Accounts,
          Activity, Stock,  \* the activity on sale, and its units
          ConfigFiles,      \* configuration files a process may be started with
          Days              \* what there may be to do, and the bounds on it

Processes == {"web", "cli"}
Account == [role : {"USER", "ADMIN"}, status : {"ACTIVE", "DISABLED"}]
NoAccount == [role |-> "none", status |-> "none"]

\* Of one day: the processes that are already running, the starts of each, the
\* lost and silent connections and killed processes, and the rows each user may be
\* given behind the services.
ASSUME ServicesAssumption ==
  /\ Accounts \in [Users -> Account] /\ "none" \notin Users
  /\ Stock \in Nat \ {0}
  /\ \A day \in Days : /\ day.up \subseteq Processes
                        /\ day.adjusted \in [Users -> SUBSET Account]
                        /\ {day.starts, day.faults} \subseteq Nat

VARIABLES today,            \* the day of this behaviour
          account,          \* rows of users
          had,              \* had[u]: the rows u ever had, for the properties only
          stock, sales,     \* the activity and its orders, with their logs
          made,             \* what other calls wrote: [op, user]
          holder,           \* the process whose transaction holds the row of the activity
          phase,            \* phase[p]: how far main() has come
          link,             \* link[p]: the MySQL connection
          frame,            \* frame[p]: the service call p is at
          starts, faults    \* counted for the bounds

data == <<today, account, had, stock, sales, made>>
process == <<phase, link, starts, faults>>
services == <<data, holder, process, frame>>

Store == INSTANCE FlashSale WITH Activities <- {Activity},
                                 TotalStock <- [a \in {Activity} |-> Stock]

\* rights are the rows its user has had since the call began and until it was
\* checked, for the properties only; row is the one row the service has read, and
\* left the stock it has read behind its UPDATE.
NoCall == [at |-> "idle", op |-> "none", user |-> "none", given |-> "right",
           rights |-> {}, row |-> NoAccount, left |-> 0, result |-> "none"]

ServicesInit ==
  /\ today \in Days
  /\ account = Accounts /\ had = [u \in Users |-> {Accounts[u]}]
  /\ Store!Init /\ made = {} /\ holder = "none"
  /\ phase = [p \in Processes |-> IF p \in today.up THEN "running" ELSE "down"]
  /\ link = [p \in Processes |-> IF p \in today.up THEN "up" ELSE "down"]
  /\ frame = [p \in Processes |-> NoCall]
  /\ starts = [p \in Processes |-> 0] /\ faults = 0
-----------------------------------------------------------------------------
(* main() *)

\* Config::loadFromFile: every text is there and not empty, every number is
\* there, unsigned and in its range.
ConfigLoads(file) ==
  /\ file.texts = "given"
  /\ file.serverPort \in 1 .. 65535 /\ file.mysqlPort \in 1 .. 65535
  /\ file.threadPool \in 1 .. 1024 /\ file.mysqlPool \in 1 .. 1024

\* With a file that does not load the process ends at once.  Its transaction
\* of an earlier life has been dropped by then.
Start(p, file) ==
  /\ phase[p] = "down" /\ starts[p] < today.starts /\ holder # p
  /\ starts' = [starts EXCEPT ![p] = @ + 1]
  /\ phase' = [phase EXCEPT ![p] = IF ConfigLoads(file) THEN "configured" ELSE "down"]
  /\ UNCHANGED <<data, holder, link, faults, frame>>

Connect(p) ==
  /\ phase[p] = "configured"
  /\ link' = [link EXCEPT ![p] = "up"]
  /\ phase' = [phase EXCEPT ![p] = "connected"]
  /\ UNCHANGED <<data, holder, starts, faults, frame>>

\* ping, SELECT 1, and a transaction with a SELECT 1 in it that is committed.
Verify(p) ==
  /\ phase[p] = "connected" /\ link[p] = "up"
  /\ phase' = [phase EXCEPT ![p] = "running"]
  /\ UNCHANGED <<data, holder, link, starts, faults, frame>>

\* What main() catches: no connection within 5 s, or one that is lost again.
StartFails(p) ==
  /\ phase[p] = "configured" \/ (phase[p] = "connected" /\ link[p] = "lost")
  /\ phase' = [phase EXCEPT ![p] = "down"] /\ link' = [link EXCEPT ![p] = "down"]
  /\ UNCHANGED <<data, holder, starts, faults, frame>>

\* The address of the web server is in use: Socket::bind ends the process.
BindFails == /\ phase["web"] = "connected" /\ link["web"] = "up"
             /\ phase' = [phase EXCEPT !["web"] = "down"] /\ link' = [link EXCEPT !["web"] = "down"]
             /\ UNCHANGED <<data, holder, starts, faults, frame>>

Booting(p) == \/ \E file \in ConfigFiles : Start(p, file)
              \/ Connect(p) \/ Verify(p) \/ StartFails(p)
              \/ p = "web" /\ BindFails

\* run() returns, or the process dies: the connection is closed and the locals
\* are gone.  The server drops a transaction that was open when it notices.
Ends(p) == /\ phase' = [phase EXCEPT ![p] = "down"] /\ link' = [link EXCEPT ![p] = "down"]
           /\ frame' = [frame EXCEPT ![p] = NoCall]
           /\ UNCHANGED <<data, holder, starts>>
-----------------------------------------------------------------------------
(* A service call. *)

\* Calls that have their user's row looked up and must find it active, those
\* of them that need an administrator, calls that check their arguments before
\* they send a statement, and calls whose work is one transaction that writes.
Vetted == {"login", "publish", "purchase", "orders", "create", "summary"}
AdminOnly == {"create", "summary"}
Writes == {"register", "publish", "create"}
Lookups == {"health", "products", "product", "activities"}
Calls == Vetted \cup Writes \cup Lookups

Validated == {"register", "login", "publish", "create"}

\* user is "none" for a call of nobody, and for a login with wrong credentials;
\* given tells whether the arguments are in order, are such that a check of
\* them alone fails, or name a row that is not there.
Call(p, op, user, given) ==
  /\ frame[p].at = "idle"
  /\ frame' = [frame EXCEPT ![p] =
       [NoCall EXCEPT !.at = "begin", !.op = op, !.user = user, !.given = given,
                      !.rights = IF user \in Users THEN {account[user]} ELSE {}]]

Answer(p, result) == frame' = [frame EXCEPT ![p].at = "done", ![p].result = result]

\* A statement can be sent, and is answered.
Linked(p) == link[p] = "up"
Invalid(p) == frame[p].op \in Validated /\ frame[p].given = "invalid"

Reject(p) == /\ frame[p].at = "begin" /\ Invalid(p)
             /\ Answer(p, "invalid")
             /\ UNCHANGED <<data, holder, process>>

Found(p) == IF frame[p].user \in Users THEN account[frame[p].user] ELSE NoAccount
Bought(u) == \E x \in sales : x.user = u

\* Mutant of Refusal: a service trusts the role its caller knows.
RefusalAnyRole(f, row) ==
  IF f.op \in Vetted /\ row = NoAccount THEN "credentials"
  ELSE IF f.op \in Vetted /\ row.status # "ACTIVE" THEN "disabled"
  ELSE IF f.given = "unknown" THEN "missing"
  ELSE IF f.op = "purchase" /\ Bought(f.user) THEN "conflict" ELSE "none"

\* Why call f is refused before its first write, in the order of the checks.  The
\* order of an activity that is not there is not there either.
Refusal(f, row) ==
  IF f.op \in Vetted /\ row = NoAccount THEN "credentials"
  ELSE IF f.op \in Vetted /\ row.status # "ACTIVE" THEN "disabled"
  ELSE IF f.op \in AdminOnly /\ row.role # "ADMIN" THEN "forbidden"
  ELSE IF f.given = "unknown" THEN "missing"
  ELSE IF f.op = "purchase" /\ Bought(f.user) THEN "conflict" ELSE "none"

Begins(p) == frame[p].at = "begin" /\ ~Invalid(p) /\ Linked(p)

Refuse(p) == /\ Begins(p) /\ Refusal(frame[p], Found(p)) # "none"
             /\ Answer(p, Refusal(frame[p], Found(p)))
             /\ UNCHANGED <<data, holder, process>>

\* A call that only reads is done; one that writes goes on.
After(op) == IF op \in Writes THEN "write" ELSE IF op = "purchase" THEN "update" ELSE "done"

Vet(p) ==
  /\ Begins(p) /\ Refusal(frame[p], Found(p)) = "none"
  /\ frame' = [frame EXCEPT ![p].at = After(frame[p].op), ![p].row = Found(p),
                            ![p].result = IF After(frame[p].op) = "done" THEN "ok" ELSE @]
  /\ UNCHANGED <<data, holder, process>>

Write(p) == /\ frame[p].at = "write" /\ Linked(p)
            /\ made' = made \cup {[op |-> frame[p].op, user |-> frame[p].user]}
            /\ Answer(p, "ok")
            /\ UNCHANGED <<today, account, had, stock, sales, holder, process>>

\* A unique key is taken, the product of the new activity is in a flash sale
\* already, or MySQL reports something else: nothing stays.
WriteRefused(p) ==
  /\ frame[p].at = "write" /\ Linked(p)
  /\ \E result \in {"conflict", "failed"} \cup {r \in {"missing"} : frame[p].op = "create"} :
       Answer(p, result)
  /\ UNCHANGED <<data, holder, process>>

\* Mutant of Deduct: the UPDATE waits for nobody.
DeductUnlocked(p) == /\ frame[p].at = "update" /\ Linked(p) /\ stock[Activity] > 0
                     /\ holder' = p
                     /\ frame' = [frame EXCEPT ![p].at = "sell", ![p].left = stock[Activity] - 1]
                     /\ UNCHANGED <<data, process>>

\* The UPDATE, and the SELECT of what it left.
Deduct(p) == /\ frame[p].at = "update" /\ Linked(p) /\ holder = "none" /\ stock[Activity] > 0
             /\ holder' = p
             /\ frame' = [frame EXCEPT ![p].at = "sell", ![p].left = stock[Activity] - 1]
             /\ UNCHANGED <<data, process>>

\* Sold out, or not open.
DeductNothing(p) == /\ frame[p].at = "update" /\ Linked(p) /\ holder = "none"
                    /\ Answer(p, "conflict")
                    /\ UNCHANGED <<data, holder, process>>

LockTimeout(p) == /\ frame[p].at = "update" /\ Linked(p) /\ holder \notin {"none", p}
                  /\ Answer(p, "failed")
                  /\ UNCHANGED <<data, holder, process>>

\* COMMIT publishes the row of the activity as the UPDATE left it, the order and
\* its log.  The INSERT of the order had its unique key free.
Purchased(p) ==
  /\ ~Bought(frame[p].user)
  /\ stock' = [stock EXCEPT ![Activity] = frame[p].left]
  /\ sales' = sales \cup {[activity |-> Activity, user |-> frame[p].user, unit |-> frame[p].left]}
  /\ holder' = "none"

Sell(p) == /\ frame[p].at = "sell" /\ Linked(p)
           /\ Purchased(p)
           /\ Answer(p, "ok")
           /\ UNCHANGED <<today, account, had, made, process>>

\* Mutant of SellRefused: the destructor of the transaction does not roll back.
SellRefusedKept(p) == /\ frame[p].at = "sell" /\ Linked(p) /\ Bought(frame[p].user)
                      /\ Answer(p, "conflict")
                      /\ UNCHANGED <<data, holder, process>>

\* Another order of the user was committed since: the transaction is rolled back.
SellRefused(p) == /\ frame[p].at = "sell" /\ Linked(p) /\ Bought(frame[p].user)
                  /\ holder' = "none"
                  /\ Answer(p, "conflict")
                  /\ UNCHANGED <<data, process>>

\* Mutant of Fail: a statement is tried again on the connection that is lost.
FailRetried(p) == /\ frame[p].at \in {"begin", "write", "update", "sell"} /\ ~Invalid(p)
                  /\ link[p] = "lost"
                  /\ frame' = [frame EXCEPT ![p].at = "begin"]
                  /\ UNCHANGED <<data, holder, process>>

\* A statement on a connection that is lost: nothing opens it again.
Fail(p) == /\ frame[p].at \in {"begin", "write", "update", "sell"} /\ ~Invalid(p)
           /\ link[p] = "lost"
           /\ Answer(p, "failed")
           /\ UNCHANGED <<data, holder, process>>

Step(p) == \/ Reject(p) \/ Refuse(p) \/ Vet(p) \/ Write(p) \/ WriteRefused(p)
           \/ Deduct(p) \/ DeductNothing(p) \/ LockTimeout(p) \/ Sell(p) \/ SellRefused(p)
           \/ Fail(p)
-----------------------------------------------------------------------------
(* What happens to the processes. *)

\* The server notices that a client is gone, at the latest by its timeouts.
Reap == /\ holder # "none" /\ link[holder] # "up"
        /\ holder' = "none"
        /\ UNCHANGED <<data, process, frame>>

\* The connection breaks, or falls silent: the client has set no read timeout.
Disconnect(p) == /\ link[p] = "up" /\ faults < today.faults
                 /\ faults' = faults + 1
                 /\ \E state \in {"lost", "silent"} : link' = [link EXCEPT ![p] = state]
                 /\ UNCHANGED <<data, holder, phase, starts, frame>>

\* What a call writes is committed, and the connection lost before the answer.
CommitLost(p) == /\ Linked(p) /\ faults < today.faults
                 /\ \/ /\ frame[p].at = "sell"
                       /\ Purchased(p)
                       /\ UNCHANGED made
                    \/ /\ frame[p].at = "write"
                       /\ made' = made \cup {[op |-> frame[p].op, user |-> frame[p].user]}
                       /\ UNCHANGED <<stock, sales, holder>>
                 /\ faults' = faults + 1 /\ link' = [link EXCEPT ![p] = "lost"]
                 /\ Answer(p, "failed")
                 /\ UNCHANGED <<today, account, had, phase, starts>>

\* An administrator of the database, or the seed script run again, gives a user a
\* role or takes it, disables the account or enables it again.
Alter(u) ==
  /\ \E row \in today.adjusted[u] \ {account[u]} :
       /\ account' = [account EXCEPT ![u] = row]
       /\ had' = [had EXCEPT ![u] = @ \cup {row}]
       /\ frame' = [p \in Processes |-> IF frame[p].at = "begin" /\ frame[p].user = u
                                       THEN [frame[p] EXCEPT !.rights = @ \cup {row}]
                                       ELSE frame[p]]
  /\ UNCHANGED <<today, stock, sales, made, holder, process>>

Environment == \/ Reap \/ (\E u \in Users : Alter(u))
               \/ \E p \in Processes : Disconnect(p) \/ CommitLost(p)
=============================================================================
