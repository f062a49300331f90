---------------------------- MODULE CampusProofs ----------------------------
(***************************************************************************)
(* Proofs about the deployed system, for any users, clients, requests,     *)
(* days and faults: what sessions and prompts may be wrong about does no   *)
(* harm, and whatever the two processes do, they sell as FlashSale does.   *)
(***************************************************************************)
EXTENDS Campus, WellFoundedInduction, TLAPS

Frame == [at : {"idle", "begin", "write", "update", "sell", "done"},
          op : Calls \cup {"none"}, user : Who, given : {"right", "invalid", "unknown"},
          rights : SUBSET Account, row : Row, left : Nat, result : Results]

ServicesTypes ==
  /\ account \in [Users -> Account] /\ had \in [Users -> SUBSET Account]
  /\ \A u \in Users : account[u] \in had[u]
  /\ Store!TypeOK
  /\ made \subseteq [op : Writes, user : Who]
  /\ holder \in Processes \cup {"none"}
  /\ phase \in [Processes -> {"down", "configured", "connected", "running"}]
  /\ link \in [Processes -> {"down", "up", "lost", "silent"}]
  /\ frame \in [Processes -> Frame]
  /\ today \in Days

Proceeding(f) == f.at \in {"write", "update", "sell"} \/ (f.at = "done" /\ f.result = "ok")

Permitted(f) ==
  f.op \in {"login", "publish", "purchase", "orders", "create", "summary"} =>
    \E row \in f.rights : /\ row.status = "ACTIVE"
                          /\ f.op \in {"create", "summary"} => row.role = "ADMIN"

\* Why a call was refused, by a row its user has had.
Grounded(result, user, past) ==
  /\ result = "credentials" => user \notin Users
  /\ result = "disabled" => user \in Users /\ \E row \in past[user] : row.status = "DISABLED"
  /\ result = "forbidden" => user \in Users /\ \E row \in past[user] : row.role = "USER"

\* What holds of a call wherever it is, given the rows users have and have had.
Sound(f, rows, past) ==
  /\ f.at # "idle" => f.op \in Calls
  /\ f.result = "ok" => f.at = "done"
  /\ f.at = "begin" /\ f.user \in Users => rows[f.user] \in f.rights
  /\ Proceeding(f) => Permitted(f)
  /\ f.at \in {"update", "sell"} => f.user \in Users /\ f.op = "purchase"
  /\ f.at = "write" => f.op \in Writes
  /\ f.at = "done" => f.result # "none" /\ Grounded(f.result, f.user, past)
  /\ f.at = "done" /\ f.result = "ok" /\ f.op = "login" =>
       f.user \in Users /\ f.row \in past[f.user]
  /\ f.op \in Validated /\ f.given = "invalid" =>
       f.at \in {"idle", "begin"} \/ (f.at = "done" /\ f.result = "invalid")

\* A sale under way on a connection that works has the row of the activity locked,
\* which is what the UPDATE found.
Locked(p) == frame[p].at = "sell" /\ link[p] = "up" =>
  holder = p /\ stock[Activity] > 0 /\ frame[p].left = stock[Activity] - 1

\* Where a process may be, and hold the row of the activity.
Placed(p) ==
  /\ frame[p].at # "idle" => phase[p] = "running"
  /\ phase[p] = "configured" => holder # p
  /\ holder = p => frame[p].at = "sell" \/ link[p] # "up"
  /\ Locked(p)

SInv == /\ ServicesTypes
        /\ \A p \in Processes : Sound(frame[p], account, had) /\ Placed(p)

TerminalTypes ==
  /\ cli \in [at : {"menu", "prompts", "called"}, op : Calls \cup {"none"}, asked : 0 .. 6,
              given : {"right", "invalid", "unknown"}]
  /\ running \in BOOLEAN /\ ended \in BOOLEAN /\ current \in Signed \cup {Nobody}

\* Of an operation in whose prompts the input has ended: it will be refused,
\* by readUInt32 or by its service.
Doomed == \/ cli.given = "invalid" /\ cli.op \in Validated
          \/ cli.at = "prompts" /\ cli.op = "publish" /\ cli.asked = 3

TInv == /\ TerminalTypes
        /\ cli.at # "menu" => cli.op \in Calls
        /\ ended /\ cli.at # "menu" => Doomed
        /\ cli.at = "called" => frame["cli"].op = cli.op /\ frame["cli"].given = cli.given
        /\ frame["cli"].at # "idle" => cli.at = "called"

Requests == {NoRequest} \cup UNION {UNION {day.wanted[c] : c \in Clients} : day \in Days}
Ops == Calls \cup {"none", "me", "logout", "static", "notFound"}

ClientState == [at : {"idle", "sent", "called"}, request : Requests, op : Ops,
                as : Who, token : Nat, status : Nat, sent : Nat]

\* Why a client was turned away.
Justified(k, past) ==
  k.status \in {401, 403} =>
    IF k.as \in Users
    THEN \E row \in past[k.as] :
           IF k.status = 401 THEN row.status = "DISABLED" ELSE row.role = "USER"
    ELSE k.status = 401

\* What a client waits for is what the thread of the web server is at.
Waits(c) == client[c].at = "called" =>
  /\ frame["web"].at # "idle" /\ client[c].as = frame["web"].user
  /\ \A d \in Clients : client[d].at = "called" => d = c

\* A request that has been sent and no more is for something, and unanswered.
Fresh(k) == k.at = "sent" => k.op # "none" /\ k.status = 0

WInv == /\ client \in [Clients -> ClientState] /\ issued \in Nat
        /\ \A c \in Clients : /\ client[c].token =< issued /\ Justified(client[c], had)
                              /\ Waits(c) /\ Fresh(client[c])
        /\ sessions \in [DOMAIN sessions -> Signed] /\ DOMAIN sessions \subseteq 1 .. issued
        /\ \A t \in DOMAIN sessions : sessions[t].row \in had[sessions[t].user]

IInv == SInv /\ TInv /\ WInv
-----------------------------------------------------------------------------
LEMMA Constants == /\ Accounts \in [Users -> Account] /\ "none" \notin Users
                   /\ Stock \in Nat \ {0} /\ NoAccount \notin Account
BY ServicesAssumption DEF ServicesAssumption, NoAccount, Account

LEMMA InitIInv == Init => IInv
<1> SUFFICES ASSUME Init PROVE IInv
  OBVIOUS
<1> USE DEF Init
<1>1. NoCall \in Frame
  BY DEF NoCall, Frame, Who, Row, Results
<1>2. ServicesTypes
  <2>1. Store!TypeOK
    BY Constants DEF ServicesInit, Store!Init, Store!TypeOK
  <2> QED BY <1>1, <2>1, Constants DEF ServicesInit, ServicesTypes
<1>3. \A p \in Processes : Sound(frame[p], account, had) /\ Placed(p)
  BY DEF ServicesInit, NoCall, Sound, Proceeding, Placed, Locked, Processes
<1>4. TInv
  <2>1. TerminalTypes
    <3>1. AtMenu \in [at : {"menu", "prompts", "called"}, op : Calls \cup {"none"}, asked : 0 .. 6,
                       given : {"right", "invalid", "unknown"}]
      BY DEF AtMenu
    <3> QED BY <3>1 DEF TerminalInit, TerminalTypes
  <2>2. cli.at = "menu" /\ frame["cli"].at = "idle"
    BY DEF TerminalInit, AtMenu, ServicesInit, NoCall, Processes
  <2> QED BY <2>1, <2>2 DEF TInv
<1>5. WInv
  <2>1. client \in [Clients -> ClientState]
    BY DEF WebServerInit, ClientState, Requests, Ops, Who
  <2>2. \A c \in Clients : client[c].at = "idle" /\ client[c].token = 0 /\ client[c].status = 0
    BY DEF WebServerInit
  <2> QED BY <2>1, <2>2 DEF WebServerInit, WInv, Justified, Waits, Fresh
<1> QED BY <1>2, <1>3, <1>4, <1>5 DEF IInv, SInv
-----------------------------------------------------------------------------
(* A service call. *)

\* What a step of call f may make of it.
Onward(f, g) == /\ f.at # "idle" /\ g.at # "idle" /\ g \in Frame
                /\ g.op = f.op /\ g.given = f.given /\ g.user = f.user

LEMMA FrameUpdates ==
  ASSUME NEW f \in Frame
  PROVE  /\ \A at \in {"idle", "begin", "write", "update", "sell", "done"} :
              [f EXCEPT !.at = at] \in Frame
         /\ \A result \in Results : [f EXCEPT !.at = "done", !.result = result] \in Frame
         /\ \A at \in {"write", "update", "done"}, row \in Row, result \in Results :
              [f EXCEPT !.at = at, !.row = row, !.result = result] \in Frame
BY DEF Frame

\* A call that ends without its work done, for a reason that is so.
LEMMA RefusedAnswer ==
  ASSUME NEW p \in Processes, SInv, frame[p].at # "idle", NEW result \in Results \ {"none", "ok"},
         Invalid(p) => result = "invalid", Grounded(result, frame[p].user, had), Answer(p, result)
  PROVE  /\ frame' = [frame EXCEPT ![p] = [frame[p] EXCEPT !.at = "done", !.result = result]]
         /\ Onward(frame[p], [frame[p] EXCEPT !.at = "done", !.result = result])
         /\ Sound([frame[p] EXCEPT !.at = "done", !.result = result], account, had)
<1> DEFINE f == frame[p]
           g == [f EXCEPT !.at = "done", !.result = result]
<1>1. f \in Frame /\ Sound(f, account, had) /\ frame \in [Processes -> Frame]
  BY DEF SInv, ServicesTypes
<1>2. /\ g \in Frame /\ g.at = "done" /\ g.result = result /\ g.op = f.op
      /\ g.given = f.given /\ g.user = f.user
  BY <1>1 DEF Frame
<1>3. frame' = [frame EXCEPT ![p] = g]
  BY <1>1 DEF Answer, Frame
<1>4. Onward(f, g)
  BY <1>2 DEF Onward
<1>5. Sound(g, account, had)
  BY <1>1, <1>2 DEF Sound, Proceeding, Invalid
<1> QED BY <1>3, <1>4, <1>5

\* Of every step of a call: what it leaves is a sound call, further on, and
\* the rows of the users are as before.
Forth(p) == /\ UNCHANGED <<today, account, had>>
            /\ \E g \in Frame : /\ frame' = [frame EXCEPT ![p] = g]
                                /\ Onward(frame[p], g) /\ Sound(g, account, had)

LEMMA UserTypes ==
  ASSUME NEW p \in Processes, SInv
  PROVE  /\ frame[p] \in Frame /\ frame \in [Processes -> Frame] /\ Sound(frame[p], account, had)
         /\ frame[p].user \in Who
         /\ Found(p) \in Row
         /\ frame[p].user \in Users => /\ Found(p) = account[frame[p].user] /\ Found(p) \in Account
                                       /\ Found(p) \in had[frame[p].user]
         /\ frame[p].user \notin Users => Found(p) = NoAccount
         /\ Found(p) = NoAccount <=> frame[p].user \notin Users
<1>1. frame[p] \in Frame /\ frame \in [Processes -> Frame] /\ Sound(frame[p], account, had)
      /\ account \in [Users -> Account] /\ \A u \in Users : account[u] \in had[u]
  BY DEF SInv, ServicesTypes
<1>2. frame[p].user \in Who
  BY <1>1 DEF Frame
<1> QED BY <1>1, <1>2, Constants DEF Found, Row

LEMMA StepIsForth ==
  ASSUME NEW p \in Processes, SInv, Step(p)
  PROVE  Forth(p)
<1> USE DEF Forth, data, process
<1>0. /\ frame[p] \in Frame /\ frame \in [Processes -> Frame] /\ Sound(frame[p], account, had)
  BY UserTypes
<1>1. CASE Reject(p)
  <2>1. Grounded("invalid", frame[p].user, had) /\ "invalid" \in Results \ {"none", "ok"}
    BY DEF Grounded, Results
  <2> QED BY <1>1, <2>1, RefusedAnswer DEF Reject, Onward
<1>2. CASE Refuse(p)
  <2> DEFINE result == Refusal(frame[p], Found(p))
  <2>1. result \in Results \ {"none", "ok"} /\ Grounded(result, frame[p].user, had)
    <3>1. result \in {"credentials", "disabled", "forbidden", "conflict", "missing"}
      BY <1>2 DEF Refuse, Refusal
    <3>2. result = "credentials" => Found(p) = NoAccount
      BY DEF Refusal
    <3>3. result = "disabled" => Found(p) # NoAccount /\ Found(p).status # "ACTIVE"
      BY DEF Refusal
    <3>4. result = "forbidden" => Found(p) # NoAccount /\ Found(p).role # "ADMIN"
      BY DEF Refusal, AdminOnly, Vetted
    <3> HIDE DEF result
    <3> QED BY <3>1, <3>2, <3>3, <3>4, UserTypes DEF Results, Grounded, Account
  <2>2. ~Invalid(p) /\ frame[p].at # "idle" /\ Answer(p, result)
    BY <1>2 DEF Refuse, Begins
  <2> HIDE DEF result
  <2> QED BY <1>2, <2>1, <2>2, RefusedAnswer DEF Refuse, Onward
<1>3. CASE Vet(p)
  <2> DEFINE f == frame[p]
             at == After(f.op)
             g == [f EXCEPT !.at = at, !.row = Found(p), !.result = IF at = "done" THEN "ok" ELSE @]
  <2>1. at \in {"write", "update", "done"} /\ f.at = "begin" /\ ~Invalid(p) /\ f.op \in Calls
    BY <1>0, <1>3 DEF Vet, Begins, After, Sound
  <2>2. /\ g \in Frame /\ g.at = at /\ g.row = Found(p) /\ g.op = f.op /\ g.user = f.user
        /\ g.given = f.given /\ g.rights = f.rights /\ (at = "done" => g.result = "ok")
        /\ (at # "done" => g.result = f.result)
    BY <1>0, <2>1, UserTypes DEF Frame, Results
  <2>3. frame' = [frame EXCEPT ![p] = g]
    BY <1>0, <1>3 DEF Vet, Frame
  <2>4. Permitted(f) /\ (f.op \in Vetted => f.user \in Users)
    <3>1. Refusal(f, Found(p)) = "none"
      BY <1>3 DEF Vet
    <3>2. f.op \in Vetted => Found(p) # NoAccount /\ Found(p).status = "ACTIVE"
      BY <3>1 DEF Refusal
    <3>3. f.op \in AdminOnly => Found(p).role = "ADMIN"
      BY <3>1, <3>2 DEF Refusal, AdminOnly, Vetted
    <3> QED BY <1>0, <2>1, <3>2, <3>3, UserTypes
            DEF Permitted, Vetted, AdminOnly, Sound
  <2>5. /\ at = "write" => f.op \in Writes
        /\ at = "update" => f.op = "purchase"
    BY DEF After
  <2> HIDE DEF at
  <2>6. Onward(f, g)
    BY <2>1, <2>2 DEF Onward
  <2>7. Sound(g, account, had)
    <3>1. f.op \in {"login", "purchase"} => f.user \in Users /\ Found(p) \in had[f.user]
      BY <2>4, UserTypes DEF Vetted
    <3>2. Permitted(g)
      BY <2>2, <2>4 DEF Permitted
    <3>3. ~(g.op \in Validated /\ g.given = "invalid")
      BY <2>1, <2>2 DEF Invalid
    <3>4. g.result = "ok" => g.at = "done"
      BY <1>0, <2>1, <2>2 DEF Sound
    <3> HIDE DEF g
    <3> QED BY <2>1, <2>2, <2>5, <3>1, <3>2, <3>3, <3>4 DEF Sound, Grounded
  <2> QED BY <1>3, <2>2, <2>3, <2>6, <2>7 DEF Vet
<1>f. frame[p].at \in {"write", "update", "sell"} => ~Invalid(p)
  BY <1>0 DEF Sound, Invalid
<1>4. ASSUME frame[p].at \in {"write", "sell"}
      PROVE  LET done == [frame[p] EXCEPT !.at = "done", !.result = "ok"]
             IN  done \in Frame /\ Onward(frame[p], done) /\ Sound(done, account, had)
  <2> DEFINE f == frame[p]
             done == [f EXCEPT !.at = "done", !.result = "ok"]
  <2>1. done \in Frame /\ done.at = "done" /\ done.result = "ok" /\ done.op = f.op
        /\ done.user = f.user /\ done.given = f.given /\ done.rights = f.rights
    BY <1>0 DEF Frame, Results
  <2> HIDE DEF done
  <2>2. Permitted(done) /\ ~(done.op \in Validated /\ done.given = "invalid")
    BY <1>0, <1>4, <1>f, <2>1 DEF Sound, Proceeding, Permitted, Invalid
  <2>3. done.op \in Calls /\ done.op # "login" /\ Onward(f, done)
    BY <1>0, <1>4, <2>1 DEF Onward, Sound, Writes
  <2>4. Sound(done, account, had)
    BY <2>1, <2>2, <2>3 DEF Sound, Grounded
  <2> QED BY <2>1, <2>3, <2>4 DEF done
<1>5. CASE Write(p)
  <2>1. frame' = [frame EXCEPT ![p] = [frame[p] EXCEPT !.at = "done", !.result = "ok"]]
    BY <1>0, <1>5 DEF Write, Answer, Frame
  <2> QED BY <1>4, <1>5, <2>1 DEF Write
<1>6. CASE Sell(p)
  <2>1. frame' = [frame EXCEPT ![p] = [frame[p] EXCEPT !.at = "done", !.result = "ok"]]
    BY <1>0, <1>6 DEF Sell, Answer, Frame
  <2> QED BY <1>4, <1>6, <2>1 DEF Sell
<1>7. CASE Deduct(p)
  <2> DEFINE f == frame[p]
             g == [f EXCEPT !.at = "sell", !.left = stock[Activity] - 1]
  <2>0. stock[Activity] - 1 \in Nat
    BY <1>7 DEF Deduct, SInv, ServicesTypes, Store!TypeOK
  <2>1. g \in Frame /\ g.at = "sell" /\ g.op = f.op /\ g.user = f.user /\ g.given = f.given
        /\ g.rights = f.rights /\ g.result = f.result
    BY <1>0, <2>0 DEF Frame
  <2>2. f.at = "update" /\ frame' = [frame EXCEPT ![p] = g]
    BY <1>0, <1>7 DEF Deduct, Frame
  <2> HIDE DEF g
  <2>3. Onward(f, g) /\ Sound(g, account, had)
    BY <1>0, <2>1, <2>2 DEF Onward, Sound, Proceeding, Permitted
  <2> QED BY <1>7, <2>1, <2>2, <2>3 DEF Deduct
<1>8. ASSUME frame[p].at \in {"begin", "write", "update", "sell"}, ~Invalid(p),
             NEW result \in {"failed", "conflict", "missing"}, Answer(p, result),
             UNCHANGED <<today, account, had>>
      PROVE  Forth(p)
  <2>1. /\ Grounded(result, frame[p].user, had) /\ result \in Results \ {"none", "ok"}
        /\ frame[p].at # "idle"
    BY <1>8 DEF Grounded, Results
  <2>2. /\ frame' = [frame EXCEPT ![p] = [frame[p] EXCEPT !.at = "done", !.result = result]]
        /\ Onward(frame[p], [frame[p] EXCEPT !.at = "done", !.result = result])
        /\ Sound([frame[p] EXCEPT !.at = "done", !.result = result], account, had)
    BY <1>8, <2>1, RefusedAnswer
  <2> QED BY <1>8, <2>2 DEF Onward
<1>9. CASE WriteRefused(p)
  <2>1. \E result \in {"failed", "conflict", "missing"} : Answer(p, result)
    BY <1>9 DEF WriteRefused
  <2> QED BY <1>f, <1>8, <1>9, <2>1 DEF WriteRefused
<1>10. CASE DeductNothing(p)
  BY <1>f, <1>8, <1>10 DEF DeductNothing
<1>11. CASE LockTimeout(p)
  BY <1>f, <1>8, <1>11 DEF LockTimeout
<1>12. CASE SellRefused(p)
  BY <1>f, <1>8, <1>12 DEF SellRefused
<1>13. CASE Fail(p)
  BY <1>8, <1>13 DEF Fail
<1> QED
  BY <1>1, <1>2, <1>3, <1>5, <1>6, <1>7, <1>9, <1>10, <1>11, <1>12, <1>13 DEF Step
-----------------------------------------------------------------------------
(* The steps of the services keep what holds of them. *)

\* No row that a user had is forgotten.
Remembering == /\ had' \in [Users -> SUBSET Account]
               /\ \A u \in Users : had[u] \subseteq had'[u]

\* A call that is under way stays the call it is.
SameCall(f, g) == /\ f.at = "idle" <=> g.at = "idle"
                  /\ g.op = f.op /\ g.given = f.given /\ g.user = f.user

LEMMA NothingForgotten ==
  ASSUME SInv, UNCHANGED had
  PROVE  Remembering
BY DEF Remembering, SInv, ServicesTypes

\* Only process p moves, between two of its statements or at one.
LEMMA OneMoves ==
  ASSUME SInv, NEW p \in Processes, ServicesTypes', UNCHANGED <<account, had>>,
         Sound(frame[p], account, had)',
         \A q \in Processes \ {p} : frame'[q] = frame[q] /\ phase'[q] = phase[q] /\ link'[q] = link[q],
         holder' \in {holder, p, "none"}, Placed(p)',
         holder \in {p, "none"} \/ UNCHANGED <<holder, stock>>
  PROVE  SInv'
<1>1. ASSUME NEW q \in Processes \ {p} PROVE Sound(frame[q], account, had)' /\ Placed(q)'
  <2>1. Sound(frame[q], account, had) /\ Placed(q)
        /\ frame'[q] = frame[q] /\ phase'[q] = phase[q] /\ link'[q] = link[q]
    BY DEF SInv
  <2>2. Sound(frame[q], account, had)'
    BY <2>1 DEF Sound, Proceeding, Permitted, Grounded
  <2>3. holder' = q => holder = q
    BY DEF Processes
  <2>4. Locked(q)'
    <3>1. frame[q].at = "sell" /\ link[q] = "up" => UNCHANGED <<holder, stock>>
      BY <2>1 DEF Placed, Locked, Processes
    <3> QED BY <2>1, <3>1 DEF Placed, Locked
  <2> QED BY <2>1, <2>2, <2>3, <2>4 DEF Placed
<1> QED BY <1>1 DEF SInv

LEMMA BootingKeeps ==
  ASSUME SInv, NEW p \in Processes, Booting(p)
  PROVE  SInv' /\ UNCHANGED <<today, account, had, frame>>
<1> USE DEF data, process
<1>0. ServicesTypes /\ Placed(p) /\ Sound(frame[p], account, had)
  BY DEF SInv
<1>1. UNCHANGED <<data, holder, frame>> /\ phase[p] # "running"
  <2>1. UNCHANGED <<data, holder, frame>>
    BY DEF Booting, Start, Connect, Verify, StartFails, BindFails
  <2>2. phase[p] # "running"
    BY DEF Booting, Start, Connect, Verify, StartFails, BindFails
  <2> QED BY <2>1, <2>2
<1>2. frame[p].at = "idle" /\ frame'[p] = frame[p]
  BY <1>0, <1>1 DEF Placed
<1>3. /\ phase' \in [Processes -> {"down", "configured", "connected", "running"}]
      /\ link' \in [Processes -> {"down", "up", "lost", "silent"}]
      /\ \A q \in Processes \ {p} : phase'[q] = phase[q] /\ link'[q] = link[q]
  BY <1>0 DEF ServicesTypes, Booting, Start, Connect, Verify, StartFails, BindFails
<1>4. ServicesTypes'
  BY <1>0, <1>1, <1>3 DEF ServicesTypes, Store!TypeOK
<1>5. Placed(p)'
  <2>1. phase'[p] = "configured" => holder # p
    BY <1>0, <1>3 DEF ServicesTypes, Booting, Start, Connect, Verify, StartFails, BindFails
  <2>2. holder = p => link'[p] # "up"
    <3>1. CASE \E file \in ConfigFiles : Start(p, file)
      BY <3>1 DEF Start
    <3>2. CASE Connect(p)
      BY <1>0, <3>2 DEF Connect, Placed
    <3>3. CASE Verify(p)
      BY <1>0, <1>2, <3>3 DEF Verify, Placed
    <3>4. CASE StartFails(p) \/ (p = "web" /\ BindFails)
      BY <1>0, <3>4 DEF StartFails, BindFails, ServicesTypes
    <3> QED BY <3>1, <3>2, <3>3, <3>4 DEF Booting
  <2> QED BY <1>1, <1>2, <2>1, <2>2 DEF Placed, Locked
<1>6. Sound(frame[p], account, had)'
  BY <1>0, <1>1 DEF Sound, Proceeding, Permitted, Grounded
<1> QED BY <1>1, <1>3, <1>4, <1>5, <1>6, OneMoves

\* What a purchase that has the row locked commits is a sale of FlashSale.
LEMMA PurchaseSells ==
  ASSUME SInv, NEW p \in Processes, frame[p].at = "sell", Linked(p), Purchased(p)
  PROVE  /\ frame[p].user \in Users /\ Store!Sell(frame[p].user, Activity) /\ Store!TypeOK'
         /\ holder = p
<1>1. /\ Sound(frame[p], account, had) /\ Locked(p) /\ Store!TypeOK
  BY DEF SInv, ServicesTypes, Placed
<1>2. frame[p].user \in Users
  BY <1>1 DEF Sound
<1>3. holder = p /\ stock[Activity] > 0 /\ frame[p].left = stock[Activity] - 1
  BY <1>1 DEF Locked, Linked
<1>4. Store!Sell(frame[p].user, Activity)
  BY <1>3 DEF Purchased, Bought, Store!Sell, Store!Sold
<1>5. Store!TypeOK'
  BY <1>1, <1>2, <1>4 DEF Store!TypeOK, Store!Sell, Store!Sale
<1> QED BY <1>2, <1>3, <1>4, <1>5

LEMMA StepKeeps ==
  ASSUME SInv, NEW p \in Processes, Step(p)
  PROVE  /\ SInv' /\ UNCHANGED <<today, account, had>>
         /\ \A q \in Processes : SameCall(frame[q], frame'[q])
<1> USE DEF data, process
<1>0. ServicesTypes /\ Placed(p) /\ Sound(frame[p], account, had) /\ frame[p] \in Frame
  BY DEF SInv, ServicesTypes
<1>1. PICK g \in Frame : /\ frame' = [frame EXCEPT ![p] = g]
                         /\ Onward(frame[p], g) /\ Sound(g, account, had)
  BY StepIsForth DEF Forth
<1>2. UNCHANGED <<today, account, had>>
  BY StepIsForth DEF Forth
<1>3. frame' \in [Processes -> Frame] /\ frame'[p] = g /\ \A q \in Processes \ {p} : frame'[q] = frame[q]
  BY <1>0, <1>1 DEF ServicesTypes
<1>4. UNCHANGED <<phase, link>>
  BY DEF Step, Reject, Refuse, Vet, Write, WriteRefused, Deduct, DeductNothing, LockTimeout,
         Sell, SellRefused, Fail
<1>5. holder' \in {holder, p, "none"}
  BY DEF Step, Reject, Refuse, Vet, Write, WriteRefused, Deduct, DeductNothing, LockTimeout,
         Sell, Purchased, SellRefused, Fail
<1>6. made' \subseteq [op : Writes, user : Who] /\ Store!TypeOK'
  <2>1. CASE Write(p)
    <3>1. frame[p].op \in Writes /\ frame[p].user \in Who /\ UNCHANGED <<stock, sales>>
      BY <1>0, <2>1 DEF Write, Sound, Frame
    <3> QED BY <1>0, <2>1, <3>1 DEF Write, ServicesTypes, Store!TypeOK
  <2>2. CASE Sell(p)
    BY <1>0, <2>2, PurchaseSells DEF Sell, ServicesTypes
  <2>3. ASSUME ~Write(p), ~Sell(p) PROVE UNCHANGED <<made, stock, sales>>
    BY <2>3 DEF Step, Reject, Refuse, Vet, WriteRefused, Deduct, DeductNothing, LockTimeout,
           SellRefused, Fail
  <2> QED BY <1>0, <2>1, <2>2, <2>3 DEF ServicesTypes, Store!TypeOK
<1>7. ServicesTypes'
  BY <1>0, <1>2, <1>3, <1>4, <1>5, <1>6 DEF ServicesTypes
<1>8. holder' = p => frame'[p].at = "sell" \/ link'[p] # "up"
  <2>1. CASE Deduct(p)
    BY <1>0, <2>1 DEF Deduct, ServicesTypes, Frame
  <2>2. CASE Sell(p) \/ SellRefused(p)
    BY <2>2 DEF Sell, Purchased, SellRefused, Processes
  <2>3. CASE Fail(p)
    BY <2>3 DEF Fail
  <2>4. ASSUME ~Deduct(p), ~Sell(p), ~SellRefused(p), ~Fail(p)
        PROVE  holder' = holder /\ link' = link /\ frame[p].at # "sell"
    BY <2>4 DEF Step, Reject, Refuse, Vet, Begins, Write, WriteRefused, DeductNothing, LockTimeout
  <2> QED BY <1>0, <2>1, <2>2, <2>3, <2>4 DEF Placed
<1>l. Locked(p)'
  <2>1. CASE Deduct(p)
    <3>1. stock[Activity] - 1 \in Nat /\ stock[Activity] > 0
      BY <1>0, <2>1 DEF Deduct, ServicesTypes, Store!TypeOK
    <3> QED BY <1>0, <2>1, <3>1 DEF Deduct, ServicesTypes, Locked, Frame
  <2>2. ASSUME ~Deduct(p) PROVE frame'[p].at # "sell"
    <3>1. After(frame[p].op) # "sell"
      BY DEF After
    <3> QED BY <1>0, <2>2, <3>1
            DEF Step, Reject, Refuse, Vet, Write, WriteRefused, DeductNothing, LockTimeout,
                Sell, SellRefused, Fail, Answer, ServicesTypes, Frame
  <2> QED BY <2>1, <2>2 DEF Locked
<1>9. Placed(p)'
  BY <1>0, <1>1, <1>3, <1>4, <1>8, <1>l DEF Placed, Onward
<1>h. holder \in {p, "none"} \/ UNCHANGED <<holder, stock>>
  <2>1. CASE Deduct(p)
    BY <2>1 DEF Deduct
  <2>2. CASE Sell(p) \/ SellRefused(p)
    BY <1>0, <2>2 DEF Sell, SellRefused, Placed, Locked, Linked
  <2>3. ASSUME ~Deduct(p), ~Sell(p), ~SellRefused(p) PROVE UNCHANGED <<holder, stock>>
    BY <2>3 DEF Step, Reject, Refuse, Vet, Write, WriteRefused, DeductNothing, LockTimeout, Fail
  <2> QED BY <2>1, <2>2, <2>3
<1>10. Sound(frame[p], account, had)'
  BY <1>1, <1>2, <1>3 DEF Sound, Proceeding, Permitted, Grounded
<1>11. SInv'
  BY <1>2, <1>3, <1>4, <1>5, <1>7, <1>9, <1>10, <1>h, OneMoves
<1>12. \A q \in Processes : SameCall(frame[q], frame'[q])
  BY <1>1, <1>3 DEF SameCall, Onward
<1> QED BY <1>2, <1>11, <1>12

\* The mapped variables but for the frame of the calls stay in their types.
LEMMA ReapKeeps ==
  ASSUME SInv, Reap
  PROVE  SInv' /\ UNCHANGED <<today, account, had, frame>>
<1> USE DEF data, process
<1>0. ServicesTypes /\ holder' = "none" /\ link[holder] # "up" /\ UNCHANGED <<data, process, frame>>
  BY DEF SInv, Reap
<1>1. ServicesTypes'
  BY <1>0 DEF ServicesTypes, Store!TypeOK
<1>2. ASSUME NEW p \in Processes PROVE Placed(p)' /\ Sound(frame[p], account, had)'
  <2>1. Placed(p) /\ Sound(frame[p], account, had)
    BY DEF SInv
  <2> QED BY <1>0, <2>1 DEF Placed, Locked, Sound, Proceeding, Permitted, Grounded, Processes
<1> QED BY <1>0, <1>1, <1>2 DEF SInv

\* Who alters a row behind a call leaves a call that goes by either row.
LEMMA AlterKeeps ==
  ASSUME SInv, NEW u \in Users, Alter(u)
  PROVE  /\ SInv' /\ Remembering /\ today' = today
         /\ \A q \in Processes : SameCall(frame[q], frame'[q])
<1> USE DEF data, process
<1>0. ServicesTypes /\ UNCHANGED <<today, stock, sales, made, holder, process>>
  BY DEF SInv, Alter
<1>1. PICK row \in today.adjusted[u] \ {account[u]} :
         /\ account' = [account EXCEPT ![u] = row]
         /\ had' = [had EXCEPT ![u] = @ \cup {row}]
         /\ frame' = [p \in Processes |-> IF frame[p].at = "begin" /\ frame[p].user = u
                                          THEN [frame[p] EXCEPT !.rights = @ \cup {row}]
                                          ELSE frame[p]]
  BY DEF Alter
<1>2. row \in Account
  BY <1>0, ServicesAssumption DEF ServicesTypes, ServicesAssumption
<1>3. /\ account' \in [Users -> Account] /\ Remembering
      /\ \A v \in Users : account'[v] \in had'[v]
  BY <1>0, <1>1, <1>2 DEF ServicesTypes, Remembering
<1>4. \A v \in Users : had[v] \subseteq had'[v] /\ (v # u => account'[v] = account[v])
  BY <1>0, <1>1 DEF ServicesTypes
<1>5. ASSUME NEW p \in Processes
      PROVE  /\ frame'[p] \in Frame /\ SameCall(frame[p], frame'[p])
             /\ Sound(frame[p], account, had)' /\ Placed(p)'
  <2> DEFINE f == frame[p]
             g == [f EXCEPT !.rights = @ \cup {row}]
  <2>1. f \in Frame /\ Sound(f, account, had) /\ Placed(p)
    BY <1>0 DEF SInv, ServicesTypes
  <2>2. CASE f.at = "begin" /\ f.user = u
    <3>1. /\ frame'[p] = g /\ g \in Frame /\ g.at = f.at /\ g.op = f.op /\ g.user = u
          /\ g.given = f.given /\ g.result = f.result /\ row \in g.rights
      BY <1>1, <1>2, <2>1, <2>2 DEF Frame
    <3>2. account'[u] = row
      BY <1>0, <1>1 DEF ServicesTypes
    <3> HIDE DEF g
    <3>3. Sound(g, account', had')
      BY <2>1, <2>2, <3>1, <3>2 DEF Sound, Proceeding
    <3>4. Sound(frame[p], account, had)'
      BY <3>1, <3>3 DEF Sound, Proceeding, Permitted, Grounded
    <3> QED BY <1>0, <2>1, <2>2, <3>1, <3>4 DEF SameCall, Placed, Locked
  <2>3. CASE ~(f.at = "begin" /\ f.user = u)
    <3>1. frame'[p] = f
      BY <1>1, <2>3
    <3>2. f.at = "begin" /\ f.user \in Users => account'[f.user] \in f.rights
      BY <1>4, <2>1, <2>3 DEF Sound
    <3>3. f.at = "done" => Grounded(f.result, f.user, had')
      BY <1>4, <2>1 DEF Sound, Grounded
    <3>4. f.at = "done" /\ f.result = "ok" /\ f.op = "login" => f.user \in Users /\ f.row \in had'[f.user]
      BY <1>4, <2>1 DEF Sound
    <3> HIDE DEF f
    <3>5. Sound(f, account', had')
      BY <2>1, <3>2, <3>3, <3>4 DEF Sound
    <3>6. Sound(frame[p], account, had)'
      BY <3>1, <3>5 DEF Sound, Proceeding, Permitted, Grounded
    <3> QED BY <1>0, <2>1, <3>1, <3>6 DEF SameCall, Placed, Locked, f
  <2> QED BY <2>2, <2>3
<1>6. frame' \in [Processes -> Frame]
  BY <1>1, <1>5
<1>7. ServicesTypes'
  BY <1>0, <1>3, <1>6 DEF ServicesTypes, Store!TypeOK, Remembering
<1> QED BY <1>0, <1>3, <1>5, <1>7 DEF SInv

LEMMA DisconnectKeeps ==
  ASSUME SInv, NEW p \in Processes, Disconnect(p)
  PROVE  SInv' /\ UNCHANGED <<today, account, had, frame>>
<1> USE DEF data, process
<1>0. ServicesTypes /\ UNCHANGED <<data, holder, phase, frame>>
  BY DEF SInv, Disconnect
<1>1. PICK state \in {"lost", "silent"} : link' = [link EXCEPT ![p] = state]
  BY DEF Disconnect
<1>2. ServicesTypes'
  BY <1>0, <1>1 DEF ServicesTypes, Store!TypeOK
<1>3. Placed(p) /\ Sound(frame[p], account, had)
  BY DEF SInv
<1>4. Placed(p)' /\ Sound(frame[p], account, had)'
  BY <1>0, <1>1, <1>3 DEF Placed, Locked, Sound, Proceeding, Permitted, Grounded, ServicesTypes
<1>5. \A q \in Processes \ {p} : frame'[q] = frame[q] /\ phase'[q] = phase[q] /\ link'[q] = link[q]
  BY <1>0, <1>1 DEF ServicesTypes
<1> QED BY <1>0, <1>2, <1>4, <1>5, OneMoves

LEMMA CommitLostKeeps ==
  ASSUME SInv, NEW p \in Processes, CommitLost(p)
  PROVE  /\ SInv' /\ UNCHANGED <<today, account, had>>
         /\ \A q \in Processes : SameCall(frame[q], frame'[q])
<1> USE DEF data, process
<1>0. ServicesTypes /\ Placed(p) /\ Sound(frame[p], account, had) /\ frame[p] \in Frame
  BY DEF SInv, ServicesTypes
<1>1. /\ UNCHANGED <<today, account, had, phase>> /\ holder' \in {holder, "none"}
      /\ holder = p \/ UNCHANGED <<holder, stock>>
      /\ link' = [link EXCEPT ![p] = "lost"] /\ frame[p].at \in {"sell", "write"}
      /\ Answer(p, "failed")
  BY PurchaseSells DEF CommitLost, Purchased
<1> DEFINE g == [frame[p] EXCEPT !.at = "done", !.result = "failed"]
<1>2. frame' = [frame EXCEPT ![p] = g] /\ Onward(frame[p], g) /\ Sound(g, account, had)
  <2>1. ~Invalid(p) /\ Grounded("failed", frame[p].user, had) /\ frame[p].at # "idle"
    BY <1>0, <1>1 DEF Sound, Invalid, Grounded
  <2>2. "failed" \in Results \ {"none", "ok"}
    BY DEF Results
  <2> QED BY <1>1, <2>1, <2>2, RefusedAnswer
<1>3. g \in Frame
  BY <1>2 DEF Onward
<1> HIDE DEF g
<1>4. frame' \in [Processes -> Frame] /\ frame'[p] = g /\ \A q \in Processes \ {p} : frame'[q] = frame[q]
  BY <1>0, <1>2, <1>3 DEF ServicesTypes
<1>5. made' \subseteq [op : Writes, user : Who] /\ Store!TypeOK'
  <2>1. CASE frame[p].at = "sell"
    BY <1>0, <2>1, PurchaseSells DEF CommitLost, ServicesTypes
  <2>2. CASE frame[p].at = "write"
    <3>1. /\ frame[p].op \in Writes /\ frame[p].user \in Who /\ UNCHANGED <<stock, sales>>
          /\ made' = made \cup {[op |-> frame[p].op, user |-> frame[p].user]}
      BY <1>0, <2>2 DEF CommitLost, Sound, Frame
    <3> QED BY <1>0, <3>1 DEF ServicesTypes, Store!TypeOK
  <2> QED BY <1>1, <2>1, <2>2
<1>6. ServicesTypes'
  BY <1>0, <1>1, <1>4, <1>5 DEF ServicesTypes
<1>7. Placed(p)' /\ Sound(frame[p], account, had)'
  <2>1. link'[p] # "up"
    BY <1>0, <1>1 DEF ServicesTypes
  <2>2. Placed(p)'
    BY <1>0, <1>1, <1>2, <1>4, <2>1 DEF Placed, Locked, Onward
  <2> QED BY <1>1, <1>2, <1>4, <2>2 DEF Sound, Proceeding, Permitted, Grounded
<1>8. \A q \in Processes \ {p} : frame'[q] = frame[q] /\ phase'[q] = phase[q] /\ link'[q] = link[q]
  BY <1>0, <1>1, <1>4 DEF ServicesTypes
<1>9. \A q \in Processes : SameCall(frame[q], frame'[q])
  BY <1>2, <1>4 DEF SameCall, Onward
<1> QED BY <1>1, <1>6, <1>7, <1>8, <1>9, OneMoves

LEMMA SharedKeeps ==
  ASSUME SInv, Shared
  PROVE  /\ SInv' /\ Remembering /\ today' = today
         /\ \A q \in Processes : SameCall(frame[q], frame'[q])
<1>1. UNCHANGED frame => \A q \in Processes : SameCall(frame[q], frame'[q])
  BY DEF SameCall
<1> QED BY <1>1, BootingKeeps, StepKeeps, ReapKeeps, AlterKeeps, DisconnectKeeps, CommitLostKeeps,
           NothingForgotten DEF Shared, Environment
-----------------------------------------------------------------------------
(* What the front ends do to the services. *)

LEMMA CallKeeps ==
  ASSUME SInv, NEW p \in Processes, NEW op \in Calls, NEW user \in Who,
         NEW given \in {"right", "invalid", "unknown"},
         Call(p, op, user, given), phase[p] = "running", UNCHANGED <<data, holder, process>>
  PROVE  /\ SInv' /\ UNCHANGED <<today, account, had>>
         /\ \A q \in Processes \ {p} : frame'[q] = frame[q]
         /\ frame'[p].at = "begin" /\ frame'[p].op = op /\ frame'[p].user = user
         /\ frame'[p].given = given
<1> USE DEF data, process
<1>0. ServicesTypes /\ Placed(p) /\ frame[p].at = "idle"
  BY DEF SInv, Call
<1> DEFINE rights == IF user \in Users THEN {account[user]} ELSE {}
           g == [NoCall EXCEPT !.at = "begin", !.op = op, !.user = user, !.given = given,
                               !.rights = rights]
<1>1. rights \subseteq Account /\ (user \in Users => account[user] \in rights)
  BY <1>0 DEF ServicesTypes
<1>2. /\ g \in Frame /\ g.at = "begin" /\ g.op = op /\ g.user = user /\ g.given = given
      /\ g.rights = rights /\ g.result = "none"
  <2> HIDE DEF rights
  <2> QED BY <1>1 DEF Frame, NoCall, Row, Results
<1>3. frame' = [frame EXCEPT ![p] = g]
  BY DEF Call
<1>4. Sound(g, account, had)
  <2> HIDE DEF g, rights
  <2> QED BY <1>1, <1>2 DEF Sound, Proceeding
<1> HIDE DEF g
<1>5. /\ frame' \in [Processes -> Frame] /\ frame'[p] = g
      /\ \A q \in Processes \ {p} : frame'[q] = frame[q]
  BY <1>0, <1>2, <1>3 DEF ServicesTypes
<1>6. ServicesTypes'
  BY <1>0, <1>5 DEF ServicesTypes, Store!TypeOK
<1>7. Placed(p)'
  BY <1>0, <1>2, <1>5 DEF Placed, Locked
<1>8. Sound(frame[p], account, had)'
  BY <1>4, <1>5 DEF Sound, Proceeding, Permitted, Grounded
<1>9. SInv'
  BY <1>5, <1>6, <1>7, <1>8, OneMoves
<1> QED BY <1>2, <1>5, <1>9

\* The call of process p is over, one way or another.
LEMMA NoCallSound == NoCall \in Frame /\ NoCall.at = "idle" /\ \A rows, past : Sound(NoCall, rows, past)
BY DEF NoCall, Frame, Who, Row, Results, Sound, Proceeding

LEMMA ClearKeeps ==
  ASSUME SInv, NEW p \in Processes, frame[p].at = "done", frame' = [frame EXCEPT ![p] = NoCall],
         UNCHANGED <<data, holder, process>>
  PROVE  SInv' /\ UNCHANGED <<today, account, had>>
<1> USE DEF data, process
<1>0. ServicesTypes /\ Placed(p)
  BY DEF SInv
<1>1. /\ frame' \in [Processes -> Frame] /\ frame'[p] = NoCall
      /\ \A q \in Processes \ {p} : frame'[q] = frame[q]
  BY <1>0, NoCallSound DEF ServicesTypes
<1>2. ServicesTypes'
  BY <1>0, <1>1 DEF ServicesTypes, Store!TypeOK
<1>3. Placed(p)'
  BY <1>0, <1>1, NoCallSound DEF Placed, Locked
<1>4. Sound(frame[p], account, had)'
  BY <1>1, NoCallSound DEF Sound, Proceeding, Permitted, Grounded
<1> QED BY <1>1, <1>2, <1>3, <1>4, OneMoves

LEMMA EndsKeeps ==
  ASSUME SInv, NEW p \in Processes, Ends(p)
  PROVE  SInv' /\ UNCHANGED <<today, account, had>> /\ frame' = [frame EXCEPT ![p] = NoCall]
<1> USE DEF data, process
<1>0. ServicesTypes /\ Placed(p) /\ UNCHANGED <<data, holder>>
  BY DEF SInv, Ends
<1>1. /\ frame' \in [Processes -> Frame] /\ frame'[p] = NoCall
      /\ \A q \in Processes \ {p} : frame'[q] = frame[q] /\ phase'[q] = phase[q] /\ link'[q] = link[q]
      /\ phase' \in [Processes -> {"down", "configured", "connected", "running"}]
      /\ link' \in [Processes -> {"down", "up", "lost", "silent"}]
      /\ phase'[p] = "down" /\ link'[p] = "down"
  BY <1>0, NoCallSound DEF ServicesTypes, Ends
<1>2. ServicesTypes'
  BY <1>0, <1>1 DEF ServicesTypes, Store!TypeOK
<1>3. Placed(p)'
  BY <1>0, <1>1, NoCallSound DEF Placed, Locked
<1>4. Sound(frame[p], account, had)'
  BY <1>1, NoCallSound DEF Sound, Proceeding, Permitted, Grounded
<1>5. SInv'
  BY <1>0, <1>1, <1>2, <1>3, <1>4, OneMoves
<1> QED BY <1>0, <1>5 DEF Ends

LEMMA IdleKeeps ==
  ASSUME SInv, UNCHANGED services
  PROVE  SInv' /\ UNCHANGED <<today, account, had, frame>>
<1> USE DEF services, data, process
<1>1. ServicesTypes'
  BY DEF SInv, ServicesTypes, Store!TypeOK
<1>2. \A p \in Processes : Sound(frame[p], account, had)' /\ Placed(p)'
  <2> SUFFICES ASSUME NEW p \in Processes PROVE Sound(frame[p], account, had)' /\ Placed(p)'
    OBVIOUS
  <2>1. Sound(frame[p], account, had) /\ Placed(p)
    BY DEF SInv
  <2> QED BY <2>1 DEF Placed, Locked, Sound, Proceeding, Permitted, Grounded
<1> QED BY <1>1, <1>2 DEF SInv
-----------------------------------------------------------------------------
(* The terminal. *)

LEMMA PromptFacts ==
  ASSUME NEW op
  PROVE  /\ Len(Prompts(op)) \in 0 .. 6 /\ Len(Prompts("publish")) = 4
         /\ \A i \in 1 .. Len(Prompts(op)) :
              /\ Prompts(op)[i] = "text" => op \in Validated
              /\ Prompts(op)[i] = "any" => op = "publish" /\ i = 3
<1>1. Len(Prompts("publish")) = 4
  BY DEF Prompts
<1>2. CASE op \in {"register", "login"}
  <2>1. Prompts(op) = <<"text", "text">>
    BY <1>2 DEF Prompts
  <2> QED BY <1>1, <1>2, <2>1 DEF Validated
<1>3. CASE op = "publish"
  <2>1. Prompts(op) = <<"text", "text", "any", "number">>
    BY <1>3 DEF Prompts
  <2> QED BY <1>1, <1>3, <2>1 DEF Validated
<1>4. CASE op = "create"
  <2>1. Prompts(op) = <<"text", "id", "number", "number", "text", "text">>
    BY <1>4 DEF Prompts
  <2> QED BY <1>1, <1>4, <2>1 DEF Validated
<1>5. CASE op \in {"product", "purchase"}
  <2>1. Prompts(op) = <<"id">>
    BY <1>5 DEF Prompts
  <2> QED BY <1>1, <2>1
<1>6. CASE op \notin {"register", "login", "publish", "create", "product", "purchase"}
  <2>1. Prompts(op) = << >>
    BY <1>6 DEF Prompts
  <2> QED BY <1>1, <2>1
<1> QED BY <1>2, <1>3, <1>4, <1>5, <1>6

Cli == [at : {"menu", "prompts", "called"}, op : Calls \cup {"none"}, asked : 0 .. 6,
        given : {"right", "invalid", "unknown"}]

LEMMA AtMenuIsCli == AtMenu \in Cli /\ AtMenu.at = "menu"
BY DEF AtMenu, Cli

\* A step of others leaves the call of the terminal the one it waits for.
LEMMA TerminalWaits ==
  ASSUME TInv, UNCHANGED terminal, SameCall(frame["cli"], frame'["cli"])
  PROVE  TInv'
BY DEF TInv, TerminalTypes, Doomed, terminal, SameCall

LEMMA TakeFacts ==
  ASSUME TInv, Asks, NEW value, Take(value)
  PROVE  /\ cli' \in Cli /\ cli'.at \in {"menu", "prompts"}
         /\ cli'.at = "prompts" => cli'.op = cli.op
         /\ value = "empty" /\ cli'.at = "prompts" => Doomed'
<1>0. cli \in Cli /\ cli.at = "prompts" /\ cli.asked < Len(Prompts(cli.op)) /\ cli.asked \in Nat
  BY DEF TInv, TerminalTypes, Cli, Asks
<1>1. /\ Len(Prompts(cli.op)) \in 0 .. 6
      /\ cli.asked + 1 \in 1 .. Len(Prompts(cli.op))
  BY <1>0, PromptFacts
<1>2. /\ Asked = "text" => cli.op \in Validated
      /\ Asked = "any" => cli.op = "publish" /\ cli.asked + 1 = 3
  BY <1>0, <1>1, PromptFacts DEF Asked
<1>3. cli.asked + 1 \in 0 .. 6
  <2>1. \A n \in 0 .. 6 : \A i \in 1 .. n : i \in 0 .. 6
    OBVIOUS
  <2> QED BY <1>1, <2>1
<1>4. CASE cli' = AtMenu
  BY <1>4, AtMenuIsCli
<1>5. CASE (value = "good" \/ Asked = "any") /\ cli' = [cli EXCEPT !.asked = @ + 1]
  <2>1. cli' \in Cli /\ cli'.at = "prompts" /\ cli'.op = cli.op /\ cli'.asked = cli.asked + 1
    BY <1>0, <1>3, <1>5 DEF Cli
  <2> QED BY <1>2, <1>5, <2>1 DEF Doomed
<1>6. CASE value = "zero" /\ cli' = [cli EXCEPT !.asked = @ + 1, !.given = IF @ = "right" THEN "unknown" ELSE @]
  BY <1>0, <1>3, <1>6 DEF Cli
<1>7. CASE /\ (value # "good" /\ Asked = "text") \/ (value = "zero" /\ Asked = "number")
           /\ cli' = [cli EXCEPT !.asked = @ + 1, !.given = "invalid"]
  <2>1. cli' \in Cli /\ cli'.at = "prompts" /\ cli'.op = cli.op /\ cli'.given = "invalid"
    BY <1>0, <1>3, <1>7 DEF Cli
  <2> QED BY <1>2, <1>7, <2>1 DEF Doomed
<1> QED BY <1>4, <1>5, <1>6, <1>7 DEF Take

LEMMA TerminalKeeps ==
  ASSUME SInv, TInv, Terminals, UNCHANGED webServer
  PROVE  SInv' /\ TInv' /\ UNCHANGED <<today, account, had>> /\ frame'["web"] = frame["web"]
<1> USE DEF data, process
<1>0. /\ cli \in Cli /\ running \in BOOLEAN /\ ended \in BOOLEAN /\ current \in Signed \cup {Nobody}
      /\ "cli" \in Processes /\ "web" \in Processes /\ frame["cli"] \in Frame
      /\ frame \in [Processes -> Frame] /\ Sound(frame["cli"], account, had)
      /\ had \in [Users -> SUBSET Account]
  BY DEF SInv, ServicesTypes, TInv, TerminalTypes, Cli, Processes
<1>1. ASSUME UNCHANGED services, cli' \in Cli, cli'.at \in {"menu", "prompts"}, frame["cli"].at = "idle",
             running' \in BOOLEAN, ended' \in BOOLEAN, current' \in Signed \cup {Nobody},
             cli'.at = "prompts" => cli'.op \in Calls,
             ended' /\ cli'.at = "prompts" => Doomed'
      PROVE  SInv' /\ TInv' /\ UNCHANGED <<today, account, had>> /\ frame'["web"] = frame["web"]
  <2>1. SInv' /\ UNCHANGED <<today, account, had, frame>>
    BY <1>1, IdleKeeps
  <2>2. TInv'
    BY <1>1, <2>1 DEF TInv, TerminalTypes, Cli
  <2> QED BY <2>1, <2>2
<1>2. ASSUME NEW op \in Menu, Pick(op) PROVE SInv' /\ TInv' /\ UNCHANGED <<today, account, had>> /\ frame'["web"] = frame["web"]
  <2>1. op \in Calls /\ ended = FALSE /\ frame["cli"].at = "idle" /\ UNCHANGED <<services, running, ended, current>>
    BY <1>0, <1>2 DEF Pick, Menu, Guest, Member, Calls, Vetted, Writes, Lookups, TInv, Loops
  <2>2. cli' = [AtMenu EXCEPT !.at = "prompts", !.op = op]
    BY <1>2 DEF Pick
  <2>3. cli' \in Cli /\ cli'.at = "prompts" /\ cli'.op = op
    <3>1. cli' = [at |-> "prompts", op |-> op, asked |-> 0, given |-> "right"]
      BY <2>2 DEF AtMenu
    <3> QED BY <2>1, <3>1 DEF Cli
  <2> QED BY <1>0, <1>1, <2>1, <2>3
<1>3. CASE Logout \/ Leave \/ EndAtMenu
  <2>1. /\ cli.at = "menu" /\ frame["cli"].at = "idle" /\ UNCHANGED <<services, cli>>
        /\ running' \in BOOLEAN /\ ended' \in BOOLEAN /\ current' \in Signed \cup {Nobody}
    BY <1>0, <1>3 DEF Logout, Leave, EndAtMenu, Loops, TInv
  <2> QED BY <1>0, <1>1, <2>1
<1>4. CASE ReadLine
  <2>1. PICK value \in {"good", "empty", "zero"} : Take(value)
    BY <1>4 DEF ReadLine
  <2>2. /\ Asks /\ cli.at = "prompts" /\ frame["cli"].at = "idle" /\ ended = FALSE
        /\ UNCHANGED <<services, running, ended, current>> /\ cli.op \in Calls
    BY <1>0, <1>4 DEF ReadLine, Asks, TInv
  <2> QED BY <1>0, <1>1, <2>1, <2>2, TakeFacts
<1>5. CASE ReadEnd
  <2>1. /\ Asks /\ cli.at = "prompts" /\ frame["cli"].at = "idle" /\ Take("empty")
        /\ UNCHANGED <<services, current>> /\ cli.op \in Calls /\ running' \in BOOLEAN /\ ended' \in BOOLEAN
    BY <1>0, <1>5 DEF ReadEnd, Asks, TInv
  <2> QED BY <1>0, <1>1, <2>1, TakeFacts
<1>6. CASE Invoke
  <2>1. /\ phase["cli"] = "running" /\ cli.at = "prompts" /\ cli.op \in Calls
        /\ cli' = [cli EXCEPT !.at = "called"]
        /\ UNCHANGED <<data, holder, process, running, ended, current>>
    BY <1>6 DEF Invoke, TInv
  <2>2. PICK user \in Who : Call("cli", cli.op, user, cli.given)
    BY <1>0, <1>6 DEF Invoke, Who, Signed, Nobody
  <2>3. cli.given \in {"right", "invalid", "unknown"}
    BY <1>0 DEF Cli
  <2>4. /\ SInv' /\ UNCHANGED <<today, account, had>> /\ frame'["web"] = frame["web"]
        /\ frame'["cli"].at = "begin" /\ frame'["cli"].op = cli.op /\ frame'["cli"].given = cli.given
    BY <1>0, <2>1, <2>2, <2>3, CallKeeps
  <2>5. cli' \in Cli /\ cli'.at = "called" /\ cli'.op = cli.op /\ cli'.given = cli.given
    BY <1>0, <2>1 DEF Cli
  <2>6. ended => cli.given = "invalid" /\ cli.op \in Validated
    <3>1. cli.asked = Len(Prompts(cli.op)) /\ (ended => Doomed)
      BY <1>6, <2>1 DEF Invoke, TInv
    <3> QED BY <3>1, PromptFacts DEF Doomed
  <2>7. TInv'
    BY <1>0, <2>1, <2>4, <2>5, <2>6 DEF TInv, TerminalTypes, Cli, Doomed
  <2> QED BY <2>4, <2>7
<1>7. CASE Shows
  <2>1. /\ frame["cli"].at = "done" /\ frame' = [frame EXCEPT !["cli"] = NoCall] /\ cli' = AtMenu
        /\ UNCHANGED <<data, holder, process, running, ended>>
    BY <1>7 DEF Shows
  <2>2. SInv' /\ UNCHANGED <<today, account, had>>
    BY <1>0, <2>1, ClearKeeps
  <2>3. current' \in Signed \cup {Nobody}
    <3>1. cli.op = frame["cli"].op
      BY <2>1 DEF TInv
    <3>2. CASE cli.op = "login" /\ frame["cli"].result = "ok"
      BY <1>0, <1>7, <2>1, <3>1, <3>2 DEF Shows, Signed, Sound
    <3>3. CASE ~(cli.op = "login" /\ frame["cli"].result = "ok")
      BY <1>0, <1>7, <3>3 DEF Shows
    <3> QED BY <3>2, <3>3
  <2>4. frame'["cli"].at = "idle" /\ frame'["web"] = frame["web"]
    BY <1>0, <2>1, NoCallSound
  <2> QED BY <1>0, <2>1, <2>2, <2>3, <2>4, AtMenuIsCli DEF TInv, TerminalTypes, Cli
<1>8. CASE Quit
  <2>1. Ends("cli") /\ cli' = AtMenu /\ running' = TRUE /\ ended' = FALSE /\ current' = Nobody
    BY <1>8 DEF Quit, Returns
  <2>2. SInv' /\ UNCHANGED <<today, account, had>> /\ frame' = [frame EXCEPT !["cli"] = NoCall]
    BY <1>0, <2>1, EndsKeeps
  <2>3. frame'["cli"].at = "idle" /\ frame'["web"] = frame["web"]
    BY <1>0, <2>2, NoCallSound
  <2> QED BY <2>1, <2>2, <2>3, AtMenuIsCli DEF TInv, TerminalTypes, Cli
<1> QED BY <1>2, <1>3, <1>4, <1>5, <1>6, <1>7, <1>8 DEF Terminals, Typing, Working
-----------------------------------------------------------------------------
(* The web server. *)

LEMMA Minimum ==
  ASSUME NEW S, S \subseteq Nat, S # {}
  PROVE  \E i \in S : \A j \in S : i =< j
<1> DEFINE Less == OpToRel(<, Nat)
<1>1. PICK i \in S : \A j \in S : ~(<<j, i>> \in Less)
  <2>1. IsWellFoundedOn(Less, Nat)
    BY NatLessThanWellFounded
  <2> HIDE DEF Less
  <2> QED BY <2>1, WFMin
<1>2. \A j \in Nat : j < i => <<j, i>> \in Less
  BY DEF OpToRel
<1> HIDE DEF Less
<1>3. \A j \in S : ~(j < i)
  BY <1>1, <1>2
<1> QED BY <1>3

LEMMA RoutesAreFor ==
  /\ DOMAIN Routes = 1 .. 13
  /\ \A i \in 1 .. 13 : Routes[i].op \in Ops \ {"none"}
<1>1. \A method, pattern, op : Route(method, pattern, op).op = op
  BY DEF Route
<1> QED BY <1>1 DEF Routes, Ops, Calls, Vetted, Writes, Lookups

\* Every request is for an operation there is.
LEMMA DispatchedTo ==
  ASSUME NEW method, NEW path
  PROVE  Dispatch(Routes, method, path) \in Ops \ {"none"}
<1> DEFINE fits == {i \in DOMAIN Routes : /\ Routes[i].method = method
                                         /\ MatchRoute(Routes[i].pattern, path)}
           first == FirstRoute(Routes, method, path)
<1>1. fits \subseteq 1 .. 13 /\ fits \subseteq Nat
  BY RoutesAreFor
<1>2. first \in {0} \cup (1 .. 13)
  <2>1. CASE fits = {}
    BY <2>1 DEF FirstRoute
  <2>2. CASE fits # {}
    <3>1. \E i \in fits : \A j \in fits : i =< j
      <4> HIDE DEF fits
      <4> QED BY <1>1, <2>2, Minimum
    <3>2. first = CHOOSE i \in fits : \A j \in fits : i =< j
      BY <2>2 DEF FirstRoute
    <3> HIDE DEF fits, first
    <3> QED BY <1>1, <3>1, <3>2
  <2> QED BY <2>1, <2>2
<1>3. first # 0 => Routes[first].op \in Ops \ {"none"}
  <2> HIDE DEF first
  <2> QED BY <1>2, RoutesAreFor
<1> QED BY <1>3 DEF Dispatch, Ops

\* A step of others leaves what the clients wait for, and every denial true.
LEMMA WebWaits ==
  ASSUME SInv, WInv, UNCHANGED webServer, Remembering, SameCall(frame["web"], frame'["web"])
  PROVE  WInv'
<1> USE DEF webServer
<1>1. \A u \in Users : had[u] \subseteq had'[u]
  BY DEF Remembering
<1>2. ASSUME NEW c \in Clients PROVE Justified(client[c], had)' /\ Waits(c)'
  <2>1. Justified(client[c], had) /\ Waits(c)
    BY DEF WInv
  <2>2. Justified(client[c], had')
    BY <1>1, <2>1 DEF Justified
  <2> QED BY <2>1, <2>2 DEF Justified, Waits, SameCall
<1>3. ASSUME NEW t \in DOMAIN sessions
      PROVE  sessions'[t].row \in had'[sessions'[t].user]
  <2>1. sessions[t].row \in had[sessions[t].user] /\ sessions[t].user \in Users
    BY DEF WInv, Signed
  <2> QED BY <1>1, <2>1
<1> QED BY <1>2, <1>3 DEF WInv

\* The session that a client's token stands for.
LEMMA SessionFacts ==
  ASSUME SInv, WInv, NEW c \in Clients
  PROVE  /\ SessionOf(c).user \in Who
         /\ SessionOf(c).user \in Users =>
              SessionOf(c).row \in Account /\ SessionOf(c).row \in had[SessionOf(c).user]
<1>1. had \in [Users -> SUBSET Account]
  BY DEF SInv, ServicesTypes
<1>2. CASE client[c].token \in DOMAIN sessions
  <2>1. SessionOf(c) = sessions[client[c].token] /\ SessionOf(c) \in Signed
    BY <1>2 DEF SessionOf, WInv
  <2> QED BY <1>1, <1>2, <2>1 DEF WInv, Signed, Who
<1>3. CASE client[c].token \notin DOMAIN sessions
  <2>1. SessionOf(c).user = "none"
    BY <1>3 DEF SessionOf
  <2> QED BY <2>1, Constants DEF Who
<1> QED BY <1>2, <1>3

LEMMA ClientFacts ==
  ASSUME WInv, NEW c \in Clients
  PROVE  /\ client[c] \in ClientState /\ client[c].request \in Requests
         /\ \A status \in Nat : /\ Answered(c, status) \in ClientState
                                 /\ Answered(c, status).at = "idle"
                                 /\ Answered(c, status).status = status
                                 /\ Answered(c, status).as = client[c].as
                                 /\ Answered(c, status).token = client[c].token
<1>1. client[c] \in ClientState
  BY DEF WInv
<1>2. NoRequest \in Requests /\ "none" \in Ops
  BY DEF Requests, Ops
<1> QED BY <1>1, <1>2 DEF ClientState, Answered

\* Only client c moves, and no other is waiting for a call.
LEMMA OneClientMoves ==
  ASSUME WInv, NEW c \in Clients, NEW k \in ClientState, client' = [client EXCEPT ![c] = k],
         UNCHANGED had, Justified(k, had), Fresh(k),
         issued' \in Nat, issued =< issued', k.token =< issued',
         sessions' \in [DOMAIN sessions' -> Signed], DOMAIN sessions' \subseteq 1 .. issued',
         \A t \in DOMAIN sessions' : sessions'[t].row \in had[sessions'[t].user],
         \A d \in Clients : Waits(d)'
  PROVE  WInv'
<1>1. client' \in [Clients -> ClientState] /\ client'[c] = k /\ \A d \in Clients \ {c} : client'[d] = client[d]
  BY DEF WInv
<1>2. ASSUME NEW d \in Clients
      PROVE  /\ client'[d].token =< issued' /\ Justified(client[d], had)'
             /\ Fresh(client'[d])
  <2>1. CASE d = c
    BY <1>1, <2>1 DEF Justified
  <2>2. CASE d # c
    <3>1. client'[d] = client[d] /\ client[d].token \in Nat /\ client[d].token =< issued
          /\ Justified(client[d], had) /\ Fresh(client[d])
      BY <1>1, <2>2 DEF WInv, ClientState
    <3> QED BY <3>1 DEF Justified, WInv
  <2> QED BY <2>1, <2>2
<1> QED BY <1>1, <1>2 DEF WInv

LEMMA SendKeeps ==
  ASSUME SInv, WInv, NEW c \in Clients, NEW r \in today.wanted[c], Send(c, r)
  PROVE  SInv' /\ WInv' /\ UNCHANGED <<today, account, had, frame>>
<1>1. SInv' /\ UNCHANGED <<today, account, had, frame>>
  BY IdleKeeps DEF Send
<1> DEFINE op == Dispatch(Routes, r.method, r.path)
           k == [at |-> "sent", request |-> r, op |-> op, as |-> "none", token |-> client[c].token,
                 status |-> 0, sent |-> client[c].sent + 1]
<1>2. r \in Requests
  BY DEF Requests, SInv, ServicesTypes
<1>3. /\ k \in ClientState /\ k.status = 0 /\ k.at = "sent" /\ k.op # "none" /\ k.token = client[c].token
  <2>1. op \in Ops \ {"none"}
    BY DispatchedTo
  <2>2. client[c].token \in Nat /\ client[c].sent \in Nat
    BY ClientFacts DEF ClientState
  <2> HIDE DEF op
  <2> QED BY <1>2, <2>1, <2>2 DEF ClientState, Who
<1>4. client' = [client EXCEPT ![c] = k]
  BY DEF Send
<1> HIDE DEF k
<1>5. \A d \in Clients : Waits(d)'
  BY <1>1, <1>3, <1>4 DEF WInv, Waits
<1>6. Justified(k, had)
  BY <1>3 DEF Justified
<1>7. UNCHANGED <<sessions, issued>> /\ issued \in Nat /\ k.token =< issued /\ Fresh(k)
  BY <1>3 DEF Send, WInv, Fresh
<1>8. WInv'
  BY <1>1, <1>3, <1>4, <1>5, <1>6, <1>7, OneClientMoves DEF WInv
<1> QED BY <1>1, <1>8

\* What a handler answers without a service, and to whom.
LEMMA AtOnceFacts ==
  ASSUME SInv, WInv, NEW c \in Clients
  PROVE  /\ AtOnce(c) \in {0, 200, 400, 401, 403, 404, 500}
         /\ AtOnce(c) = 401 => SessionOf(c).user = "none"
         /\ AtOnce(c) = 403 => SessionOf(c).user # "none" /\ SessionOf(c).row.role # "ADMIN"
         /\ AtOnce(c) = 0 => /\ client[c].op \notin {"static", "notFound", "me", "logout"}
                             /\ client[c].op \in NeedsBody => client[c].request.body # "none"
<1>1. /\ Denial(c) \in {0, 400, 401, 403}
      /\ Denial(c) = 401 => SessionOf(c).user = "none"
      /\ Denial(c) = 403 => SessionOf(c).user # "none" /\ SessionOf(c).row.role # "ADMIN"
      /\ Denial(c) = 0 => client[c].op \notin NeedsBody \/ client[c].request.body # "none"
  BY DEF Denial, AdminOnly, NeedsUser
<1>2. ServeStatic(client[c].request.path, Files, Dotted) \in {200, 400, 404, 500}
  BY DEF ServeStatic
<1>3. CASE client[c].op = "static"
  BY <1>2, <1>3 DEF AtOnce
<1>4. CASE client[c].op = "notFound"
  BY <1>4 DEF AtOnce
<1>5. CASE client[c].op \in {"logout", "me"}
  <2>1. AtOnce(c) = IF Denial(c) = 0 THEN 200 ELSE Denial(c)
    BY <1>5 DEF AtOnce
  <2> QED BY <1>1, <2>1
<1>6. CASE client[c].op \notin {"static", "notFound", "me", "logout"}
  <2>1. AtOnce(c) = Denial(c)
    BY <1>6 DEF AtOnce
  <2> QED BY <1>1, <1>6, <2>1
<1> QED BY <1>3, <1>4, <1>5, <1>6

LEMMA HandleKeeps ==
  ASSUME SInv, WInv, NEW c \in Clients, Handle(c)
  PROVE  SInv' /\ WInv' /\ UNCHANGED <<today, account, had, frame>>
<1>1. SInv' /\ UNCHANGED <<today, account, had, frame>>
  BY IdleKeeps DEF Handle
<1> DEFINE a == Answered(c, AtOnce(c))
           k == [a EXCEPT !.as = SessionOf(c).user]
<1>2. AtOnce(c) \in Nat
  BY AtOnceFacts
<1>3. /\ k \in ClientState /\ k.status = AtOnce(c) /\ k.at = "idle" /\ k.as = SessionOf(c).user
      /\ k.token = client[c].token
  <2>1. /\ a \in ClientState /\ a.at = "idle" /\ a.status = AtOnce(c)
        /\ a.token = client[c].token /\ SessionOf(c).user \in Who
    BY <1>2, ClientFacts, SessionFacts
  <2> HIDE DEF a
  <2> QED BY <2>1 DEF ClientState
<1>4. client' = [client EXCEPT ![c] = k]
  BY DEF Handle
<1> HIDE DEF k
<1>5. \A d \in Clients : Waits(d)'
  BY <1>1, <1>3, <1>4 DEF WInv, Waits
<1>6. Justified(k, had)
  <2>1. ASSUME k.status = 401 PROVE k.as = "none"
    <3>1. AtOnce(c) = 401
      BY <1>3, <2>1
    <3> QED BY <1>3, <3>1, AtOnceFacts
  <2>2. k.status = 403 => k.as \in Users /\ \E row \in had[k.as] : row.role = "USER"
    <3> SUFFICES ASSUME k.status = 403
                 PROVE  k.as \in Users /\ \E row \in had[k.as] : row.role = "USER"
      OBVIOUS
    <3>1. SessionOf(c).user # "none" /\ SessionOf(c).row.role # "ADMIN" /\ k.as = SessionOf(c).user
      BY <1>3, AtOnceFacts
    <3> QED BY <3>1, SessionFacts DEF Who, Account
  <2> QED BY <2>1, <2>2, Constants DEF Justified
<1>7. UNCHANGED issued /\ issued \in Nat /\ k.token =< issued
  BY <1>3 DEF Handle, WInv
<1>8. /\ DOMAIN sessions' \subseteq DOMAIN sessions
      /\ sessions' \in [DOMAIN sessions' -> Signed]
      /\ \A t \in DOMAIN sessions' : sessions'[t] = sessions[t]
  BY DEF Handle, WInv
<1>9. /\ DOMAIN sessions' \subseteq 1 .. issued'
      /\ \A t \in DOMAIN sessions' : sessions'[t].row \in had[sessions'[t].user]
  BY <1>7, <1>8 DEF WInv
<1>10. Fresh(k)
  BY <1>3 DEF Fresh
<1>11. issued' \in Nat /\ issued =< issued' /\ k.token =< issued'
  BY <1>7
<1>12. WInv'
  BY <1>1, <1>3, <1>4, <1>5, <1>6, <1>8, <1>9, <1>10, <1>11, OneClientMoves
<1> QED BY <1>1, <1>12

LEMMA ForwardKeeps ==
  ASSUME SInv, WInv, NEW c \in Clients, Forward(c)
  PROVE  SInv' /\ WInv' /\ UNCHANGED <<today, account, had>> /\ frame'["cli"] = frame["cli"]
<1> DEFINE op == client[c].op
           r == client[c].request
           user == IF op = "login" THEN r.user ELSE SessionOf(c).user
           given == Given(r, op)
<1>1. /\ phase["web"] = "running" /\ frame["web"].at = "idle" /\ client[c].at = "sent" /\ AtOnce(c) = 0
      /\ Call("web", op, user, given)
      /\ client' = [client EXCEPT ![c].at = "called", ![c].as = user]
      /\ UNCHANGED <<data, holder, process, sessions, issued>>
  BY DEF Forward, Turn
<1>2. op \in Calls
  BY <1>1, AtOnceFacts, ClientFacts DEF WInv, Fresh, ClientState, Ops
<1>3. r.body \in {"right", "invalid", "unknown", "none"} /\ r.user \in Users \cup {"none"}
  <2>1. r \in Requests
    BY ClientFacts
  <2> QED BY <2>1, WebServerAssumption DEF Requests, NoRequest, WebServerAssumption
<1>4. user \in Who
  BY <1>3, SessionFacts DEF Who
<1>5. given \in {"right", "invalid", "unknown"}
  BY <1>1, <1>3, AtOnceFacts DEF Given
<1>6. "web" \in Processes /\ "cli" \in Processes \ {"web"}
  BY DEF Processes
<1> HIDE DEF op, user, given
<1>7. /\ SInv' /\ UNCHANGED <<today, account, had>> /\ frame'["cli"] = frame["cli"]
      /\ frame'["web"].at = "begin" /\ frame'["web"].user = user
  BY <1>1, <1>2, <1>4, <1>5, <1>6, CallKeeps
<1> DEFINE k == [client[c] EXCEPT !.at = "called", !.as = user]
<1>8. /\ k \in ClientState /\ k.at = "called" /\ k.as = user /\ k.token = client[c].token
      /\ k.status = client[c].status
  BY <1>4, ClientFacts DEF ClientState
<1>9. client' = [client EXCEPT ![c] = k]
  BY <1>1, ClientFacts DEF WInv, ClientState
<1> HIDE DEF k
<1>10. \A d \in Clients \ {c} : client[d].at # "called"
  BY <1>1 DEF WInv, Waits
<1>11. \A d \in Clients : Waits(d)'
  BY <1>7, <1>8, <1>9, <1>10 DEF WInv, Waits
<1>12. Justified(k, had) /\ Fresh(k)
  BY <1>1, <1>8 DEF WInv, Fresh, Justified
<1>13. WInv'
  BY <1>1, <1>7, <1>8, <1>9, <1>11, <1>12, OneClientMoves DEF WInv
<1> QED BY <1>7, <1>13

LEMMA ReplyKeeps ==
  ASSUME SInv, WInv, NEW c \in Clients, Reply(c)
  PROVE  SInv' /\ WInv' /\ UNCHANGED <<today, account, had>> /\ frame'["cli"] = frame["cli"]
<1> DEFINE f == frame["web"]
           status == Status(f.op, f.result)
           token == IF Enters(f) THEN issued' ELSE client[c].token
           a == Answered(c, status)
           k == [a EXCEPT !.token = token]
<1>0. /\ "web" \in Processes /\ "cli" \in Processes /\ frame \in [Processes -> Frame] /\ f \in Frame
      /\ Sound(f, account, had) /\ had \in [Users -> SUBSET Account]
  BY DEF SInv, ServicesTypes, Processes
<1>1. /\ client[c].at = "called" /\ f.at = "done" /\ frame' = [frame EXCEPT !["web"] = NoCall]
      /\ issued' = (IF Enters(f) THEN issued + 1 ELSE issued)
      /\ UNCHANGED <<data, holder, process>>
  BY DEF Reply
<1>2. SInv' /\ UNCHANGED <<today, account, had>> /\ frame'["web"] = NoCall /\ frame'["cli"] = frame["cli"]
  <2> HIDE DEF f
  <2> QED BY <1>0, <1>1, ClearKeeps DEF f, Processes
<1>3. f.result \in Results \ {"none"}
  BY <1>0, <1>1 DEF Sound, Frame
<1>4. /\ status \in {200, 201, 400, 401, 403, 404, 409, 500}
      /\ status = 401 => f.result \in {"credentials", "disabled"}
      /\ status = 403 => f.result = "forbidden"
  BY <1>3 DEF Status, Results
<1>5. /\ issued' \in Nat /\ issued =< issued' /\ token \in Nat /\ token =< issued'
      /\ client[c] \in ClientState
  BY <1>1, ClientFacts DEF WInv, ClientState
<1> HIDE DEF status
<1>6. /\ a \in ClientState /\ a.at = "idle" /\ a.status = status /\ a.as = client[c].as
      /\ a.token = client[c].token
  BY <1>4, ClientFacts
<1>7. client[c].as = f.user /\ \A d \in Clients \ {c} : client[d].at # "called"
  BY <1>1 DEF WInv, Waits
<1>8. client' = [client EXCEPT ![c] = k]
  <2>1. client' = [client EXCEPT ![c] = [a EXCEPT !.token = IF Enters(f) THEN issued' ELSE a.token]]
    BY DEF Reply, status
  <2> HIDE DEF a
  <2> QED BY <1>6, <2>1
<1> HIDE DEF a, token
<1>9. k \in ClientState /\ k.at = "idle" /\ k.status = status /\ k.as = f.user /\ k.token = token
  BY <1>5, <1>6, <1>7 DEF ClientState
<1> HIDE DEF k
<1>10. Justified(k, had)
  <2>2. Grounded(f.result, f.user, had)
    BY <1>0, <1>1 DEF Sound
  <2>3. CASE status = 401
    BY <1>4, <1>9, <2>2, <2>3 DEF Grounded, Justified
  <2>4. CASE status = 403
    BY <1>4, <1>9, <2>2, <2>4 DEF Grounded, Justified
  <2> QED BY <1>9, <2>3, <2>4 DEF Justified
<1>11. /\ sessions' \in [DOMAIN sessions' -> Signed] /\ DOMAIN sessions' \subseteq 1 .. issued'
       /\ \A t \in DOMAIN sessions' : sessions'[t].row \in had[sessions'[t].user]
  <2>0. /\ sessions \in [DOMAIN sessions -> Signed] /\ DOMAIN sessions \subseteq 1 .. issued
        /\ \A t \in DOMAIN sessions : sessions[t].row \in had[sessions[t].user]
        /\ issued \in Nat
    BY DEF WInv
  <2>1. CASE Enters(f)
    <3> DEFINE new == [user |-> f.user, row |-> f.row]
    <3>1. f.user \in Users /\ f.row \in Account /\ f.row \in had[f.user]
      BY <1>0, <1>1, <2>1 DEF Enters, Sound
    <3>2. new \in Signed /\ new.row \in had[new.user]
      BY <3>1 DEF Signed
    <3>3. /\ issued' = issued + 1 /\ DOMAIN sessions' = DOMAIN sessions \cup {issued'}
          /\ sessions' = [t \in DOMAIN sessions \cup {issued'} |-> IF t = issued' THEN new ELSE sessions[t]]
      BY <1>1, <2>1 DEF Reply
    <3> HIDE DEF new
    <3>4. \A t \in DOMAIN sessions' : /\ sessions'[t] \in Signed
                                     /\ sessions'[t].row \in had[sessions'[t].user]
      BY <2>0, <3>2, <3>3
    <3>5. DOMAIN sessions' \subseteq 1 .. issued'
      BY <2>0, <3>3
    <3> QED BY <3>3, <3>4, <3>5
  <2>2. CASE ~Enters(f)
    <3>1. sessions' = sessions /\ issued' = issued
      BY <1>1, <2>2 DEF Reply
    <3> QED BY <2>0, <3>1
  <2> QED BY <2>1, <2>2
<1>12. \A d \in Clients : client'[d].at # "called"
  BY <1>7, <1>8, <1>9 DEF WInv
<1>13. \A d \in Clients : Waits(d)'
  BY <1>12 DEF Waits
<1>14. Fresh(k) /\ k.token =< issued'
  BY <1>5, <1>9 DEF Fresh
<1>15. WInv'
  BY <1>2, <1>5, <1>8, <1>9, <1>10, <1>11, <1>13, <1>14, OneClientMoves
<1> QED BY <1>2, <1>15

LEMMA HangupKeeps ==
  ASSUME SInv, WInv, Hangup
  PROVE  SInv' /\ WInv' /\ UNCHANGED <<today, account, had>> /\ frame'["cli"] = frame["cli"]
<1>0. "web" \in Processes /\ "cli" \in Processes /\ frame \in [Processes -> Frame]
  BY DEF SInv, ServicesTypes, Processes
<1>1. SInv' /\ UNCHANGED <<today, account, had>> /\ frame' = [frame EXCEPT !["web"] = NoCall]
  BY <1>0, EndsKeeps DEF Hangup
<1>2. /\ client' = [d \in Clients |-> IF client[d].at = "idle" THEN client[d] ELSE Answered(d, 0)]
      /\ sessions' = [t \in {} |-> "none"] /\ issued' = issued
  BY DEF Hangup
<1>3. ASSUME NEW d \in Clients
      PROVE  /\ client'[d] \in ClientState /\ client'[d].at = "idle"
             /\ client'[d].token =< issued' /\ Justified(client'[d], had)
  <2>1. CASE client[d].at = "idle"
    BY <1>2, <2>1 DEF WInv
  <2>2. CASE client[d].at # "idle"
    <3>1. /\ client'[d] = Answered(d, 0) /\ Answered(d, 0) \in ClientState /\ Answered(d, 0).at = "idle"
          /\ Answered(d, 0).status = 0 /\ Answered(d, 0).token = client[d].token
      BY <1>2, <2>2, ClientFacts
    <3> QED BY <1>2, <3>1 DEF WInv, Justified
  <2> QED BY <2>1, <2>2
<1>4. ASSUME NEW d \in Clients
      PROVE  Justified(client[d], had)' /\ Waits(d)' /\ Fresh(client'[d])
  BY <1>1, <1>3 DEF Justified, Waits, Fresh
<1>5. DOMAIN sessions' = {} /\ sessions' \in [DOMAIN sessions' -> Signed] /\ issued' \in Nat
  BY <1>2 DEF WInv
<1>6. client' \in [Clients -> ClientState]
  BY <1>2, <1>3
<1>7. WInv'
  BY <1>3, <1>4, <1>5, <1>6 DEF WInv
<1> QED BY <1>0, <1>1, <1>7
-----------------------------------------------------------------------------
(* The theorems. *)

LEMMA NextKeeps == IInv /\ [Next]_vars => IInv'
<1> SUFFICES ASSUME IInv, [Next]_vars PROVE IInv'
  OBVIOUS
<1> USE DEF IInv
<1>0. "web" \in Processes /\ "cli" \in Processes /\ account \in [Users -> Account]
  BY DEF SInv, ServicesTypes, Processes
<1>1. UNCHANGED had => Remembering
  BY NothingForgotten
<1>2. \A p \in Processes : frame'[p] = frame[p] => SameCall(frame[p], frame'[p])
  BY DEF SameCall
<1>3. CASE Shared /\ UNCHANGED <<terminal, webServer>>
  BY <1>0, <1>3, SharedKeeps, TerminalWaits, WebWaits
<1>4. CASE Terminals /\ UNCHANGED webServer
  BY <1>0, <1>1, <1>2, <1>4, TerminalKeeps, WebWaits
<1>5. CASE Web /\ UNCHANGED terminal
  <2>1. SInv' /\ WInv' /\ frame'["cli"] = frame["cli"]
    BY <1>5, SendKeeps, HandleKeeps, ForwardKeeps, ReplyKeeps DEF Web
  <2> QED BY <1>0, <1>2, <1>5, <2>1, TerminalWaits
<1>6. CASE Crash("cli")
  <2>1. Ends("cli") /\ cli' = AtMenu /\ running' = TRUE /\ ended' = FALSE /\ current' = Nobody
        /\ UNCHANGED webServer
    BY <1>6 DEF Crash, Returns
  <2>2. SInv' /\ UNCHANGED had /\ frame' = [frame EXCEPT !["cli"] = NoCall]
    BY <1>0, <2>1, EndsKeeps
  <2>3. frame'["cli"].at = "idle" /\ frame'["web"] = frame["web"]
    BY <1>0, <2>2, NoCallSound DEF SInv, ServicesTypes
  <2>4. TInv'
    BY <2>1, <2>3, AtMenuIsCli DEF TInv, TerminalTypes, Cli
  <2> QED BY <1>0, <1>1, <1>2, <2>1, <2>2, <2>3, <2>4, WebWaits
<1>7. CASE Crash("web")
  <2>1. Hangup /\ UNCHANGED terminal
    BY <1>7 DEF Crash
  <2> QED BY <1>0, <1>2, <2>1, HangupKeeps, TerminalWaits
<1>8. CASE UNCHANGED vars
  <2>1. SInv' /\ UNCHANGED <<had, frame>>
    BY <1>8, IdleKeeps DEF vars
  <2> QED BY <1>0, <1>1, <1>2, <1>8, <2>1, TerminalWaits, WebWaits DEF vars
<1> QED BY <1>3, <1>4, <1>5, <1>6, <1>7, <1>8 DEF Next, Processes

LEMMA Inductive == Spec => []IInv
BY InitIInv, NextKeeps, PTL DEF Spec

\* Every variable stays in its type.
THEOREM CampusTypes == Spec => []TypeOK
<1>1. IInv => TypeOK
  <2> SUFFICES ASSUME IInv PROVE TypeOK
    OBVIOUS
  <2>1. ASSUME NEW c \in Clients
        PROVE  /\ client[c].at \in {"idle", "sent", "called"}
               /\ client[c].token \in 0 .. issued /\ client[c].as \in Who
    <3>1. client[c] \in ClientState /\ client[c].token =< issued /\ issued \in Nat
      BY DEF IInv, WInv
    <3> QED BY <3>1 DEF ClientState
  <2> QED BY <2>1 DEF IInv, SInv, ServicesTypes, Frame, TInv, TerminalTypes, WInv, TypeOK
<1> QED BY Inductive, <1>1, PTL

\* A call that comes to its work was permitted by a row its user had when it began
\* or after, whatever the session or the CLI still takes the user for.
THEOREM AuthorityAlwaysStands == Spec => []AuthorityStands
<1>1. IInv => AuthorityStands
  <2> SUFFICES ASSUME IInv, NEW p \in Processes, Proceeding(frame[p]) PROVE Permitted(frame[p])
    BY DEF AuthorityStands, Proceeding, Permitted
  <2> QED BY DEF IInv, SInv, Sound
<1> QED BY Inductive, <1>1, PTL

\* The row on sale is locked only while a sale is under way on a connection
\* that works, or for a process that has lost its own.
THEOREM NoLockAtPrompts == Spec => []PromptsHoldNothing
<1>1. IInv => PromptsHoldNothing
  BY DEF IInv, SInv, ServicesTypes, Placed, PromptsHoldNothing
<1> QED BY Inductive, <1>1, PTL

\* An operation of the CLI whose input ends writes nothing and succeeds in
\* nothing.
THEOREM EndOfInputIsQuiet == Spec => []QuietEnd
<1>1. IInv => QuietEnd
  <2> SUFFICES ASSUME IInv, ended, cli.at = "called"
               PROVE  frame["cli"].at \notin {"write", "update", "sell"} /\ frame["cli"].result # "ok"
    BY DEF QuietEnd
  <2>1. Sound(frame["cli"], account, had)
    BY DEF IInv, SInv, Processes
  <2>2. frame["cli"].op \in Validated /\ frame["cli"].given = "invalid"
    BY DEF IInv, TInv, Doomed
  <2> QED BY <2>1, <2>2 DEF Sound
<1> QED BY Inductive, <1>1, PTL

\* Whoever is answered 401 without having been disabled has no session or gave wrong
\* credentials, and whoever is answered 403 was no administrator at his login or
\* at some time since: nobody who was active and one all along is turned away.
THEOREM DenialsAreJustified == Spec => []DenialJustified
<1>1. IInv => DenialJustified
  BY DEF IInv, WInv, Justified, DenialJustified
<1> QED BY Inductive, <1>1, PTL

\* Both processes together sell as FlashSale does: between the UPDATE and the COMMIT
\* of a sale the row stays locked, so that what is committed is one unit less than
\* there was, sold to who had none; no other step and no fault sells anything.
THEOREM CampusSells == Spec => RefinesSale
<1>1. Init => Store!Init
  BY DEF Init, ServicesInit
<1>2. IInv /\ [Next]_vars => [Store!Next]_(Store!vars)
  <2> SUFFICES ASSUME IInv, [Next]_vars
               PROVE  \/ \E u \in Users : Store!Sell(u, Activity)
                      \/ UNCHANGED <<stock, sales>>
    BY DEF Store!Next, Store!vars
  <2> USE DEF data, process, services
  <2>1. ASSUME NEW p \in Processes, frame[p].at = "sell", Linked(p), Purchased(p)
        PROVE  \E u \in Users : Store!Sell(u, Activity)
    BY <2>1, PurchaseSells DEF IInv
  <2>2. ASSUME NEW p \in Processes, Booting(p) PROVE UNCHANGED <<stock, sales>>
    BY <2>2 DEF Booting, Start, Connect, Verify, StartFails, BindFails
  <2>3. ASSUME NEW p \in Processes, Step(p)
        PROVE  (\E u \in Users : Store!Sell(u, Activity)) \/ UNCHANGED <<stock, sales>>
    BY <2>1, <2>3 DEF Step, Reject, Refuse, Vet, Write, WriteRefused, Deduct, DeductNothing,
                      LockTimeout, Sell, SellRefused, Fail
  <2>4. CASE Environment
    BY <2>1, <2>4 DEF Environment, Reap, Alter, Disconnect, CommitLost
  <2>5. CASE Terminals
    BY <2>5 DEF Terminals, Typing, Working, Pick, Logout, Leave, EndAtMenu, ReadLine, ReadEnd,
                Invoke, Shows, Quit, Returns, Ends
  <2>6. CASE Web
    BY <2>6 DEF Web, Send, Handle, Forward, Reply
  <2>7. ASSUME NEW p \in Processes, Crash(p) PROVE UNCHANGED <<stock, sales>>
    BY <2>7 DEF Crash, Returns, Hangup, Ends
  <2>8. CASE UNCHANGED vars
    BY <2>8 DEF vars
  <2> QED BY <2>2, <2>3, <2>4, <2>5, <2>6, <2>7, <2>8 DEF Next, Shared
<1> QED BY Inductive, <1>1, <1>2, PTL DEF Spec, Store!Spec, RefinesSale
-----------------------------------------------------------------------------
FS == INSTANCE FlashSaleProofs WITH Activities <- {Activity},
                                    TotalStock <- [a \in {Activity} |-> Stock]

\* However the web and the terminal buy, crash and lose their connections, no
\* unit is oversold, nobody buys twice, and stock and sales add up.
THEOREM CampusSaleIsSound == Spec => [](FS!UnitsSold /\ FS!OneEach /\ FS!Conservation)
<1>1. FS!StockAssumption
  BY Constants DEF FS!StockAssumption
<1>2. Store!Spec => FS!Spec
  BY PTL DEF Store!Spec, FS!Spec, Store!Init, FS!Init, Store!Next, FS!Next, Store!vars, FS!vars,
             Store!Sell, FS!Sell, Store!Sold, FS!Sold
<1> QED
  BY <1>1, <1>2, CampusSells, FS!SaleIsSound, PTL DEF RefinesSale
=============================================================================
