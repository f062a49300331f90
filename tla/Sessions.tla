------------------------------- MODULE Sessions -------------------------------
(***************************************************************************)
(* Accounts and sessions: AuthService over the users table, the session    *)
(* table of WebApp, and the page of web/app.js that keeps a token.         *)
(*                                                                         *)
(* The web process registers while another process (a CLI) may register    *)
(* the same name.  A page has several calls in flight; each carries the    *)
(* token the page had when it was sent, and the answers come back in any   *)
(* order.  Calls and answers may be lost, and the web process, with its    *)
(* sessions, restarts.  All tabs are of one browser and share its storage. *)
(***************************************************************************)
EXTENDS Integers, FiniteSets, Sequences, Functions

CONSTANTS Names, Passwords,
          Accounts,     \* the accounts there are at first
          Typed,        \* the names and passwords typed into pages,
          CliTyped,     \* and into the CLI
          Tabs,
          Ids,          \* calls that may be in flight at once
          MaxSequence   \* MaxSequence[r]: bound on the sessions of run r of the web process

Row == [name : Names, password : Passwords]
ASSUME SessionsAssumption ==
  /\ Accounts \cup Typed \cup CliTyped \subseteq Row
  /\ \A r, s \in Accounts : r.name = s.name => r = s
  /\ MaxSequence \in Seq(Nat \ {0}) /\ MaxSequence # <<>>
  /\ Ids \subseteq Nat \ {0}
  /\ "none" \notin Names /\ "gone" \notin Tabs

NoToken == [run |-> 0, seq |-> 0]
Runs == DOMAIN MaxSequence
Token == {NoToken} \cup UNION {[run : {r}, seq : 0 .. MaxSequence[r] - 1] : r \in Runs}
NoRow == [name |-> "none", password |-> "none"]
NoAnswer == [code |-> "none", user |-> "none", token |-> NoToken]
NoCall == [at |-> "free", tab |-> "gone", kind |-> "none", token |-> NoToken,
           row |-> NoRow, answer |-> NoAnswer]
NoFrame == [at |-> "idle", id |-> 0, row |-> NoRow]
SignedOut == [token |-> NoToken, user |-> "none"]

VARIABLES
  users,          \* rows of the users table
  run, sequence,  \* run of the web process, and its count of sessions
  sessions,       \* sessions_: the user of a token
  frame,          \* frame[p]: the registration process p is at
  calls,          \* calls[i]: a call of a page, from sending to handling its answer
  page,           \* page[t]: state of the page in tab t
  storage         \* localStorage of the browser

server == <<users, run, sequence, sessions, frame>>
browser == <<page, storage>>
vars == <<server, calls, browser>>

\* A page as it is loaded: shown is the user of its last renderSession, and
\* modal says that the login form may be open.
Loaded == [token |-> storage.token, user |-> storage.user, orders |-> "none",
           shown |-> "none", modal |-> TRUE, phase |-> "health"]

Init == /\ users = Accounts
        /\ run = 1 /\ sequence = 0 /\ sessions = <<>>
        /\ frame = [p \in {"web", "cli"} |-> NoFrame]
        /\ calls = [i \in Ids |-> NoCall]
        /\ storage = SignedOut
        /\ page = [t \in Tabs |-> Loaded]
-----------------------------------------------------------------------------
(* The page. *)

\* api(): the token goes with the call as it is now.
Send(t, kind, row) ==
  \E i \in Ids : /\ calls[i].at = "free" /\ \A j \in Ids : calls[j].at = "free" => i =< j
                 /\ calls' = [calls EXCEPT ![i] =
                      [NoCall EXCEPT !.at = "sent", !.tab = t, !.kind = kind,
                                     !.token = page[t].token, !.row = row]]

\* The page is loaded anew; nobody waits for the answers to its calls.
Load(t) == /\ page' = [page EXCEPT ![t] = Loaded]
           /\ calls' = [i \in Ids |-> IF calls[i].tab # t THEN calls[i]
                                      ELSE IF calls[i].at = "answered" THEN NoCall
                                      ELSE [calls[i] EXCEPT !.tab = "gone"]]
           /\ UNCHANGED <<server, storage>>

\* init(): after checkHealth, restoreSession asks who the token belongs to.
Restore(t) ==
  /\ page[t].phase = "health" /\ page[t].token # NoToken
  /\ Send(t, "me", NoRow)
  /\ page' = [page EXCEPT ![t].phase = "restoring"]
  /\ UNCHANGED <<server, storage>>

RestoreNothing(t) ==
  /\ page[t].phase = "health" /\ page[t].token = NoToken
  /\ page' = [page EXCEPT ![t].phase = "ready", ![t].shown = page[t].user]
  /\ UNCHANGED <<server, calls, storage>>

Submit(t) ==
  /\ page[t].modal
  /\ \E kind \in {"login", "register"}, r \in Typed : Send(t, kind, r)
  /\ UNCHANGED <<server, browser>>

ClickLogout(t) ==
  /\ page[t].shown # "none"
  /\ Send(t, "logout", NoRow)
  /\ UNCHANGED <<server, browser>>

LoadOrders(t) ==
  /\ page[t].user # "none"
  /\ Send(t, "orders", NoRow)
  /\ UNCHANGED <<server, browser>>

Handled(i) == calls' = [calls EXCEPT ![i] = NoCall]

\* Answers after which clearSession() is called.
Clears(t, c) == \/ c.kind = "logout"
                \/ c.kind = "me" /\ c.answer.code # "ok"
                \/ c.answer.code = "unauthorized" /\ page[t].token # NoToken

\* init() renders the page when restoreSession is over.
Phase(t, c) == IF c.kind = "me" THEN "ready" ELSE page[t].phase

ClearSession(t, i) ==
  /\ calls[i].at = "answered" /\ calls[i].tab = t /\ Clears(t, calls[i])
  /\ page' = [page EXCEPT ![t] = [@ EXCEPT !.token = NoToken, !.user = "none", !.orders = "none",
                                           !.shown = "none", !.modal = TRUE,
                                           !.phase = Phase(t, calls[i])]]
  /\ storage' = SignedOut
  /\ Handled(i) /\ UNCHANGED server

SaveSession(t, i) ==
  LET a == calls[i].answer IN
  /\ calls[i].at = "answered" /\ calls[i].tab = t
  /\ calls[i].kind \in {"login", "register"} /\ a.code = "ok"
  /\ page' = [page EXCEPT ![t] = [@ EXCEPT !.token = a.token, !.user = a.user,
                                           !.shown = a.user, !.modal = FALSE]]
  /\ storage' = [token |-> a.token, user |-> a.user]
  /\ Handled(i) /\ UNCHANGED server

SaveUser(t, i) ==
  LET a == calls[i].answer IN
  /\ calls[i].at = "answered" /\ calls[i].tab = t
  /\ calls[i].kind = "me" /\ a.code = "ok"
  /\ page' = [page EXCEPT ![t] = [@ EXCEPT !.user = a.user, !.shown = a.user, !.phase = "ready"]]
  /\ storage' = [storage EXCEPT !.user = a.user]
  /\ Handled(i) /\ UNCHANGED server

SaveOrders(t, i) ==
  /\ calls[i].at = "answered" /\ calls[i].tab = t
  /\ calls[i].kind = "orders" /\ calls[i].answer.code = "ok"
  /\ page' = [page EXCEPT ![t].orders = calls[i].answer.user]
  /\ Handled(i) /\ UNCHANGED <<server, storage>>

\* The error is shown in a toast, nothing else changes.
ShowError(t, i) ==
  /\ calls[i].at = "answered" /\ calls[i].tab = t
  /\ calls[i].answer.code # "ok" /\ ~Clears(t, calls[i])
  /\ Handled(i) /\ UNCHANGED <<server, browser>>

Page(t) == \/ Restore(t) \/ RestoreNothing(t)
           \/ \E i \in Ids : \/ ClearSession(t, i) \/ SaveSession(t, i) \/ SaveUser(t, i)
                             \/ SaveOrders(t, i) \/ ShowError(t, i)
-----------------------------------------------------------------------------
(* The web process and the CLI. *)

Waits(i, kind) == calls[i].at = "sent" /\ calls[i].kind = kind /\ frame["web"].at = "idle"

Answer(i, code, user, token) ==
  calls' = [calls EXCEPT ![i] = IF @.tab = "gone" THEN NoCall ELSE
              [@ EXCEPT !.at = "answered",
                        !.answer = [code |-> code, user |-> user, token |-> token]]]

\* Mutant of NewToken: a token is the count alone, which every run starts at 0.
NewTokenOfSequence == [run |-> 1, seq |-> sequence]

\* clock, random number and count of createSession: no run repeats those of another.
NewToken == [run |-> run, seq |-> sequence]

\* Mutant of CreateSession: the sequence is read and not advanced.
CreateSessionUncounted(i, user) ==
  /\ sequence < MaxSequence[run]
  /\ sessions' = [k \in DOMAIN sessions \cup {NewToken} |->
                    IF k = NewToken THEN user ELSE sessions[k]]
  /\ Answer(i, "ok", user, NewToken)
  /\ UNCHANGED sequence

CreateSession(i, user) ==
  /\ sequence < MaxSequence[run]
  /\ sessions' = [k \in DOMAIN sessions \cup {NewToken} |->
                    IF k = NewToken THEN user ELSE sessions[k]]
  /\ Answer(i, "ok", user, NewToken)
  /\ sequence' = sequence + 1

\* AuthService::login reads one row of the name and compares the passwords.
Login(i, row) ==
  \/ \E r \in users : r.name = row.name /\ r.password = row.password /\ CreateSession(i, r.name)
  \/ /\ \E r \in users : r.name = row.name /\ r.password # row.password
     /\ Answer(i, "unauthorized", "none", NoToken)
     /\ UNCHANGED <<sessions, sequence>>
  \/ /\ \A r \in users : r.name # row.name
     /\ Answer(i, "unauthorized", "none", NoToken)
     /\ UNCHANGED <<sessions, sequence>>

HandleLogin(i) == /\ Waits(i, "login")
                  /\ Login(i, calls[i].row)
                  /\ UNCHANGED <<users, run, frame, browser>>

HandleLogout(i) == /\ Waits(i, "logout")
                   /\ sessions' = Restrict(sessions, DOMAIN sessions \ {calls[i].token})
                   /\ Answer(i, "ok", "none", NoToken)
                   /\ UNCHANGED <<users, run, sequence, frame, browser>>

\* requireUser of me() and listOrders(): the answer is that user's, or 401.
HandleUser(i) ==
  LET k == calls[i].token IN
  /\ Waits(i, "me") \/ Waits(i, "orders")
  /\ IF k \in DOMAIN sessions THEN Answer(i, "ok", sessions[k], NoToken)
     ELSE Answer(i, "unauthorized", "none", NoToken)
  /\ UNCHANGED <<server, browser>>

\* registerUser looks for the name first; then it is at its INSERT.
Known(row) == \E r \in users : r.name = row.name
Inserts(p, i, row) == frame' = [frame EXCEPT ![p] = [at |-> "insert", id |-> i, row |-> row]]

HandleRegister(i) ==
  /\ Waits(i, "register")
  /\ IF Known(calls[i].row)
     THEN Answer(i, "taken", "none", NoToken) /\ UNCHANGED frame
     ELSE Inserts("web", i, calls[i].row) /\ UNCHANGED calls
  /\ UNCHANGED <<users, run, sequence, sessions, browser>>

CliRegister ==
  /\ frame["cli"].at = "idle"
  /\ \E r \in CliTyped : ~Known(r) /\ Inserts("cli", 0, r)
  /\ UNCHANGED <<users, run, sequence, sessions, calls, browser>>

\* registerUser is over with an error: the web process answers it.
Refuse(p, code) ==
  /\ frame' = [frame EXCEPT ![p] = NoFrame]
  /\ IF p = "web" THEN Answer(frame[p].id, code, "none", NoToken) ELSE UNCHANGED calls

\* Mutant of KeyTaken: the table has no unique key.
KeyTakenNever(row) == FALSE

KeyTaken(row) == \E r \in users : r.name = row.name

\* The INSERT commits by itself (autocommit).
Insert(p) == /\ frame[p].at = "insert" /\ ~KeyTaken(frame[p].row)
             /\ users' = users \cup {frame[p].row}
             /\ IF p = "web" THEN frame' = [frame EXCEPT ![p].at = "login"]
                ELSE frame' = [frame EXCEPT ![p] = NoFrame]
             /\ UNCHANGED <<run, sequence, sessions, calls, browser>>

InsertRefused(p) == /\ frame[p].at = "insert" /\ KeyTaken(frame[p].row)
                    /\ Refuse(p, "taken")
                    /\ UNCHANGED <<users, run, sequence, sessions, browser>>

\* The web process logs the new user in.
LoginNew == /\ frame["web"].at = "login"
            /\ Login(frame["web"].id, frame["web"].row)
            /\ frame' = [frame EXCEPT !["web"] = NoFrame]
            /\ UNCHANGED <<users, run, browser>>

StatementFails(p) == /\ frame[p].at # "idle"
                     /\ Refuse(p, "failed")
                     /\ UNCHANGED <<users, run, sequence, sessions, browser>>

\* A statement of another handler fails, or the call or its answer is lost.
Lose(i) == /\ calls[i].at # "free" /\ calls[i].answer.code # "failed" /\ frame["web"].id # i
           /\ Answer(i, "failed", "none", NoToken)
           /\ UNCHANGED <<server, browser>>

\* The web process dies and is started again; the call it was at is lost.
Restart == /\ run + 1 \in Runs
           /\ run' = run + 1 /\ sequence' = 0 /\ sessions' = <<>>
           /\ frame' = [frame EXCEPT !["web"] = NoFrame]
           /\ IF frame["web"].at = "idle" THEN UNCHANGED calls
              ELSE Answer(frame["web"].id, "failed", "none", NoToken)
           /\ UNCHANGED <<users, browser>>

Handle(i) == HandleLogin(i) \/ HandleLogout(i) \/ HandleUser(i) \/ HandleRegister(i)
Register(p) == Insert(p) \/ InsertRefused(p) \/ StatementFails(p)

Next == \/ \E t \in Tabs : Load(t) \/ Submit(t) \/ ClickLogout(t) \/ LoadOrders(t) \/ Page(t)
        \/ \E i \in Ids : Handle(i) \/ Lose(i)
        \/ \E p \in {"web", "cli"} : Register(p)
        \/ LoginNew \/ CliRegister \/ Restart

Spec == Init /\ [][Next]_vars
-----------------------------------------------------------------------------
\* Every variable stays in its type, and a session has a token that its own
\* run of the web process counted.
TypeOK ==
  /\ users \subseteq Row
  /\ run \in Runs /\ sequence \in 0 .. MaxSequence[run]
  /\ sessions \in [DOMAIN sessions -> Names]
  /\ \A k \in DOMAIN sessions : k \in Token /\ k.run = run /\ k.seq < sequence
  /\ frame \in [{"web", "cli"} -> [at : {"idle", "insert", "login"}, id : Ids \cup {0},
                                   row : Row \cup {NoRow}]]
  /\ calls \in [Ids -> [at : {"free", "sent", "answered"}, tab : Tabs \cup {"gone"},
                        kind : {"none", "login", "register", "logout", "me", "orders"},
                        token : Token, row : Row \cup {NoRow},
                        answer : [code : {"none", "ok", "unauthorized", "taken", "failed"},
                                  user : Names \cup {"none"}, token : Token]]]
  /\ page \in [Tabs -> [token : Token, user : Names \cup {"none"}, orders : Names \cup {"none"},
                        shown : Names \cup {"none"}, modal : BOOLEAN,
                        phase : {"health", "restoring", "ready"}]]
  /\ storage \in [token : Token, user : Names \cup {"none"}]

\* However two processes race to register a name, it has one account.
OneAccountEach == \A r, s \in users : r.name = s.name => r = s

\* A registration that made its account is never answered that its own name
\* and password are wrong: the row it logs in with is the row it inserted.
RegisteredGetsIn ==
  \A i \in Ids : calls[i].kind = "register" => calls[i].answer.code # "unauthorized"

\* A token that was given out is never accepted again once it was logged out
\* or its process ended, and never for another user: pages keep stale tokens.
TokensNeverReturn ==
  [][\A k \in DOMAIN sessions' :
       k.run < run \/ (k.run = run /\ k.seq < sequence) =>
         k \in DOMAIN sessions /\ sessions'[k] = sessions[k]]_vars

\* Tokens of earlier runs, and those that this one gave out.
Spent == {k \in Token \ {NoToken} : k.run < run \/ (k.run = run /\ k.seq < sequence)}

Abstract == INSTANCE Logins WITH spent <- Spent

\* Accounts and sessions move only as Logins allows: wherever registrations,
\* logins, logouts and a restart cross, an account stays as it was made, a session
\* is of somebody registered, and a token is never in use twice.
RefinesLogins == Abstract!Spec

\* docs/web-interface.md:9 says that my orders shows the orders of the user who
\* is logged in: the orders a page is about to take are those of its user.
OrdersAreOwn ==
  \A t \in Tabs, i \in Ids :
    /\ calls[i].tab = t /\ calls[i].at = "answered"
    /\ calls[i].kind = "orders" /\ calls[i].answer.code = "ok"
    /\ page[t].user # "none"
    => calls[i].answer.user = page[t].user
===============================================================================
