-------------------------------- MODULE Campus --------------------------------
(***************************************************************************)
(* The deployed system: one web server process with its clients and one    *)
(* CLI process, on one database.  Both run the same services; each has one *)
(* thread and one MySQL connection.                                        *)
(***************************************************************************)
EXTENDS Terminal, WebServer

vars == <<services, terminal, webServer>>

Init == ServicesInit /\ TerminalInit /\ WebServerInit

Crash(p) == /\ phase[p] # "down" /\ faults < today.faults
            /\ faults' = faults + 1
            /\ IF p = "cli" THEN Returns /\ UNCHANGED webServer
                            ELSE Hangup /\ UNCHANGED terminal

Shared == \/ Environment
          \/ \E p \in Processes : Booting(p) \/ Step(p)

Terminals == Typing \/ Working

Web == \E c \in Clients : (\E r \in today.wanted[c] : Send(c, r)) \/ Handle(c) \/ Forward(c) \/ Reply(c)

Next == \/ Shared /\ UNCHANGED <<terminal, webServer>>
        \/ Terminals /\ UNCHANGED webServer
        \/ Web /\ UNCHANGED terminal
        \/ \E p \in Processes : Crash(p)

Spec == Init /\ [][Next]_vars

\* A statement that can be answered is, except that nothing says when a lock
\* is given up on: the threads run, and the server drops what dead clients leave.
Proceeds(p) == Step(p) /\ ~LockTimeout(p) /\ UNCHANGED <<terminal, webServer>>

LiveSpec ==
  /\ Spec
  /\ \A p \in Processes : WF_vars(Proceeds(p))
  /\ WF_vars(Reap /\ UNCHANGED <<terminal, webServer>>)
  /\ WF_vars(Working /\ UNCHANGED webServer)
  /\ \A c \in Clients : WF_vars((Handle(c) \/ Forward(c) \/ Reply(c)) /\ UNCHANGED terminal)
-----------------------------------------------------------------------------
Row == Account \cup {NoAccount}
Who == Users \cup {"none"}
Signed == [user : Users, row : Account]
Results == {"none", "ok", "invalid", "credentials", "disabled", "forbidden", "missing",
            "conflict", "failed"}

\* Every variable stays in its type.
TypeOK ==
  /\ account \in [Users -> Account] /\ had \in [Users -> SUBSET Account] /\ Store!TypeOK
  /\ made \subseteq [op : Writes, user : Who]
  /\ holder \in Processes \cup {"none"}
  /\ phase \in [Processes -> {"down", "configured", "connected", "running"}]
  /\ link \in [Processes -> {"down", "up", "lost", "silent"}]
  /\ frame \in [Processes -> [at : {"idle", "begin", "write", "update", "sell", "done"},
                              op : Calls \cup {"none"}, user : Who,
                              given : {"right", "invalid", "unknown"},
                              rights : SUBSET Account, row : Row, left : Nat,
                              result : Results]]
  /\ cli \in [at : {"menu", "prompts", "called"}, op : Calls \cup {"none"}, asked : 0 .. 6,
              given : {"right", "invalid", "unknown"}]
  /\ running \in BOOLEAN /\ ended \in BOOLEAN /\ current \in Signed \cup {Nobody}
  /\ \A c \in Clients : /\ client[c].at \in {"idle", "sent", "called"}
                        /\ client[c].token \in 0 .. issued /\ client[c].as \in Who
  /\ sessions \in [DOMAIN sessions -> Signed] /\ DOMAIN sessions \subseteq 1 .. issued

\* A call that comes to write, to sell or to answer what it was asked was
\* permitted by a row its user had after it began, although the sessions and the
\* CLI go on with the role and status of the login.
AuthorityStands ==
  \A p \in Processes :
    LET f == frame[p] IN
    (f.at \in {"write", "update", "sell"} \/ (f.at = "done" /\ f.result = "ok"))
      /\ f.op \in {"login", "publish", "purchase", "orders", "create", "summary"} =>
        \E row \in f.rights : /\ row.status = "ACTIVE"
                              /\ f.op \in {"create", "summary"} => row.role = "ADMIN"

\* An operation of the CLI in whose prompts the input ended does nothing: no
\* empty line of readLine is taken for an answer.
QuietEnd ==
  ended /\ cli.at = "called" =>
    frame["cli"].at \notin {"write", "update", "sell"} /\ frame["cli"].result # "ok"

\* A lock is held only by a sale under way, or for a process that has lost its
\* connection: never while a person types, nor while the loop polls.
PromptsHoldNothing ==
  holder # "none" => frame[holder].at = "sell" \/ link[holder] # "up"

\* Who is told 401 has no session, gave wrong credentials or was disabled; who is
\* told 403 was no administrator.  The row that says so may be that of the login:
\* a user who is given the role is told 403 until he logs in again, but nobody
\* who was an active administrator all along is turned away.
DenialJustified ==
  \A c \in Clients : client[c].status \in {401, 403} =>
    IF client[c].as \in Users
    THEN \E row \in had[client[c].as] :
           IF client[c].status = 401 THEN row.status = "DISABLED" ELSE row.role = "USER"
    ELSE client[c].status = 401

\* Both processes together sell as FlashSale does: what each commits was read
\* under a lock the other respects, wherever either is cut off.
RefinesSale == Store!Spec

\* Every request is answered in the end, unless the web server's connection
\* has fallen silent: a statement has no timeout, and one thread serves all.
Answers ==
  \A c \in Clients : client[c].at # "idle" ~> client[c].at = "idle" \/ link["web"] = "silent"

\* The CLI ends when its input does or Exit is picked, wherever that happens.
Exits ==
  phase["cli"] = "running" /\ (ended \/ ~running) ~>
    phase["cli"] = "down" \/ link["cli"] = "silent"
=============================================================================
