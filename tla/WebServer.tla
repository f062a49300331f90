------------------------------ MODULE WebServer ------------------------------
(***************************************************************************)
(* WebApp on its HttpServer: the routes, the sessions, and the requests of *)
(* the clients.  The thread of the event loop runs a handler to its end    *)
(* before it takes another request, so a service call that does not come   *)
(* back stops all of them.  Reactor has the bytes; here a request is sent  *)
(* and answered as a whole.                                                *)
(***************************************************************************)
EXTENDS Services, Routing

CONSTANTS Clients,      \* clients, each with at most one request under way
          Files,        \* files that can be opened, by paths that are absolute or
                        \* relative to the static root
          Dotted        \* names with two dots in a row in them

\* The requests a client may send on a day, and how many.  A request has the
\* fields of its operation in its body, or no body that can be used ("none");
\* one of them may be invalid or name a row that is not there.
ASSUME WebServerAssumption ==
  \A day \in Days : day.requests \in Nat /\ \A c \in Clients : \A r \in day.wanted[c] :
       /\ r.method \in {"GET", "POST"}
       /\ r.body \in {"right", "invalid", "unknown", "none"}
       /\ r.user \in Users \cup {"none"}    \* whose name and password it has

VARIABLES client,       \* client[c]: its request and where that is, its token, its last status
          sessions,     \* sessions_: the user under a token, with the row as it was at login
          issued        \* tokens given out, over all lives of the process

webServer == <<client, sessions, issued>>

NoRequest == [method |-> "GET", path |-> <<>>, body |-> "none", user |-> "none"]

WebServerInit ==
  /\ client = [c \in Clients |-> [at |-> "idle", request |-> NoRequest, op |-> "none",
                                  as |-> "none", token |-> 0, status |-> 0, sent |-> 0]]
  /\ sessions = [token \in {} |-> "none"]
  /\ issued = 0

Route(method, pattern, op) == [method |-> method, pattern |-> <<"", "api">> \o pattern, op |-> op]

Routes == <<
  Route("GET", <<"health">>, "health"),
  Route("POST", <<"register">>, "register"),
  Route("POST", <<"login">>, "login"),
  Route("POST", <<"logout">>, "logout"),
  Route("GET", <<"me">>, "me"),
  Route("GET", <<"products">>, "products"),
  Route("GET", <<"products", Parameter>>, "product"),
  Route("POST", <<"products">>, "publish"),
  Route("GET", <<"activities">>, "activities"),
  Route("POST", <<"activities">>, "create"),
  Route("POST", <<"activities", Parameter, "purchase">>, "purchase"),
  Route("GET", <<"orders">>, "orders"),
  Route("GET", <<"admin", "summary">>, "summary") >>

NeedsUser == {"me", "publish", "purchase", "orders", "create", "summary"}
NeedsBody == {"register", "login", "publish", "create"}
NeedsId == {"product", "purchase"}
Creates == {"register", "publish", "create", "purchase"}

\* serviceStatus, and what handleApi makes of other exceptions.
Status(op, result) ==
  CASE result = "ok" -> IF op \in Creates THEN 201 ELSE 200
    [] result = "invalid" -> 400
    [] result \in {"credentials", "disabled"} -> 401
    [] result = "forbidden" -> 403
    [] result = "missing" -> 404
    [] result = "conflict" -> 409
    [] result = "failed" -> 500
-----------------------------------------------------------------------------
Send(c, r) == /\ phase["web"] = "running"
              /\ client[c].at = "idle" /\ client[c].sent < today.requests
              /\ client' = [client EXCEPT ![c] =
                   [at |-> "sent", request |-> r, op |-> Dispatch(Routes, r.method, r.path),
                    as |-> "none", token |-> client[c].token, status |-> 0,
                    sent |-> client[c].sent + 1]]
              /\ UNCHANGED <<services, sessions, issued>>

\* The loop comes to the request of c.
Turn(c) == phase["web"] = "running" /\ frame["web"].at = "idle" /\ client[c].at = "sent"

Answered(c, status) == [client[c] EXCEPT !.at = "idle", !.request = NoRequest, !.op = "none",
                                         !.status = status]

\* currentUser
SessionOf(c) == IF client[c].token \in DOMAIN sessions THEN sessions[client[c].token]
                ELSE [user |-> "none", row |-> NoAccount]

Id(r) == PathParam(Routes[FirstRoute(Routes, r.method, r.path)].pattern, r.path)

\* Mutant of Denial: requireAdmin asks for an administrator without a user.
DenialOfAll(c) ==
  LET op == client[c].op IN
  IF op \in AdminOnly /\ SessionOf(c).row.role # "ADMIN" THEN 403
  ELSE IF op \in NeedsUser /\ SessionOf(c).user = "none" THEN 401
  ELSE IF op \in NeedsBody /\ client[c].request.body = "none" THEN 400
  ELSE IF op \in NeedsId /\ Id(client[c].request) = "0" THEN 400 ELSE 0

\* requireUser and requireAdmin come first, parseBody, required and parseId
\* after them.  A number above 0 is an id.
Denial(c) ==
  LET op == client[c].op IN
  IF op \in NeedsUser /\ SessionOf(c).user = "none" THEN 401
  ELSE IF op \in AdminOnly /\ SessionOf(c).row.role # "ADMIN" THEN 403
  ELSE IF op \in NeedsBody /\ client[c].request.body = "none" THEN 400
  ELSE IF op \in NeedsId /\ Id(client[c].request) = "0" THEN 400 ELSE 0

\* A handler that calls no service: for a file, for nothing there is, for the
\* user of the session, or to end it; or one whose checks fail.
AtOnce(c) ==
  LET op == client[c].op IN
  CASE op = "static" -> ServeStatic(client[c].request.path, Files, Dotted)
    [] op = "notFound" -> 404
    [] op \in {"logout", "me"} /\ Denial(c) = 0 -> 200
    [] OTHER -> Denial(c)

Handle(c) == /\ Turn(c) /\ AtOnce(c) # 0
             /\ client' = [client EXCEPT ![c] = [Answered(c, AtOnce(c)) EXCEPT !.as = SessionOf(c).user]]
             /\ sessions' = [token \in DOMAIN sessions \ {t \in {client[c].token} : client[c].op = "logout"}
                               |-> sessions[token]]
             /\ UNCHANGED <<services, issued>>

\* The row of an id in the path, or of one in the body, may not be there.
Given(r, op) == CASE op \in NeedsBody -> r.body
                  [] op \in NeedsId /\ Id(r) # "1" -> "unknown"
                  [] OTHER -> "right"

Forward(c) ==
  /\ Turn(c) /\ AtOnce(c) = 0
  /\ LET r == client[c].request
         user == IF client[c].op = "login" THEN r.user ELSE SessionOf(c).user
     IN  /\ Call("web", client[c].op, user, Given(r, client[c].op))
         /\ client' = [client EXCEPT ![c].at = "called", ![c].as = user]
  /\ UNCHANGED <<data, holder, process, sessions, issued>>

\* Mutant of Enters: a session is made before the service has its say.
EntersAnyhow(f) == f.op = "login"

Enters(f) == f.op = "login" /\ f.result = "ok"

\* The service has come back: the response is sent, with a new token for who
\* has logged in.
Reply(c) ==
  LET f == frame["web"] IN
  /\ client[c].at = "called" /\ f.at = "done"
  /\ issued' = IF Enters(f) THEN issued + 1 ELSE issued
  /\ sessions' = IF Enters(f) THEN [token \in DOMAIN sessions \cup {issued'} |->
                                   IF token = issued' THEN [user |-> f.user, row |-> f.row]
                                   ELSE sessions[token]]
                 ELSE sessions
  /\ client' = [client EXCEPT ![c] = [Answered(c, Status(f.op, f.result)) EXCEPT
                  !.token = IF Enters(f) THEN issued' ELSE @]]
  /\ frame' = [frame EXCEPT !["web"] = NoCall]
  /\ UNCHANGED <<data, holder, process>>

\* The web process dies: its sessions are gone, and its clients are hung up on.
Hangup == /\ Ends("web")
          /\ sessions' = [token \in {} |-> "none"]
          /\ client' = [c \in Clients |-> IF client[c].at = "idle" THEN client[c] ELSE Answered(c, 0)]
          /\ UNCHANGED issued
=============================================================================
