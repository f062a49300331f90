------------------------------- MODULE Reactor -------------------------------
(***************************************************************************)
(* The event loop of the web server: EventLoop, Epoll, Channel, Acceptor,  *)
(* TcpServer, TcpConnection and HttpServer::onMessage, with the TCP        *)
(* connections of its clients.                                             *)
(*                                                                         *)
(* One thread polls, and handles the events of the poll one by one while   *)
(* the clients go on sending, reading, shutting down and resetting.  Bytes *)
(* are the units of Http; a response is ResponseUnits of them.  A handler  *)
(* runs to its end inside the callback that read the request.  The server  *)
(* answers every request with a response that closes the connection, and   *)
(* stops reading only by closing.                                          *)
(***************************************************************************)
EXTENDS Http, FiniteSets

CONSTANTS Clients,          \* clients, each with one connection
          FdSets,           \* sets of descriptors that may be left for them
          ResponseUnits,
          SendBuffer,       \* units the kernel takes of what a client has not read
          Script            \* Script[c]: the requests client c may send, one after the other

ASSUME ReactorAssumption ==
  /\ FdSets \subseteq SUBSET Nat
  /\ {ResponseUnits, SendBuffer} \subseteq Nat \ {0}
  /\ Script \in [Clients -> Seq(Request) \ {<<>>}]
  /\ "none" \notin Clients

VARIABLES
  conn,         \* conn[c]: the TcpConnection of client c, with its Channel
  connections,  \* connections_ of TcpServer: the client of a descriptor, or none;
                \* its domain, one of FdSets, is all the process may open
  tcp,          \* tcp[c]: the client and the kernel's side of the connection
  executed,     \* executed[c]: the requests of c that were dispatched, as they were parsed
  batch,        \* batch[c]: revents of c that the loop has still to handle
  accepting,    \* is the Acceptor's channel still to be handled
  at, cur       \* where the loop is, and for which client

vars == <<conn, connections, tcp, executed, batch, accepting, at, cur>>

\* All that client c may send: Joined(rs)[k] are the first k of its requests rs.
Joined(rs) ==
  LET first[k \in 0 .. Len(rs)] == IF k = 0 THEN <<>> ELSE first[k - 1] \o Units(rs[k])
  IN  first
Stream == [c \in Clients |-> Joined(Script[c])[Len(Script[c])]]

Idle == [state |-> "none", fd |-> -1, in |-> 0, out |-> 0, writing |-> FALSE,
         closeAfterWrite |-> FALSE]

Init == /\ conn = [c \in Clients |-> Idle]
        /\ \E F \in FdSets : connections = [f \in F |-> "none"]
        /\ tcp = [c \in Clients |-> [peer |-> "open", sent |-> 0, rcv |-> 0, snd |-> 0, got |-> 0]]
        /\ executed = [c \in Clients |-> <<>>]
        /\ batch = [c \in Clients |-> {}]
        /\ accepting = FALSE /\ at = "loop" /\ cur = "none"

Open(c) == conn[c].state = "open"
Backlog == {c \in Clients : conn[c].state = "backlog"}
Free == {f \in DOMAIN connections : connections[f] = "none"}
Gone(c) == tcp[c].peer \in {"reset", "broken"}
-----------------------------------------------------------------------------
(* The clients and their kernels. *)

server == <<connections, executed, batch, accepting, at, cur>>

Connect(c) == /\ conn[c].state = "none"
              /\ conn' = [conn EXCEPT ![c].state = "backlog"]
              /\ UNCHANGED <<server, tcp>>

Send(c) == /\ conn[c].state \in {"backlog", "open"}
           /\ tcp[c].peer = "open" /\ tcp[c].sent < Len(Stream[c])
           /\ tcp' = [tcp EXCEPT ![c].sent = @ + 1, ![c].rcv = @ + 1]
           /\ UNCHANGED <<server, conn>>

\* The client sends no more and goes on reading.
Shut(c) == /\ conn[c].state \in {"backlog", "open"} /\ tcp[c].peer = "open"
           /\ tcp' = [tcp EXCEPT ![c].peer = "shut"]
           /\ UNCHANGED <<server, conn>>

\* The client is gone: what it was sent and did not read is lost.  A reset that
\* comes after its shutdown is a broken pipe to the server.
Reset(c) == /\ conn[c].state \in {"backlog", "open"} /\ ~Gone(c)
            /\ tcp' = [tcp EXCEPT ![c].snd = 0,
                                  ![c].peer = IF @ = "shut" THEN "broken" ELSE "reset"]
            /\ UNCHANGED <<server, conn>>

Receive(c) == /\ tcp[c].snd > 0
              /\ tcp' = [tcp EXCEPT ![c].snd = @ - 1, ![c].got = @ + 1]
              /\ UNCHANGED <<server, conn>>
-----------------------------------------------------------------------------
(* The loop. *)

Readable(c) == tcp[c].rcv > 0 \/ tcp[c].peer # "open"
Writable(c) == tcp[c].snd < SendBuffer \/ Gone(c)

\* What epoll_wait reports of c.  Reading is enabled as long as c is open, so a
\* hang-up never comes without EPOLLIN.
Revents(c) == {e \in {"in", "out"} : /\ Open(c)
                                     /\ e = "in" => Readable(c)
                                     /\ e = "out" => conn[c].writing /\ Writable(c)}

Handled == at = "loop" /\ ~accepting /\ \A c \in Clients : batch[c] = {}

\* Mutant of Poll: the Acceptor's channel was never enabled for reading.
PollDeaf == /\ Handled
            /\ \E c \in Clients : Revents(c) # {}
            /\ batch' = [c \in Clients |-> Revents(c)]
            /\ UNCHANGED <<conn, connections, tcp, executed, accepting, at, cur>>

Poll == /\ Handled
        /\ Backlog # {} \/ \E c \in Clients : Revents(c) # {}
        /\ batch' = [c \in Clients |-> Revents(c)]
        /\ accepting' = (Backlog # {})
        /\ UNCHANGED <<conn, connections, tcp, executed, at, cur>>

\* Acceptor::handleRead takes all that wait; the kernel gives the least
\* descriptor.
Accept == /\ at = "loop" /\ accepting
          /\ \E c \in Backlog, f \in Free :
               /\ \A g \in Free : f =< g
               /\ conn' = [conn EXCEPT ![c] = [@ EXCEPT !.state = "open", !.fd = f]]
               /\ connections' = [connections EXCEPT ![f] = c]
          /\ UNCHANGED <<tcp, executed, batch, accepting, at, cur>>

\* EAGAIN, or no descriptor is left: the next poll reports it again.
AcceptEnds == /\ at = "loop" /\ accepting
              /\ Backlog = {} \/ Free = {}
              /\ accepting' = FALSE
              /\ UNCHANGED <<conn, connections, tcp, executed, batch, at, cur>>

\* Channel::handleEvent is called for c, and comes to its test of EPOLLOUT.
GoesOn(c) == at' = "out" /\ cur' = c

\* Mutant of Respond: the response waits in the buffer and nobody asks for EPOLLOUT.
RespondUnasked(x, n) == [x EXCEPT !.in = @ - n, !.out = @ + ResponseUnits,
                                  !.closeAfterWrite = TRUE]

\* onMessage retrieves the n units of one request and answers it; what is
\* behind it stays.
Respond(x, n) == [x EXCEPT !.in = @ - n, !.out = @ + ResponseUnits,
                           !.writing = TRUE, !.closeAfterWrite = TRUE]

Read(x, n) == [x EXCEPT !.in = @ + n]

\* The units in the input buffer x.in of c once all that was sent is read.
Data(c, x) == SubSeq(Stream[c], tcp[c].sent - x.in + 1, tcp[c].sent)

HandleRead(c) ==
  LET x == Read(conn[c], tcp[c].rcv)
      data == Data(c, x) IN
  /\ at = "loop" /\ "in" \in batch[c] /\ tcp[c].rcv > 0
  /\ IF Complete(data)
     THEN /\ conn' = [conn EXCEPT ![c] = Respond(x, Consumed(data))]
          /\ executed' = [executed EXCEPT ![c] = Append(@, Parsed(data))]
     ELSE conn' = [conn EXCEPT ![c] = x] /\ UNCHANGED executed
  /\ tcp' = [tcp EXCEPT ![c].rcv = 0]
  /\ GoesOn(c)
  /\ UNCHANGED <<connections, batch, accepting>>

\* Mutant of Destroy: the connection is not erased from connections_.
DestroyKept(c) == /\ conn' = [conn EXCEPT ![c].state = "closed"]
                  /\ UNCHANGED connections

\* TcpConnection::handleClose: the last pointer to the connection goes with
\* its entry of connections_, and the descriptor with the connection.
Destroy(c) == /\ conn' = [conn EXCEPT ![c].state = "closed"]
              /\ connections' = [connections EXCEPT ![conn[c].fd] = "none"]

\* read() returns 0 or fails: the connection is closed, whatever waits in out.
HandleEnd(c) ==
  /\ at = "loop" /\ "in" \in batch[c] /\ tcp[c].rcv = 0
  /\ Destroy(c)
  /\ GoesOn(c)
  /\ UNCHANGED <<tcp, executed, batch, accepting>>

SkipRead(c) ==
  /\ at = "loop" /\ batch[c] = {"out"}
  /\ GoesOn(c)
  /\ UNCHANGED <<conn, connections, tcp, executed, batch, accepting>>

Done == /\ at' = "loop" /\ cur' = "none"
        /\ batch' = [batch EXCEPT ![cur] = {}]

SkipWrite ==
  /\ at = "out" /\ Open(cur) /\ "out" \notin batch[cur]
  /\ Done
  /\ UNCHANGED <<conn, connections, tcp, executed, accepting>>

\* Mutant of Written: the connection is closed after the first write.
WrittenOnce(x, n) == [x EXCEPT !.out = @ - n, !.writing = FALSE]

\* out after n units of it were written; writing is asked for no longer when
\* all of it is.
Written(x, n) == [x EXCEPT !.out = @ - n, !.writing = (x.out # n)]

\* handleWrite: one write, as much as the kernel takes.
HandleWrite ==
  LET room == SendBuffer - tcp[cur].snd
      n == IF conn[cur].out < room THEN conn[cur].out ELSE room
      x == Written(conn[cur], n) IN
  /\ at = "out" /\ Open(cur) /\ "out" \in batch[cur] /\ ~Gone(cur)
  /\ x.writing
  /\ conn' = [conn EXCEPT ![cur] = x]
  /\ tcp' = [tcp EXCEPT ![cur].snd = @ + n]
  /\ Done
  /\ UNCHANGED <<connections, executed, accepting>>

\* The last of out is written and closeAfterWrite_ is set: the connection is
\* closed.  Units that came in and were not read make the kernel reset it, and
\* the client may lose what it has not read yet.
HandleLastWrite ==
  LET room == SendBuffer - tcp[cur].snd
      n == IF conn[cur].out < room THEN conn[cur].out ELSE room
      x == Written(conn[cur], n) IN
  /\ at = "out" /\ Open(cur) /\ "out" \in batch[cur] /\ ~Gone(cur)
  /\ ~x.writing /\ x.closeAfterWrite
  /\ conn' = [conn EXCEPT ![cur] = [x EXCEPT !.state = "closed"]]
  /\ connections' = [connections EXCEPT ![x.fd] = "none"]
  /\ \E lost \in IF tcp[cur].rcv > 0 THEN {0, tcp[cur].snd + n} ELSE {0} :
       tcp' = [tcp EXCEPT ![cur].snd = @ + n - lost]
  /\ Done
  /\ UNCHANGED <<executed, accepting>>

\* The write fails with ECONNRESET: the connection is closed.
WriteFails ==
  /\ at = "out" /\ Open(cur) /\ "out" \in batch[cur] /\ tcp[cur].peer = "reset"
  /\ Destroy(cur)
  /\ Done
  /\ UNCHANGED <<tcp, executed, accepting>>

\* The write fails with EPIPE, after the SIGPIPE that nobody ignores or handles.
WriteKills ==
  /\ at = "out" /\ Open(cur) /\ "out" \in batch[cur] /\ tcp[cur].peer = "broken"
  /\ at' = "crashed"
  /\ UNCHANGED <<conn, connections, tcp, executed, batch, accepting, cur>>

\* The read callback destroyed the channel whose revents_ handleEvent tests
\* next.  The freed word still has its value; if EPOLLOUT is in it, the call
\* of the freed write callback ends the process or does nothing.
TestFreed ==
  /\ at = "out" /\ ~Open(cur)
  /\ Done
  /\ UNCHANGED <<conn, connections, tcp, executed, accepting>>

CallFreed ==
  /\ at = "out" /\ ~Open(cur) /\ "out" \in batch[cur]
  /\ at' = "crashed"
  /\ UNCHANGED <<conn, connections, tcp, executed, batch, accepting, cur>>

Loop == \/ Poll \/ Accept \/ AcceptEnds
        \/ \E c \in Clients : HandleRead(c) \/ HandleEnd(c) \/ SkipRead(c)
        \/ SkipWrite \/ HandleWrite \/ HandleLastWrite \/ WriteFails \/ WriteKills
        \/ TestFreed \/ CallFreed

Next == \/ Loop
        \/ \E c \in Clients : Connect(c) \/ Send(c) \/ Shut(c) \/ Reset(c) \/ Receive(c)

Spec == Init /\ [][Next]_vars

\* The loop never sleeps on an event, and a client reads what it is sent.
LiveSpec == Spec /\ WF_vars(Loop) /\ \A c \in Clients : WF_vars(Receive(c))
-----------------------------------------------------------------------------
\* Every variable stays in its type.
TypeOK ==
  /\ conn \in [Clients -> [state : {"none", "backlog", "open", "closed"}, fd : (UNION FdSets) \cup {-1},
                           in : Nat, out : Nat, writing : BOOLEAN, closeAfterWrite : BOOLEAN]]
  /\ \E F \in FdSets : connections \in [F -> Clients \cup {"none"}]
  /\ tcp \in [Clients -> [peer : {"open", "shut", "reset", "broken"}, sent : Nat, rcv : Nat,
                          snd : 0 .. SendBuffer, got : Nat]]
  /\ executed \in [Clients -> Seq([what : STRING \cup {"none"}, body : Seq(Unit)])]
  /\ batch \in [Clients -> SUBSET {"in", "out"}]
  /\ accepting \in BOOLEAN /\ at \in {"loop", "out", "crashed"}
  /\ cur \in Clients \cup {"none"}

\* connections_ holds exactly the open connections, each under the descriptor
\* it owns: none leaks, and a descriptor that is used again drops nobody.
DescriptorsOwned ==
  /\ \A c \in Clients : Open(c) =>
       conn[c].fd \in DOMAIN connections /\ connections[conn[c].fd] = c
  /\ \A f \in DOMAIN connections : connections[f] # "none" =>
       Open(connections[f]) /\ conn[connections[f]].fd = f

\* EPOLLOUT is asked for exactly while something waits to be written: without
\* it a response is stuck, with nothing to write the loop would spin.
WriteInterest ==
  \A c \in Clients : Open(c) => (conn[c].writing <=> conn[c].out > 0)

\* The server never hangs up on a client in the middle of its response: a
\* connection is closed with units unwritten only if the client shut down or
\* reset it first, and otherwise every request that ran was answered in full.
AnswersWhole ==
  \A c \in Clients :
    conn[c].state = "closed" /\ tcp[c].peer = "open" =>
      /\ conn[c].out = 0 /\ executed[c] # <<>>
      /\ tcp[c].rcv = 0 => tcp[c].got + tcp[c].snd = Len(executed[c]) * ResponseUnits

\* However TCP cuts the stream into pieces and whatever is still unread, the
\* requests that run are those the client meant, in their order, each with the
\* whole of its body and nothing of the next, up to the first ill-formed one.
FramedRight ==
  \A c \in Clients : \A k \in DOMAIN executed[c] \cap DOMAIN Script[c] :
    (\A j \in 1 .. k : WellFormed(Script[c][j])) =>
      executed[c][k] = [what |-> Script[c][k].what, body |-> Script[c][k].body]

\* A client that sends one well-formed request and waits gets the whole
\* response, whatever the other clients do, unless the process has ended.
Served ==
  \A c \in {d \in Clients : WellFormed(Script[d][1])} :
    LET whole == Len(Units(Script[c][1])) IN
    Open(c) /\ tcp[c].sent = whole ~>
      \/ tcp[c].got = ResponseUnits \/ tcp[c].peer # "open"
      \/ tcp[c].sent > whole \/ at = "crashed"

\* A client waits to be accepted for ever only while every descriptor is in
\* use for ever: a failed accept() is made good as soon as one is free.
Admitted ==
  \A c \in Clients : <>[](c \in Backlog) => <>[](Free = {} \/ at = "crashed")

\* docs/architecture.md:63 gives the net layer the lifetime of connections, and
\* handleClose guards the connection with a shared pointer of its own
\* (TcpConnection.cpp:128): it should outlive the handling of its events.
HandlersOutlived == at = "out" => Open(cur)
=============================================================================
