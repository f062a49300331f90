---------------------------- MODULE SessionsProofs ----------------------------
(***************************************************************************)
(* Proofs about Sessions, for any names, tabs, calls in flight and runs of *)
(* the web process, with every call or answer lost or late: one account to *)
(* a name, and no token that is accepted again or for somebody else.       *)
(***************************************************************************)
EXTENDS Sessions, TLAPS

Processes == {"web", "cli"}
User == Names \cup {"none"}
AnswerCode == {"none", "ok", "unauthorized", "taken", "failed"}
AnswerState == [code : AnswerCode, user : User, token : Token]
CallState == [at : {"free", "sent", "answered"}, tab : Tabs \cup {"gone"},
              kind : {"none", "login", "register", "logout", "me", "orders"},
              token : Token, row : Row \cup {NoRow}, answer : AnswerState]
PageState == [token : Token, user : User, orders : User, shown : User, modal : BOOLEAN,
              phase : {"health", "restoring", "ready"}]
FrameState == [at : {"idle", "insert", "login"}, id : Ids \cup {0}, row : Row \cup {NoRow}]

\* The parts of the type invariant.
UsersOK == users \subseteq Row /\ OneAccountEach
TokensOK == /\ run \in Runs /\ sequence \in 0 .. MaxSequence[run]
            /\ sessions \in [DOMAIN sessions -> Names]
            /\ \A k \in DOMAIN sessions : k \in Token /\ k.run = run /\ k.seq < sequence
BrowserOK == /\ page \in [Tabs -> PageState]
             /\ storage \in [token : Token, user : User]

\* A call that registers or logs in has a row, and is never refused if it registers.
CallOK(c) == /\ c.kind \in {"login", "register"} => c.row \in Row
             /\ c.kind = "register" => c.answer.code # "unauthorized"
CallsOK == calls \in [Ids -> CallState] /\ \A i \in Ids : CallOK(calls[i])

\* The web process registers for a call that waits, and logs in with a row that
\* it inserted.
FrameOK == /\ frame \in [Processes -> FrameState]
           /\ \A p \in Processes : frame[p].at # "idle" => frame[p].row \in Row
           /\ frame["web"].at = "login" => frame["web"].row \in users
Serves == LET id == frame["web"].id IN
          frame["web"].at # "idle" =>
            id \in Ids /\ calls[id].at = "sent" /\ calls[id].kind = "register"

IInv == UsersOK /\ TokensOK /\ BrowserOK /\ CallsOK /\ FrameOK /\ Serves

LEMMA TypesOfParts == IInv => TypeOK /\ OneAccountEach /\ RegisteredGetsIn
<1> SUFFICES ASSUME IInv PROVE TypeOK /\ OneAccountEach /\ RegisteredGetsIn
  OBVIOUS
<1>1. TypeOK
  BY DEF IInv, UsersOK, TokensOK, BrowserOK, CallsOK, FrameOK, TypeOK, CallState, PageState,
         FrameState, AnswerState, AnswerCode, User, Processes
<1>2. OneAccountEach /\ RegisteredGetsIn
  BY DEF IInv, UsersOK, CallsOK, CallOK, RegisteredGetsIn
<1> QED BY <1>1, <1>2

\* What is nothing has a type.
LEMMA Nothing ==
  /\ NoToken \in Token /\ NoAnswer \in AnswerState /\ NoCall \in CallState /\ CallOK(NoCall)
  /\ NoFrame \in FrameState /\ SignedOut \in [token : Token, user : User]
<1>1. NoToken \in Token
  BY DEF Token
<1>2. NoAnswer \in AnswerState
  BY <1>1 DEF NoAnswer, AnswerState, AnswerCode, User
<1> HIDE DEF NoToken, NoAnswer
<1>3. NoCall \in CallState
  BY <1>1, <1>2 DEF NoCall, CallState
<1>4. CallOK(NoCall)
  BY DEF NoCall, CallOK
<1>5. NoFrame \in FrameState
  BY DEF NoFrame, FrameState
<1>6. SignedOut \in [token : Token, user : User]
  BY <1>1 DEF SignedOut, User
<1> QED BY <1>1, <1>2, <1>3, <1>4, <1>5, <1>6

\* The counts of a run are numbers.
LEMMA Counts == \A r \in Runs : MaxSequence[r] \in Nat \ {0} /\ r \in Nat \ {0}
BY SessionsAssumption DEF Runs

LEMMA NewTokenTyped ==
  ASSUME TokensOK, sequence < MaxSequence[run]
  PROVE  NewToken \in Token
<1>1. run \in Runs /\ sequence \in 0 .. MaxSequence[run] - 1
  BY Counts DEF TokensOK
<1>2. NewToken \in [run : {run}, seq : 0 .. MaxSequence[run] - 1]
  BY <1>1 DEF NewToken
<1> QED BY <1>1, <1>2 DEF Token

LEMMA RowTyped ==
  ASSUME NEW r \in Row
  PROVE  r.name \in Names /\ r.password \in Passwords
BY DEF Row
-----------------------------------------------------------------------------
LEMMA InitInv == Init => IInv
<1> SUFFICES ASSUME Init PROVE IInv
  OBVIOUS
<1>1. UsersOK
  BY SessionsAssumption DEF Init, UsersOK, OneAccountEach
<1>2. TokensOK
  <2>1. 1 \in Runs /\ 0 \in 0 .. MaxSequence[1]
    <3>1. 1 \in Runs
      BY SessionsAssumption DEF Runs
    <3> QED BY <3>1, Counts
  <2>2. DOMAIN sessions = {} /\ sessions \in [DOMAIN sessions -> Names]
    BY DEF Init
  <2> QED BY <2>1, <2>2 DEF Init, TokensOK
<1>3. BrowserOK
  <2>1. Loaded \in PageState
    BY Nothing DEF Init, Loaded, PageState, SignedOut, User
  <2> QED BY <2>1, Nothing DEF Init, BrowserOK
<1>4. CallsOK
  BY Nothing DEF Init, CallsOK
<1>5. FrameOK /\ Serves
  <2>1. frame \in [Processes -> FrameState] /\ \A p \in Processes : frame[p] = NoFrame
    BY Nothing DEF Init, Processes
  <2>2. NoFrame.at = "idle"
    BY DEF NoFrame
  <2> QED BY <2>1, <2>2 DEF FrameOK, Serves, Processes
<1> QED BY <1>1, <1>2, <1>3, <1>4, <1>5 DEF IInv
-----------------------------------------------------------------------------
(* What happens to the calls. *)

\* A call is given the state c, which has a type, and is not taken from the
\* registration that serves it.
LEMMA CallSet ==
  ASSUME CallsOK, Serves, UNCHANGED frame, NEW i \in Ids, NEW c \in CallState, CallOK(c),
         calls' = [calls EXCEPT ![i] = c],
         calls[i].at # "sent"
  PROVE  CallsOK' /\ Serves'
<1>1. \A j \in Ids : calls'[j] = IF j = i THEN c ELSE calls[j]
  BY DEF CallsOK
<1>2. CallsOK'
  BY <1>1 DEF CallsOK
<1>3. Serves'
  BY <1>1 DEF Serves
<1> QED BY <1>2, <1>3

\* api() sends a call that nobody uses.
LEMMA SendCalls ==
  ASSUME IInv, UNCHANGED frame, NEW t \in Tabs, NEW row \in Row \cup {NoRow},
         NEW kind \in {"login", "register", "logout", "me", "orders"},
         kind \in {"login", "register"} => row \in Row,
         Send(t, kind, row)
  PROVE  CallsOK' /\ Serves'
<1> DEFINE c == [NoCall EXCEPT !.at = "sent", !.tab = t, !.kind = kind,
                               !.token = page[t].token, !.row = row]
<1>1. page[t].token \in Token
  BY DEF IInv, BrowserOK, PageState
<1>2. NoCall \in CallState
  BY Nothing
<1>3. c \in CallState /\ c.kind = kind /\ c.row = row /\ c.answer = NoCall.answer
  BY <1>1, <1>2 DEF CallState
<1>4. CallOK(c)
  BY <1>3 DEF CallOK, NoCall, NoAnswer
<1> HIDE DEF c
<1>5. PICK i \in Ids : calls[i].at = "free" /\ calls' = [calls EXCEPT ![i] = c]
  BY DEF Send, c
<1> QED BY <1>3, <1>4, <1>5, CallSet DEF IInv

\* The page is done with an answer.
LEMMA HandledCalls ==
  ASSUME IInv, UNCHANGED frame, NEW i \in Ids, calls[i].at = "answered", Handled(i)
  PROVE  CallsOK' /\ Serves'
BY Nothing, CallSet DEF IInv, Handled

\* An answer, of the web process or made of a failure.
LEMMA AnswerCalls ==
  ASSUME CallsOK, NEW i \in Ids, NEW code \in AnswerCode, NEW user \in User,
         NEW token \in Token, Answer(i, code, user, token),
         calls[i].kind = "register" => code # "unauthorized"
  PROVE  CallsOK' /\ \A j \in Ids \ {i} : calls'[j] = calls[j]
<1> DEFINE a == [code |-> code, user |-> user, token |-> token]
           b == [calls[i] EXCEPT !.at = "answered", !.answer = a]
           c == IF calls[i].tab = "gone" THEN NoCall ELSE b
<1>1. calls[i] \in CallState /\ CallOK(calls[i])
  BY DEF CallsOK
<1>2. a \in AnswerState /\ a.code = code
  BY DEF AnswerState
<1> HIDE DEF a
<1>3. b \in CallState /\ b.kind = calls[i].kind /\ b.row = calls[i].row /\ b.answer = a
  BY <1>1, <1>2 DEF CallState
<1> HIDE DEF b
<1>4. CallOK(b)
  BY <1>1, <1>2, <1>3 DEF CallOK
<1>5. c \in CallState /\ CallOK(c)
  BY <1>3, <1>4, Nothing
<1>6. calls' = [calls EXCEPT ![i] = c]
  BY DEF Answer, b, a
<1> HIDE DEF c
<1> QED BY <1>5, <1>6 DEF CallsOK
-----------------------------------------------------------------------------
(* The page. *)

LEMMA LoadedTyped ==
  ASSUME BrowserOK
  PROVE  Loaded \in PageState
<1>1. storage.token \in Token /\ storage.user \in User
  BY DEF BrowserOK
<1> QED BY <1>1 DEF Loaded, PageState, User

\* What the server has is left alone by a page.
LEMMA PageStep ==
  ASSUME IInv, UNCHANGED server, CallsOK', Serves', BrowserOK'
  PROVE  IInv'
<1>1. UsersOK' /\ TokensOK'
  BY DEF IInv, server, UsersOK, OneAccountEach, TokensOK
<1>2. FrameOK'
  BY DEF IInv, server, FrameOK
<1> QED BY <1>1, <1>2 DEF IInv

LEMMA LoadInv ==
  ASSUME IInv, NEW t \in Tabs, Load(t)
  PROVE  IInv'
<1>1. BrowserOK'
  BY LoadedTyped DEF IInv, BrowserOK, Load
<1>2. ASSUME NEW i \in Ids
      PROVE  /\ calls'[i] \in CallState /\ CallOK(calls'[i])
             /\ calls[i].at = "sent" => calls'[i].at = "sent" /\ calls'[i].kind = calls[i].kind
  <2> DEFINE g == [calls[i] EXCEPT !.tab = "gone"]
  <2>1. calls[i] \in CallState /\ CallOK(calls[i])
    BY DEF IInv, CallsOK
  <2>2. g \in CallState /\ g.at = calls[i].at /\ g.kind = calls[i].kind /\ g.row = calls[i].row
        /\ g.answer = calls[i].answer
    BY <2>1 DEF CallState
  <2>3. calls'[i] = IF calls[i].tab # t THEN calls[i]
                    ELSE IF calls[i].at = "answered" THEN NoCall ELSE g
    BY DEF Load
  <2> HIDE DEF g
  <2>4. CallOK(g)
    BY <2>1, <2>2 DEF CallOK
  <2> QED BY <2>1, <2>2, <2>3, <2>4, Nothing
<1>3. CallsOK'
  <2>1. DOMAIN calls' = Ids /\ calls' = [i \in Ids |-> calls'[i]]
    BY DEF Load
  <2> QED BY <1>2, <2>1 DEF CallsOK
<1>4. Serves'
  BY <1>2 DEF IInv, Serves, Load, server
<1> QED BY <1>1, <1>3, <1>4, PageStep DEF Load

LEMMA SendInv ==
  ASSUME IInv, NEW t \in Tabs,
         \/ Restore(t) \/ RestoreNothing(t) \/ Submit(t) \/ ClickLogout(t) \/ LoadOrders(t)
  PROVE  IInv'
<1>1. page[t] \in PageState /\ page \in [Tabs -> PageState] /\ storage \in [token : Token, user : User]
  BY DEF IInv, BrowserOK
<1>2. CASE Restore(t)
  <2>1. [page[t] EXCEPT !.phase = "restoring"] \in PageState
    BY <1>1 DEF PageState
  <2>2. BrowserOK'
    BY <1>1, <1>2, <2>1 DEF Restore, BrowserOK
  <2>3. CallsOK' /\ Serves'
    BY <1>2, SendCalls DEF Restore, server
  <2> QED BY <1>2, <2>2, <2>3, PageStep DEF Restore
<1>3. CASE RestoreNothing(t)
  <2>1. [[page[t] EXCEPT !.phase = "ready"] EXCEPT !.shown = page[t].user] \in PageState
    BY <1>1 DEF PageState
  <2>2. page' = [page EXCEPT ![t] = [[page[t] EXCEPT !.phase = "ready"] EXCEPT !.shown = page[t].user]]
    BY <1>1, <1>3 DEF RestoreNothing
  <2>3. BrowserOK'
    BY <1>1, <1>3, <2>1, <2>2 DEF RestoreNothing, BrowserOK
  <2>4. CallsOK' /\ Serves'
    BY <1>3 DEF IInv, RestoreNothing, server, CallsOK, Serves
  <2> QED BY <1>3, <2>3, <2>4, PageStep DEF RestoreNothing
<1>4. CASE Submit(t) \/ ClickLogout(t) \/ LoadOrders(t)
  <2>1. BrowserOK' /\ UNCHANGED <<server, frame>>
    BY <1>1, <1>4 DEF Submit, ClickLogout, LoadOrders, browser, server, BrowserOK
  <2>2. CASE Submit(t)
    <3>1. PICK kind \in {"login", "register"}, r \in Typed : Send(t, kind, r)
      BY <2>2 DEF Submit
    <3>2. r \in Row
      BY SessionsAssumption
    <3> QED BY <2>1, <3>1, <3>2, SendCalls, PageStep
  <2>3. CASE ClickLogout(t) \/ LoadOrders(t)
    <3>1. Send(t, "logout", NoRow) \/ Send(t, "orders", NoRow)
      BY <2>3 DEF ClickLogout, LoadOrders
    <3> QED BY <2>1, <3>1, SendCalls, PageStep
  <2> QED BY <1>4, <2>2, <2>3
<1> QED BY <1>2, <1>3, <1>4

\* The page handles an answer.
LEMMA HandlerInv ==
  ASSUME IInv, NEW t \in Tabs, NEW i \in Ids,
         \/ ClearSession(t, i) \/ SaveSession(t, i) \/ SaveUser(t, i)
         \/ SaveOrders(t, i) \/ ShowError(t, i)
  PROVE  IInv'
<1> DEFINE a == calls[i].answer
           x == page[t]
<1>1. /\ x \in PageState /\ page \in [Tabs -> PageState]
      /\ storage \in [token : Token, user : User]
  BY DEF IInv, BrowserOK
<1>2. a \in AnswerState /\ a.token \in Token /\ a.user \in User
  BY DEF IInv, CallsOK, CallState, AnswerState
<1>3. calls[i].at = "answered" /\ Handled(i) /\ UNCHANGED server
  BY DEF ClearSession, SaveSession, SaveUser, SaveOrders, ShowError
<1>4. CallsOK' /\ Serves'
  BY <1>3, HandledCalls DEF server
<1> HIDE DEF a
<1>5. BrowserOK'
  <2>1. CASE ClearSession(t, i)
    <3> DEFINE y == [x EXCEPT !.token = NoToken, !.user = "none", !.orders = "none",
                              !.shown = "none", !.modal = TRUE, !.phase = Phase(t, calls[i])]
    <3>1. Phase(t, calls[i]) \in {"health", "restoring", "ready"}
      BY <1>1 DEF Phase, PageState
    <3>2. y \in PageState
      BY <1>1, <3>1, Nothing DEF PageState, User
    <3>3. page' = [page EXCEPT ![t] = y] /\ storage' = SignedOut
      BY <2>1 DEF ClearSession
    <3> HIDE DEF y
    <3> QED BY <1>1, <3>2, <3>3, Nothing DEF BrowserOK
  <2>2. CASE SaveSession(t, i)
    <3> DEFINE y == [x EXCEPT !.token = a.token, !.user = a.user, !.shown = a.user, !.modal = FALSE]
    <3>1. y \in PageState
      BY <1>1, <1>2 DEF PageState
    <3>2. page' = [page EXCEPT ![t] = y] /\ storage' = [token |-> a.token, user |-> a.user]
      BY <2>2 DEF SaveSession, a
    <3> HIDE DEF y
    <3> QED BY <1>1, <1>2, <3>1, <3>2 DEF BrowserOK
  <2>3. CASE SaveUser(t, i)
    <3> DEFINE y == [x EXCEPT !.user = a.user, !.shown = a.user, !.phase = "ready"]
    <3>1. y \in PageState
      BY <1>1, <1>2 DEF PageState
    <3>2. page' = [page EXCEPT ![t] = y] /\ storage' = [storage EXCEPT !.user = a.user]
      BY <2>3 DEF SaveUser, a
    <3> HIDE DEF y
    <3> QED BY <1>1, <1>2, <3>1, <3>2 DEF BrowserOK
  <2>4. CASE SaveOrders(t, i)
    <3> DEFINE y == [x EXCEPT !.orders = a.user]
    <3>1. y \in PageState
      BY <1>1, <1>2 DEF PageState
    <3>2. page' = [page EXCEPT ![t] = y] /\ storage' = storage
      BY <2>4 DEF SaveOrders, a
    <3> HIDE DEF y
    <3> QED BY <1>1, <3>1, <3>2 DEF BrowserOK
  <2>5. CASE ShowError(t, i)
    BY <1>1, <2>5 DEF ShowError, browser, BrowserOK
  <2> QED BY <2>1, <2>2, <2>3, <2>4, <2>5
<1> QED BY <1>3, <1>4, <1>5, PageStep
-----------------------------------------------------------------------------
(* The web process and the CLI. *)

\* createSession: the token is new, and those that were stay as they were.
LEMMA CreateSessionTokens ==
  ASSUME IInv, UNCHANGED run, NEW i \in Ids, NEW user \in Names, CreateSession(i, user)
  PROVE  /\ TokensOK' /\ NewToken \in Token
         /\ \A k \in DOMAIN sessions' : k # NewToken =>
              k \in DOMAIN sessions /\ sessions'[k] = sessions[k]
<1>1. TokensOK /\ sequence < MaxSequence[run]
  BY DEF IInv, CreateSession
<1>2. /\ NewToken \in Token /\ NewToken.run = run /\ NewToken.seq = sequence
      /\ MaxSequence[run] \in Nat /\ sequence \in Nat
  <2>1. NewToken \in Token
    BY <1>1, NewTokenTyped
  <2>2. run \in Runs /\ sequence \in 0 .. MaxSequence[run]
    BY <1>1 DEF TokensOK
  <2> QED BY <2>1, <2>2, Counts DEF NewToken
<1>3. /\ sequence' = sequence + 1
      /\ sessions' = [k \in DOMAIN sessions \cup {NewToken} |->
                        IF k = NewToken THEN user ELSE sessions[k]]
  BY DEF CreateSession
<1>4. run' \in Runs /\ sequence' \in 0 .. MaxSequence[run']
  BY <1>1, <1>2, <1>3 DEF TokensOK
<1>5. DOMAIN sessions' = DOMAIN sessions \cup {NewToken}
  BY <1>3
<1>6. ASSUME NEW k \in DOMAIN sessions' PROVE sessions'[k] \in Names
  BY <1>1, <1>3, <1>5 DEF TokensOK
<1>7. sessions' \in [DOMAIN sessions' -> Names]
  BY <1>3, <1>5, <1>6
<1>8. ASSUME NEW k \in DOMAIN sessions'
      PROVE  k \in Token /\ k.run = run' /\ k.seq < sequence'
  <2>1. CASE k = NewToken
    BY <1>2, <1>3, <2>1
  <2>2. CASE k \in DOMAIN sessions
    <3>1. k \in Token /\ k.run = run /\ k.seq < sequence
      BY <1>1, <2>2 DEF TokensOK
    <3>2. k.seq \in Int
      BY <3>1, Counts DEF Token, NoToken
    <3> QED BY <1>2, <1>3, <3>1, <3>2
  <2> QED BY <1>5, <2>1, <2>2
<1>9. \A k \in DOMAIN sessions' : k # NewToken =>
        k \in DOMAIN sessions /\ sessions'[k] = sessions[k]
  BY <1>3, <1>5
<1> QED BY <1>2, <1>4, <1>7, <1>8, <1>9 DEF TokensOK

LEMMA SameTokens ==
  ASSUME TokensOK, UNCHANGED <<run, sequence, sessions>>
  PROVE  TokensOK'
BY DEF TokensOK

\* login() answers the call it is of, and refuses no row that is in the table.
LEMMA LoginCalls ==
  ASSUME IInv, UNCHANGED run, NEW i \in Ids, NEW row \in Row, Login(i, row),
         calls[i].kind = "register" => row \in users
  PROVE  TokensOK' /\ CallsOK' /\ \A j \in Ids \ {i} : calls'[j] = calls[j]
<1>1. CallsOK /\ TokensOK /\ users \subseteq Row
  BY DEF IInv, UsersOK
<1>2. CASE \E r \in users : /\ r.name = row.name /\ r.password = row.password
                            /\ CreateSession(i, r.name)
  <2>1. PICK r \in users : CreateSession(i, r.name)
    BY <1>2
  <2>2. r.name \in Names /\ r.name \in User
    BY <1>1, RowTyped DEF User
  <2>3. TokensOK' /\ NewToken \in Token
    BY <2>1, <2>2, CreateSessionTokens
  <2>4. Answer(i, "ok", r.name, NewToken)
    BY <2>1 DEF CreateSession
  <2> QED BY <1>1, <2>2, <2>3, <2>4, AnswerCalls DEF AnswerCode
<1>3. CASE /\ \/ \E r \in users : r.name = row.name /\ r.password # row.password
              \/ \A r \in users : r.name # row.name
           /\ Answer(i, "unauthorized", "none", NoToken)
           /\ UNCHANGED <<sessions, sequence>>
  <2>1. calls[i].kind # "register"
    <3> SUFFICES ASSUME row \in users PROVE FALSE
      OBVIOUS
    <3> QED BY <1>3 DEF IInv, UsersOK, OneAccountEach
  <2>2. TokensOK'
    BY <1>1, <1>3, SameTokens
  <2> QED BY <1>1, <1>3, <2>1, <2>2, AnswerCalls, Nothing DEF AnswerCode, User
<1> QED BY <1>2, <1>3 DEF Login

\* The pages are left alone by a process.
LEMMA SamePages ==
  ASSUME BrowserOK, UNCHANGED browser
  PROVE  BrowserOK'
BY DEF BrowserOK, browser

LEMMA SameUsers ==
  ASSUME UsersOK, UNCHANGED users
  PROVE  UsersOK'
BY DEF UsersOK, OneAccountEach

LEMMA SameFrames ==
  ASSUME FrameOK, UNCHANGED <<users, frame>>
  PROVE  FrameOK'
BY DEF FrameOK

\* While the web process registers for nobody, there is no call to keep.
LEMMA ServesNobody ==
  ASSUME frame'["web"].at = "idle"
  PROVE  Serves'
BY DEF Serves

LEMMA HandleInv ==
  ASSUME IInv, NEW i \in Ids, Handle(i)
  PROVE  IInv'
<1>1. frame["web"].at = "idle" /\ calls[i].at = "sent" /\ calls[i] \in CallState /\ CallOK(calls[i])
  BY DEF IInv, CallsOK, Handle, HandleLogin, HandleLogout, HandleUser, HandleRegister, Waits
<1>2. CASE HandleLogin(i)
  <2>1. calls[i].row \in Row /\ calls[i].kind = "login"
    BY <1>1, <1>2 DEF HandleLogin, Waits, CallOK
  <2>2. TokensOK' /\ CallsOK'
    BY <1>2, <2>1, LoginCalls DEF HandleLogin
  <2>3. UsersOK' /\ BrowserOK' /\ FrameOK' /\ Serves'
    BY <1>1, <1>2, SameUsers, SamePages, SameFrames, ServesNobody DEF IInv, HandleLogin
  <2> QED BY <2>2, <2>3 DEF IInv
<1>3. CASE HandleLogout(i)
  <2> DEFINE kept == DOMAIN sessions \ {calls[i].token}
  <2>1. /\ sessions' = [k \in kept |-> sessions[k]] /\ UNCHANGED <<run, sequence>>
        /\ calls[i].kind = "logout" /\ Answer(i, "ok", "none", NoToken)
    BY <1>3 DEF HandleLogout, Restrict, Waits
  <2>2. TokensOK'
    BY <2>1 DEF IInv, TokensOK
  <2>3. CallsOK'
    BY <2>1, AnswerCalls, Nothing DEF IInv, AnswerCode, User
  <2>4. UsersOK' /\ BrowserOK' /\ FrameOK' /\ Serves'
    BY <1>1, <1>3, SameUsers, SamePages, SameFrames, ServesNobody DEF IInv, HandleLogout
  <2> QED BY <2>2, <2>3, <2>4 DEF IInv
<1>4. CASE HandleUser(i)
  <2> DEFINE k == calls[i].token
  <2>1. \/ k \in DOMAIN sessions /\ Answer(i, "ok", sessions[k], NoToken)
        \/ Answer(i, "unauthorized", "none", NoToken)
    BY <1>4 DEF HandleUser
  <2>2. calls[i].kind # "register" /\ UNCHANGED <<server, browser>>
    BY <1>4 DEF HandleUser, Waits
  <2>3. k \in DOMAIN sessions => sessions[k] \in User
    BY DEF IInv, TokensOK, User
  <2>4. CallsOK'
    BY <2>1, <2>2, <2>3, AnswerCalls, Nothing DEF IInv, AnswerCode, User
  <2>5. UsersOK' /\ TokensOK' /\ BrowserOK' /\ FrameOK' /\ Serves'
    BY <1>1, <2>2, SameUsers, SameTokens, SamePages, SameFrames, ServesNobody DEF IInv, server
  <2> QED BY <2>4, <2>5 DEF IInv
<1>5. CASE HandleRegister(i)
  <2>1. calls[i].kind = "register" /\ calls[i].row \in Row
    BY <1>1, <1>5 DEF HandleRegister, Waits, CallOK
  <2>2. UsersOK' /\ TokensOK' /\ BrowserOK'
    BY <1>5, SameUsers, SameTokens, SamePages DEF IInv, HandleRegister
  <2>3. CASE Answer(i, "taken", "none", NoToken) /\ UNCHANGED frame
    <3>1. CallsOK'
      BY <2>3, AnswerCalls, Nothing DEF IInv, AnswerCode, User
    <3>2. FrameOK' /\ Serves'
      BY <1>1, <1>5, <2>3, SameFrames, ServesNobody DEF IInv, HandleRegister
    <3> QED BY <2>2, <3>1, <3>2 DEF IInv
  <2>4. CASE Inserts("web", i, calls[i].row) /\ UNCHANGED calls
    <3> DEFINE f == [at |-> "insert", id |-> i, row |-> calls[i].row]
    <3>1. f \in FrameState /\ frame' = [frame EXCEPT !["web"] = f]
      BY <2>1, <2>4 DEF FrameState, Inserts
    <3>2. frame'["web"] = f /\ \A p \in Processes \ {"web"} : frame'[p] = frame[p]
      BY <3>1 DEF IInv, FrameOK, Processes
    <3>3. FrameOK'
      BY <2>1, <3>1, <3>2 DEF IInv, FrameOK, Processes
    <3>4. Serves'
      BY <1>1, <2>1, <2>4, <3>2 DEF Serves
    <3>5. CallsOK'
      BY <2>4 DEF IInv, CallsOK
    <3> QED BY <2>2, <3>3, <3>4, <3>5 DEF IInv
  <2> QED BY <1>5, <2>3, <2>4 DEF HandleRegister
<1> QED BY <1>2, <1>3, <1>4, <1>5 DEF Handle

\* The end of a registration: its process is at none.
LEMMA IdleFrame ==
  ASSUME FrameOK, UNCHANGED users, NEW p \in Processes, frame' = [frame EXCEPT ![p] = NoFrame]
  PROVE  /\ FrameOK' /\ frame'[p].at = "idle"
         /\ \A q \in Processes \ {p} : frame'[q] = frame[q]
<1>1. frame'[p] = NoFrame /\ \A q \in Processes \ {p} : frame'[q] = frame[q]
  BY DEF FrameOK
<1>2. NoFrame.at = "idle" /\ NoFrame \in FrameState
  BY Nothing DEF NoFrame
<1>3. frame' \in [Processes -> FrameState]
  BY <1>2 DEF FrameOK
<1> QED BY <1>1, <1>2, <1>3 DEF FrameOK, Processes

\* registerUser ends with an error.
LEMMA RefuseInv ==
  ASSUME IInv, NEW p \in Processes, NEW code \in {"taken", "failed"}, frame[p].at # "idle",
         Refuse(p, code), UNCHANGED <<users, run, sequence, sessions, browser>>
  PROVE  IInv'
<1>1. UsersOK' /\ TokensOK' /\ BrowserOK'
  BY SameUsers, SameTokens, SamePages DEF IInv
<1>2. /\ FrameOK' /\ frame'[p].at = "idle" /\ \A q \in Processes \ {p} : frame'[q] = frame[q]
  BY IdleFrame DEF IInv, Refuse
<1>3. CASE p = "web"
  <2>1. frame["web"].id \in Ids /\ Answer(frame["web"].id, code, "none", NoToken)
    BY <1>3 DEF IInv, Serves, Refuse
  <2>2. CallsOK'
    BY <2>1, AnswerCalls, Nothing DEF IInv, AnswerCode, User
  <2>3. Serves'
    BY <1>2, <1>3, ServesNobody
  <2> QED BY <1>1, <1>2, <2>2, <2>3 DEF IInv
<1>4. CASE p = "cli"
  <2>1. UNCHANGED calls /\ frame'["web"] = frame["web"]
    BY <1>2, <1>4 DEF Refuse, Processes
  <2>2. CallsOK' /\ Serves'
    BY <2>1 DEF IInv, CallsOK, Serves
  <2> QED BY <1>1, <1>2, <2>2 DEF IInv
<1> QED BY <1>3, <1>4 DEF Processes

LEMMA InsertInv ==
  ASSUME IInv, NEW p \in Processes, Insert(p)
  PROVE  IInv'
<1> DEFINE row == frame[p].row
<1>1. row \in Row /\ frame \in [Processes -> FrameState] /\ users' = users \cup {row}
      /\ \A r \in users : r.name # row.name
  BY DEF IInv, FrameOK, Insert, KeyTaken
<1>2. UsersOK'
  BY <1>1 DEF IInv, UsersOK, OneAccountEach
<1>3. TokensOK' /\ BrowserOK' /\ CallsOK'
  <2>1. UNCHANGED <<run, sequence, sessions, calls, browser>>
    BY DEF Insert
  <2> QED BY <2>1, SameTokens, SamePages DEF IInv, CallsOK
<1>4. CASE p = "web"
  <2> DEFINE f == [frame["web"] EXCEPT !.at = "login"]
  <2>1. frame' = [frame EXCEPT !["web"] = f] /\ frame["web"].at = "insert"
    BY <1>4 DEF Insert
  <2>2. frame["web"] \in FrameState
    BY <1>1 DEF Processes
  <2>3. /\ f \in FrameState /\ f.at = "login" /\ f.row = row /\ f.id = frame["web"].id
    BY <1>4, <2>2 DEF FrameState
  <2> HIDE DEF f
  <2>4. frame'["web"] = f /\ \A q \in Processes \ {"web"} : frame'[q] = frame[q]
    BY <1>1, <2>1 DEF Processes
  <2>5. FrameOK'
    BY <1>1, <2>1, <2>3, <2>4 DEF IInv, FrameOK, Processes
  <2>6. Serves'
    BY <2>1, <2>3, <2>4 DEF IInv, Serves, Insert
  <2> QED BY <1>2, <1>3, <2>5, <2>6 DEF IInv
<1>5. CASE p = "cli"
  <2>1. frame' = [frame EXCEPT !["cli"] = NoFrame]
    BY <1>5 DEF Insert
  <2>2. /\ frame'["cli"] = NoFrame /\ frame'["web"] = frame["web"]
        /\ frame' \in [Processes -> FrameState] /\ NoFrame.at = "idle"
    <3>1. NoFrame.at = "idle"
      BY DEF NoFrame
    <3> QED BY <1>1, <2>1, <3>1, Nothing DEF Processes
  <2>3. FrameOK'
    BY <1>1, <2>2 DEF IInv, FrameOK, Processes
  <2>4. Serves'
    BY <2>2 DEF IInv, Serves, Insert
  <2> QED BY <1>2, <1>3, <2>3, <2>4 DEF IInv
<1> QED BY <1>4, <1>5 DEF Processes

LEMMA CliRegisterInv ==
  ASSUME IInv, CliRegister
  PROVE  IInv'
<1>1. PICK r \in CliTyped : Inserts("cli", 0, r)
  BY DEF CliRegister
<1> DEFINE f == [at |-> "insert", id |-> 0, row |-> r]
<1>2. r \in Row
  BY SessionsAssumption
<1>3. f \in FrameState /\ f.row = r /\ frame' = [frame EXCEPT !["cli"] = f]
  BY <1>1, <1>2 DEF FrameState, Inserts
<1> HIDE DEF f
<1>4. frame'["cli"] = f /\ frame'["web"] = frame["web"] /\ frame' \in [Processes -> FrameState]
  BY <1>3 DEF IInv, FrameOK, Processes
<1>5. FrameOK'
  BY <1>2, <1>3, <1>4 DEF IInv, FrameOK, Processes, CliRegister
<1>6. Serves' /\ CallsOK'
  BY <1>4 DEF IInv, Serves, CallsOK, CliRegister
<1>7. UsersOK' /\ TokensOK' /\ BrowserOK'
  BY SameUsers, SameTokens, SamePages DEF IInv, CliRegister
<1> QED BY <1>5, <1>6, <1>7 DEF IInv

\* Nobody deletes the row that was inserted: the new user gets in.
LEMMA LoginNewInv ==
  ASSUME IInv, LoginNew
  PROVE  IInv'
<1> DEFINE i == frame["web"].id
           row == frame["web"].row
<1>1. i \in Ids /\ row \in users /\ row \in Row
  BY DEF IInv, Serves, FrameOK, Processes, LoginNew
<1>2. TokensOK' /\ CallsOK'
  BY <1>1, LoginCalls DEF LoginNew
<1>3. UsersOK' /\ BrowserOK'
  BY SameUsers, SamePages DEF IInv, LoginNew
<1>4. FrameOK' /\ Serves'
  BY IdleFrame, ServesNobody DEF IInv, LoginNew, Processes
<1> QED BY <1>2, <1>3, <1>4 DEF IInv

LEMMA LoseInv ==
  ASSUME IInv, NEW i \in Ids, Lose(i)
  PROVE  IInv'
<1>1. CallsOK' /\ \A j \in Ids \ {i} : calls'[j] = calls[j]
  BY AnswerCalls, Nothing DEF IInv, Lose, AnswerCode, User
<1>2. UsersOK' /\ TokensOK' /\ BrowserOK' /\ FrameOK'
  BY SameUsers, SameTokens, SamePages, SameFrames DEF IInv, Lose, server
<1>3. Serves'
  BY <1>1 DEF IInv, Serves, Lose, server
<1> QED BY <1>1, <1>2, <1>3 DEF IInv

LEMMA RestartInv ==
  ASSUME IInv, Restart
  PROVE  IInv'
<1>1. TokensOK'
  <2>1. run' \in Runs /\ sequence' = 0 /\ sessions' = <<>>
    BY DEF Restart
  <2>2. 0 \in 0 .. MaxSequence[run']
    BY <2>1, Counts
  <2>3. DOMAIN sessions' = {} /\ sessions' \in [DOMAIN sessions' -> Names]
    BY <2>1
  <2> QED BY <2>1, <2>2, <2>3 DEF TokensOK
<1>2. UsersOK' /\ BrowserOK'
  BY SameUsers, SamePages DEF IInv, Restart
<1>3. FrameOK' /\ Serves'
  BY IdleFrame, ServesNobody DEF IInv, Restart, Processes
<1>4. CallsOK'
  <2>1. CASE frame["web"].at = "idle"
    BY <2>1 DEF IInv, CallsOK, Restart
  <2>2. CASE frame["web"].at # "idle"
    <3>1. frame["web"].id \in Ids /\ Answer(frame["web"].id, "failed", "none", NoToken)
      BY <2>2 DEF IInv, Serves, Restart
    <3> QED BY <3>1, AnswerCalls, Nothing DEF IInv, AnswerCode, User
  <2> QED BY <2>1, <2>2
<1> QED BY <1>1, <1>2, <1>3, <1>4 DEF IInv

LEMMA StutterInv ==
  ASSUME IInv, UNCHANGED vars
  PROVE  IInv'
<1>1. UNCHANGED <<users, run, sequence, sessions, frame, calls, browser>>
  BY DEF vars, server
<1>2. UsersOK' /\ TokensOK' /\ BrowserOK' /\ FrameOK'
  BY <1>1, SameUsers, SameTokens, SamePages, SameFrames DEF IInv
<1>3. CallsOK' /\ Serves'
  BY <1>1 DEF IInv, CallsOK, Serves
<1> QED BY <1>2, <1>3 DEF IInv
-----------------------------------------------------------------------------
\* The invariant holds whatever is lost, late, raced for or restarted.
THEOREM SessionsInv == Spec => []IInv
<1>1. IInv /\ [Next]_vars => IInv'
  <2> SUFFICES ASSUME IInv, [Next]_vars PROVE IInv'
    OBVIOUS
  <2>1. CASE UNCHANGED vars
    BY <2>1, StutterInv
  <2>2. ASSUME NEW t \in Tabs, Load(t) \/ Submit(t) \/ ClickLogout(t) \/ LoadOrders(t) \/ Page(t)
        PROVE  IInv'
    BY <2>2, LoadInv, SendInv, HandlerInv DEF Page
  <2>3. ASSUME NEW i \in Ids, Handle(i) \/ Lose(i) PROVE IInv'
    BY <2>3, HandleInv, LoseInv
  <2>4. ASSUME NEW p \in Processes, Register(p) PROVE IInv'
    <3>1. CASE Insert(p)
      BY <3>1, InsertInv
    <3>2. CASE InsertRefused(p) \/ StatementFails(p)
      <4>1. PICK code \in {"taken", "failed"} : Refuse(p, code)
        BY <3>2 DEF InsertRefused, StatementFails
      <4>2. frame[p].at # "idle" /\ UNCHANGED <<users, run, sequence, sessions, browser>>
        BY <3>2 DEF InsertRefused, StatementFails
      <4> QED BY <4>1, <4>2, RefuseInv
    <3> QED BY <2>4, <3>1, <3>2 DEF Register
  <2>5. CASE LoginNew \/ CliRegister \/ Restart
    BY <2>5, LoginNewInv, CliRegisterInv, RestartInv
  <2> QED BY <2>1, <2>2, <2>3, <2>4, <2>5 DEF Next, Processes
<1> QED BY InitInv, <1>1, PTL DEF Spec

\* Every variable stays in its type, and every session has a token that its
\* own run of the web process counted.
THEOREM SessionsTypes == Spec => []TypeOK
BY SessionsInv, TypesOfParts, PTL

\* However two processes race to register a name, it has one account.
THEOREM OneAccountEachHolds == Spec => []OneAccountEach
BY SessionsInv, TypesOfParts, PTL

\* A registration is never answered that its own name and password are wrong.
THEOREM RegisteredGetsInHolds == Spec => []RegisteredGetsIn
BY SessionsInv, TypesOfParts, PTL

\* login() gives out a token or none.
LEMMA LoginTokens ==
  ASSUME IInv, UNCHANGED run, NEW i \in Ids, NEW row, Login(i, row)
  PROVE  \A k \in DOMAIN sessions' : k # NewToken =>
           k \in DOMAIN sessions /\ sessions'[k] = sessions[k]
<1>1. CASE \E r \in users : /\ r.name = row.name /\ r.password = row.password
                            /\ CreateSession(i, r.name)
  <2>1. PICK r \in users : CreateSession(i, r.name)
    BY <1>1
  <2>2. r.name \in Names
    BY RowTyped DEF IInv, UsersOK
  <2> QED BY <2>1, <2>2, CreateSessionTokens
<1>2. CASE UNCHANGED sessions
  BY <1>2
<1> QED BY <1>1, <1>2 DEF Login

\* A token that was given out is never accepted again once it was logged out
\* or its process ended, and never for another user.
THEOREM TokensNeverReturnHolds == Spec => TokensNeverReturn
<1> DEFINE Given(k) == k.run < run \/ (k.run = run /\ k.seq < sequence)
           Kept == \A k \in DOMAIN sessions' :
                     Given(k) => k \in DOMAIN sessions /\ sessions'[k] = sessions[k]
<1>1. ASSUME IInv, [Next]_vars PROVE [Kept]_vars
  <2>1. CASE UNCHANGED sessions
    BY <2>1
  <2>2. ASSUME UNCHANGED run,
               \A k \in DOMAIN sessions' : k # NewToken =>
                 k \in DOMAIN sessions /\ sessions'[k] = sessions[k]
        PROVE  Kept
    <3>1. run \in Int /\ sequence \in Int
      BY <1>1, Counts DEF IInv, TokensOK
    <3>2. ~Given(NewToken)
      BY <3>1 DEF NewToken
    <3> HIDE DEF Given
    <3> QED BY <2>2, <3>2
  <2>3. ASSUME NEW i \in Ids, Handle(i) PROVE Kept
    <3>1. CASE HandleLogin(i)
      BY <1>1, <2>2, <3>1, LoginTokens DEF HandleLogin
    <3>2. CASE HandleLogout(i)
      <4>1. sessions' = [k \in DOMAIN sessions \ {calls[i].token} |-> sessions[k]]
        BY <3>2 DEF HandleLogout, Restrict
      <4> QED BY <4>1
    <3>3. CASE HandleUser(i) \/ HandleRegister(i)
      BY <2>1, <3>3 DEF HandleUser, HandleRegister, server
    <3> QED BY <2>3, <3>1, <3>2, <3>3 DEF Handle
  <2>4. CASE LoginNew
    <3>1. frame["web"].id \in Ids /\ UNCHANGED run
      BY <1>1, <2>4 DEF IInv, Serves, LoginNew
    <3> QED BY <1>1, <2>2, <2>4, <3>1, LoginTokens DEF LoginNew
  <2>5. CASE Restart
    BY <2>5 DEF Restart
  <2>6. ASSUME NEW t \in Tabs, Load(t) \/ Submit(t) \/ ClickLogout(t) \/ LoadOrders(t) \/ Page(t)
        PROVE  UNCHANGED sessions
    BY <2>6 DEF Load, Submit, ClickLogout, LoadOrders, Page, Restore, RestoreNothing,
                ClearSession, SaveSession, SaveUser, SaveOrders, ShowError, server
  <2>7. ASSUME NEW i \in Ids, Lose(i) PROVE UNCHANGED sessions
    BY <2>7 DEF Lose, server
  <2>8. ASSUME NEW p \in Processes, Register(p) PROVE UNCHANGED sessions
    BY <2>8 DEF Register, Insert, InsertRefused, StatementFails
  <2>9. CASE CliRegister \/ UNCHANGED vars
    BY <2>9 DEF CliRegister, vars, server
  <2> QED BY <1>1, <2>1, <2>3, <2>4, <2>5, <2>6, <2>7, <2>8, <2>9 DEF Next, Processes
<1> QED BY SessionsInv, <1>1, PTL DEF Spec, TokensNeverReturn
-----------------------------------------------------------------------------
LEMMA TokenFacts ==
  ASSUME NEW k \in Token \ {NoToken}
  PROVE  k.run \in Runs /\ k.run \in Nat \ {0} /\ k.seq \in Nat /\ k = [run |-> k.run, seq |-> k.seq]
<1>1. PICK r \in Runs : k \in [run : {r}, seq : 0 .. MaxSequence[r] - 1]
  BY DEF Token
<1>2. MaxSequence[r] \in Nat /\ r \in Nat \ {0}
  BY Counts
<1>3. k.run = r /\ k.seq \in 0 .. MaxSequence[r] - 1 /\ k = [run |-> k.run, seq |-> k.seq]
  BY <1>1
<1> QED BY <1>2, <1>3

LEMMA SpentKept == ASSUME UNCHANGED <<run, sequence>> PROVE Spent' = Spent
BY DEF Spent

\* A login under a new token is a login of Logins, and spends that token.
LEMMA CreateSessionMapped ==
  ASSUME IInv, UNCHANGED <<run, users>>, NEW i \in Ids, NEW r \in users, CreateSession(i, r.name)
  PROVE  Abstract!Next
<1> DEFINE n == NewToken
<1>1. /\ n \in Token /\ run \in Nat \ {0} /\ sequence \in Nat /\ sequence' = sequence + 1
      /\ n = [run |-> run, seq |-> sequence]
  BY NewTokenTyped, Counts DEF IInv, TokensOK, CreateSession, NewToken
<1>2. n \notin Spent /\ n # NoToken
  BY <1>1 DEF Spent, NoToken
<1>3. sessions' = [j \in DOMAIN sessions \cup {n} |-> IF j = n THEN r.name ELSE sessions[j]]
  BY DEF CreateSession
<1> HIDE DEF n
<1>4. Spent' = Spent \cup {n}
  <2>1. ASSUME NEW k \in Token \ {NoToken}
        PROVE  (k \in Spent)' <=> k \in Spent \/ k = n
    <3>1. /\ k.run \in Nat /\ k.seq \in Nat /\ k = [run |-> k.run, seq |-> k.seq]
          /\ (k \in Spent)' <=> k.run < run \/ (k.run = run /\ k.seq < sequence + 1)
          /\ k \in Spent <=> k.run < run \/ (k.run = run /\ k.seq < sequence)
      BY <1>1, TokenFacts DEF Spent
    <3>2. k = n <=> k.run = run /\ k.seq = sequence
      BY <1>1, <3>1
    <3>3. k.seq < sequence + 1 <=> k.seq < sequence \/ k.seq = sequence
      BY <1>1, <3>1
    <3> QED BY <3>1, <3>2, <3>3
  <2>2. Spent \subseteq Token \ {NoToken} /\ Spent' \subseteq Token \ {NoToken}
    BY DEF Spent
  <2> QED BY <1>1, <1>2, <2>1, <2>2
<1>5. Abstract!LogIn(r, n)
  BY <1>2, <1>3, <1>4 DEF Abstract!LogIn
<1> QED BY <1>1, <1>5 DEF Abstract!Next

LEMMA LoginMapped ==
  ASSUME IInv, UNCHANGED <<run, users>>, NEW i \in Ids, NEW row, Login(i, row)
  PROVE  Abstract!Next \/ UNCHANGED Abstract!vars
<1>1. CASE \E r \in users : /\ r.name = row.name /\ r.password = row.password
                            /\ CreateSession(i, r.name)
  BY <1>1, CreateSessionMapped
<1>2. CASE UNCHANGED <<sessions, sequence>>
  BY <1>2, SpentKept DEF Abstract!vars
<1> QED BY <1>1, <1>2 DEF Login

\* With its process all sessions end, and all tokens that it had.
LEMMA RestartMapped ==
  ASSUME IInv, Restart
  PROVE  Abstract!Next
<1>1. run \in Nat \ {0} /\ sequence \in Int /\ run' = run + 1 /\ sequence' = 0
  BY Counts DEF IInv, TokensOK, Restart
<1>2. Spent \subseteq Spent' /\ Spent' \in SUBSET Token
  <2>1. Spent' \in SUBSET Token
    BY DEF Spent
  <2>2. ASSUME NEW k \in Spent PROVE (k \in Spent)'
    <3>1. k \in Token \ {NoToken} /\ (k.run < run \/ k.run = run)
      BY <2>2 DEF Spent
    <3>2. k.run < run'
      BY <1>1, <3>1, TokenFacts
    <3> QED BY <3>1, <3>2 DEF Spent
  <2> QED BY <2>1, <2>2
<1>3. sessions' = Abstract!Restrict(sessions, {})
  BY DEF Restart, Abstract!Restrict
<1>4. Abstract!End({})
  BY <1>2, <1>3 DEF Restart, Abstract!End
<1> QED BY <1>4 DEF Abstract!Next

\* Every statement, message and failure is a step of Logins or none: this is
\* OneAccountEach and TokensNeverReturn, and that accounts stay and that nobody
\* has a session who has no account.
THEOREM SessionsImplementLogins == Spec => RefinesLogins
<1>1. ASSUME Init PROVE Abstract!Init
  <2>1. Spent = {}
    <3> SUFFICES ASSUME NEW k \in Spent PROVE FALSE
      OBVIOUS
    <3>1. k \in Token \ {NoToken} /\ (k.run < 1 \/ k.seq < 0)
      BY <1>1 DEF Init, Spent
    <3> QED BY <3>1, TokenFacts
  <2> QED BY <1>1, <2>1 DEF Init, Abstract!Init
<1>2. ASSUME IInv, [Next]_vars PROVE [Abstract!Next]_(Abstract!vars)
  <2>1. ASSUME UNCHANGED <<users, run, sequence, sessions>> PROVE UNCHANGED Abstract!vars
    BY <2>1, SpentKept DEF Abstract!vars
  <2>2. ASSUME NEW t \in Tabs, Load(t) \/ Submit(t) \/ ClickLogout(t) \/ LoadOrders(t) \/ Page(t)
        PROVE  UNCHANGED <<users, run, sequence, sessions>>
    BY <2>2 DEF Load, Submit, ClickLogout, LoadOrders, Page, Restore, RestoreNothing,
                ClearSession, SaveSession, SaveUser, SaveOrders, ShowError, server
  <2>3. ASSUME NEW i \in Ids, HandleLogin(i)
        PROVE  Abstract!Next \/ UNCHANGED Abstract!vars
    BY <1>2, <2>3, LoginMapped DEF HandleLogin
  <2>4. ASSUME NEW i \in Ids, HandleLogout(i) PROVE Abstract!Next
    <3> DEFINE K == DOMAIN sessions \ {calls[i].token}
    <3>1. sessions' = Abstract!Restrict(sessions, K) /\ UNCHANGED <<users, run, sequence>>
      BY <2>4 DEF HandleLogout, Restrict, Abstract!Restrict
    <3>2. Spent' = Spent /\ Spent \in SUBSET Token
      BY <3>1, SpentKept DEF Spent
    <3>3. Abstract!End(K)
      BY <3>1, <3>2 DEF Abstract!End
    <3> QED BY <3>3 DEF Abstract!Next
  <2>5. ASSUME NEW i \in Ids, HandleUser(i) \/ HandleRegister(i) \/ Lose(i)
        PROVE  UNCHANGED <<users, run, sequence, sessions>>
    BY <2>5 DEF HandleUser, HandleRegister, Lose, server
  <2>6. ASSUME NEW p \in Processes, Insert(p) PROVE Abstract!Next
    <3>1. frame[p].row \in Row
      BY <1>2, <2>6 DEF IInv, FrameOK, Insert
    <3>2. Spent' = Spent
      BY <2>6, SpentKept DEF Insert
    <3>3. Abstract!SignUp(frame[p].row)
      BY <2>6, <3>2 DEF Insert, KeyTaken, Abstract!SignUp
    <3> QED BY <3>1, <3>3 DEF Abstract!Next
  <2>7. ASSUME NEW p \in Processes, InsertRefused(p) \/ StatementFails(p)
        PROVE  UNCHANGED <<users, run, sequence, sessions>>
    BY <2>7 DEF InsertRefused, StatementFails
  <2>8. CASE LoginNew
    <3>1. frame["web"].id \in Ids /\ UNCHANGED <<run, users>>
      BY <1>2, <2>8 DEF IInv, Serves, LoginNew
    <3> QED BY <1>2, <2>8, <3>1, LoginMapped DEF LoginNew
  <2>9. CASE Restart
    BY <1>2, <2>9, RestartMapped
  <2>10. CASE CliRegister \/ UNCHANGED vars
    BY <2>1, <2>10 DEF CliRegister, vars, server
  <2> QED
    BY <1>2, <2>1, <2>2, <2>3, <2>4, <2>5, <2>6, <2>7, <2>8, <2>9, <2>10
    DEF Next, Handle, Register, Processes
<1> QED BY SessionsInv, <1>1, <1>2, PTL DEF Spec, RefinesLogins, Abstract!Spec
=============================================================================
