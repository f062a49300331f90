# campus-flash-sale: specification and verification

TLA+ modules of the campus flash sale, TLC configurations that check them on
small instances, and proofs that TLAPS checks for every value of the constants.
Paths such as `FlashSaleService.cpp:78` are below the repository's `src/` (the C++
tree repeats the name: `src/service/...`); `PROJECT.json` maps each definition to
its lines.

    tlc -workers 2 -config purchase.cfg MCPurchase     # any run of the table below
    tlapm PurchaseProofs.tla                           # any *Proofs module

## 1. The system

A sale opens for a time window with a stock of units. Users race for them, each
may buy one unit of an activity, and every sale is an order, an inventory log and
a decrement of the stock, committed in one MySQL transaction. A web process
serves all users from one thread with one MySQL connection; more web processes,
a command line and the threads of the concurrency test may sell from the same
database at the same time.

| Component | State | Operations | Talks to |
|---|---|---|---|
| FlashSaleService | order sequence of the process | `purchase` | DAOs, inside one Transaction |
| Transaction, MySqlConnection, PreparedStatement | open transaction, link | begin, commit, rollback, execute, query | MySQL |
| DAOs | none | one SQL statement each | PreparedStatement |
| Schema | tables, unique and foreign keys, triggers | | InnoDB |
| ActivityService, ProductService | none | `create`, `publish`, queries | DAOs |
| AdminService | none | `listActivitySummaries` | DAOs, several SELECTs outside a transaction |
| AuthService, OrderService | none | `registerUser`, `login`; `listMyOrders` | UserDao, OrderDao |
| Enums, mappers of rows | none | names to and from values, rows to structures | DAOs |
| WebApp | `sessions_`: token to user | one handler per route | services; called by HttpServer |
| CliApp | `currentUser_`, `running_` | menus, prompts | services |
| Start-up (`main.cpp`, Config) | connection, application | configure, connect, verify, run | MySQL, WebApp or CliApp |
| Reactor (EventLoop, Epoll, Channel, Acceptor, TcpServer, TcpConnection, Buffer) | `connections_`, buffers, interest in events | accept, read, write, close | kernel; calls HttpServer |
| HTTP (HttpServer, HttpRequest, HttpResponse) | routes | frame a request, dispatch it, answer and close | TcpConnection, WebApp |
| Page (`web/app.js`) | token, user, orders, summary; localStorage | login, logout, refresh, purchase | HTTP, several calls in flight |

What is hard in it: transactions of several sessions interleave at every statement,
reads come from a snapshot while updates see the latest row, a statement may wait
for a lock, time out or lose its link, COMMIT may succeed without its answer;
processes and the server crash; pages have several calls in flight whose answers
come in any order; the reactor handles a batch of events that its own handlers can
make stale; one thread with one connection, which is never opened again, serves all
clients of a process; sessions and the CLI keep a user as the row was at login;
input and requests may stop anywhere. `PROJECT.json` lists these hazards at their
lines, with the property that covers each.

What makes each part correct:

* purchase: never a unit too many or skipped, one order to a user, stock, orders
  and logs change together or not at all, nobody is refused without cause or told
  of an empty stock that is not, every call ends.
* connections: a failed transaction leaves nothing behind for the next call.
* create and publish: an activity and the status of its product change together,
  whatever status the product had and whenever the seed script is run again.
* summary: what it shows may be late, never a mixture that contradicts itself.
* accounts and sessions: one account for a name, a dead token stays dead.
* reactor: responses are whole, nobody is forgotten, descriptors are not mixed up.
* HTTP: what runs is the requests the client meant, wherever their bytes are cut.
* deployment: no stale session or menu gives authority, a refusal has its reason,
  nothing is locked while a person types, every request and every session of the
  CLI ends.
* rows: what the schema admits the mappers read, and enumerations survive.

## 2. Modules

| Module | Models | Correspondence |
|---|---|---|
| `FlashSale` | the abstract sale | state: stock and the units sold; one action, `Sell` |
| `Purchase` | `FlashSaleService::purchase` over MySQL, with crashes | one action for each statement; `frame` holds the locals, `tx` what the transaction locked and wrote, `link` the TCP link, `reply` the error being thrown |
| `Summary` | AdminService, `adminSummary` and the page's answers | EXTENDS `FlashSale`: its `Sell` steps run between the SELECTs |
| `Offers` | the abstract catalog | state: status of products, activities; one action for `publish`, one for `create`, one for the seed script |
| `Catalog` | `ProductService::publish`, `ActivityService::create` | like `Purchase`, with the shared lock of the foreign key check and InnoDB's deadlock detection; it starts with the seed data, and `Seed` is its script run again |
| `Logins` | abstract accounts and sessions | state: users, sessions, the tokens that are spent; sign up, log in, end sessions |
| `Sessions` | AuthService, the session table, the page's login state | `calls` are HTTP calls from sending to handling; `frame` is a registration between two statements |
| `Reactor` | event loop, connections, TCP clients | `batch` is the result of one poll; `at` is how far `Channel::handleEvent` has come |
| `Http` | `tryParseHttpRequest` | functions on a buffer: how much of it the first request is |
| `Routing` | `HttpServer::dispatch`, `serveStatic` | functions on a path and the table of routes |
| `Services` | the services as a front end calls them; start-up; one connection for each process | `frame[p]` is the call of process `p`, `phase` how far `main()` is, `link` the connection, `holder` who has the row on sale locked; a purchase is its checks, its UPDATE and its COMMIT; `account` are the rows of users, and `rights` and `had`, for the properties only, what they were |
| `Terminal` | CliApp | EXTENDS `Services`: `cli` is the operation being typed, `current` is `currentUser_` |
| `WebServer` | WebApp on HttpServer | EXTENDS `Services` and `Routing`: `client` is the request of a client, `sessions` is `sessions_` |
| `Campus` | the deployment: both processes, clients and a user on one database, with crashes | EXTENDS `Terminal` and `WebServer` |
| `Rows` | column types of the schema, readers and mappers of rows, enumerations | definitions without state |
| `FlashSaleProofs`, `PurchaseProofs`, `SummaryProofs`, `CatalogProofs`, `SessionsProofs`, `ReactorProofs`, `CampusProofs`, `RowsProofs` | theorems | section 5; `ReactorProofs` has those of `Http` too |
| `MCPurchase`, `MCSummary`, `MCCatalog`, `MCSessions`, `MCReactor`, `MCCampus` | instances for TLC | values of the constants |

Composition: `Purchase` implements `FlashSale` (`Sale == INSTANCE FlashSale WITH
sales <- Sales`, where a sale is an order joined with its log); `Summary` runs
the administrator's reads against `FlashSale`, which the refinement justifies:
what they read is committed rows, and those move only by `Sell`. `Campus` composes
the services with both front ends, where a purchase is three steps: waiting for
the row, holding it with the stock that was read, sold. It writes the tables by
these steps of its own, and implements `FlashSale` again (`RefinesSale`), now with
two front ends, their crashes and their connections around it.
`Catalog` implements `Offers`, with the same variables, and
`Sessions` implements `Logins`, where the spent tokens are those of earlier runs and
those below the sequence of this one. `Reactor` frames what it has read with `Http`.

A definition called *Mutant of X* is a plausible mistake in X. It is not used by
the specification; it shows that the properties would notice.

### How MySQL is modelled

Tables hold committed rows. What an open transaction wrote and locked is in
`tx[s]` until COMMIT publishes it in one step, and ROLLBACK, a restart of the
server or the server noticing a dead client discards it. The isolation level is
the default, REPEATABLE READ, which the code never changes: the first SELECT of a
transaction fixes its view (in `purchase`, all SELECTs before the UPDATE are one
atomic step for that reason), an UPDATE works on the latest committed row and
holds its lock to the end, also when the rest of its WHERE clause fails. NOW(3) is
fixed when the UPDATE is sent, before it waits. An INSERT waits for an
uncommitted row with the same unique key. AUTO_INCREMENT of 5.7 is in memory
and starts over behind the largest committed id after a restart. A lock wait
timeout undoes the statement and leaves the transaction open.

Simplifications, each meant to lose nothing the properties tell apart:

* One clock serves MySQL and its clients (order numbers and sale windows).
* In `Purchase`, the user and the status and window of an activity are constants: no
  service changes them. An administrator of the database does, or the seed script
  run again, which sets role and status of its users and status and window of its
  activities back and leaves stocks alone; for users that is `Alter` of `Services`.
  The row of a product is never missing to `purchase`: a foreign key keeps it.
* `purchase` takes the row lock of one activity, and its foreign key checks take
  shared locks on rows nobody there updates; they close no cycle. The deadlock of
  three inserts of one duplicate key is not modelled.
* A process starts again only when the server has dropped its old transactions.
* In `Http`, a line is one unit of length, of a body too. The sum of head and
  Content-Length is taken modulo `SizeModulus`, as in a `size_t`; a request is
  well-formed when its real length is below that.
* In `Services`, the statements of a call that change nothing the properties tell
  apart are one step: the row of the user with the checks behind it, then the
  transaction. The row of an activity is what calls lock against each other. Roles
  and status change, in both directions, by `Alter`: an administrator of the database
  (registration makes no administrators) or the seed script run again. Users are
  not deleted. The user of a call is looked up in the state its view is taken from.
  `WriteRefused` answers what the code answers to an error of MySQL without a lost
  connection too (409 for 1062, else 500).
* In `Routing`, a path that begins with two slashes names an absolute file, as the
  root is dropped when the rest of the path begins with one (`HttpServer.cpp:122`);
  the names of files that can be opened are the constant `Files`.
* In `Campus`, a day is chosen at the start: who is running, what is asked for and
  typed, what may fail. The login behind a registration on the web is in `Sessions`
  alone. A process starts again when the server has dropped its old transaction.
* In `Catalog`, `Refuse` stands for every check that fails before the product is
  read; the status of the product is not among them. A connection lost there is a
  restarted session. Nothing but `create()` and the seed script changes a status; the
  seed script is one step, taken when nobody holds a lock on its products.
* In `Reactor`, bytes are units, one read takes all that has come (the buffer
  is 64 KiB), epoll reports every ready channel, and a poll that times out
  changes nothing. EPOLLHUP without EPOLLIN cannot come up while reading is
  enabled. What a freed channel holds is left open: its `revents_` still has its
  value, and a call through it ends the process or does nothing. A write to a
  connection that was shut down and then reset raises SIGPIPE, which ends the
  process. A head that never parses is a request that never becomes whole.
* In `Sessions`, a token is the run of the process (for clock and random number)
  and its count. Logins of the CLI keep no token and are left out. Length checks
  refuse before anything changes and are left out. Orders stand for every call that
  only needs a session.

## 3. Runs

All bounds are constants of the modules or of the cfg.

| Run | Instance | States | Shows |
|---|---|---|---|
| `purchase` | 3 threads of one process, 2 active and 1 disabled user, 1 activity open from time 1 to 2 and 1 missing, 2 units, 3 calls, clock 0..2 | 194k | `TypeOK` (no stock below 0), `Ledger`, `OneOrderEach`, `AuditedStock`, `RefusalJustified`, `DuplicateMeansOrdered`, `RefinesFlashSale` |
| `purchase_faults` | 2 processes, 2 activities of 1 unit, 3 calls, 1 failure of any kind | 128k | `Ledger`, `CleanConnection`, `RefinesFlashSale` and, under fairness, `Answered` |
| `summary` | activities of 1 and of 2 units, 2 users, 2 answers on their way | 22k | the invariants of `FlashSale`, `SkewIsOneSided`, `AnswersGrow` |
| `catalog` | 2 sessions, 3 products (of the seed one `SOLD` with an activity and one `OFF_SHELF`, and one to publish), 3 numbers, 3 calls | 90k | `MarkedTogether`, `RefinesOffers` and, under fairness, `Answered` |
| `reactor` | 2 clients, one with a request that has a body and one behind it; responses of 2 units, send buffer 1, one or two descriptors | 560k | `DescriptorsOwned`, `WriteInterest`, `AnswersWhole`, `FramedRight`, `Served`, `Admitted` |
| `sessions` | 1 tab with 2 calls in flight, 2 names, 2 passwords, a CLI, 2 runs of the web process with 2 and 1 sessions | 1.24M | `RegisteredGetsIn`, `TokensNeverReturn`, `RefinesLogins` |
| `campus` | 2 users, stock 2, 2 clients; four kinds of day of up to 4 requests or 2 picks, 1 fault, 1 start | 125k | `AuthorityStands`, `QuietEnd`, `PromptsHoldNothing`, `DenialJustified`, `RefinesSale` and, under fairness, `Answers`, `Exits` |
| `find_*` | as small as the counterexample allows | | section 4 |

Why the bounds are enough for the cases of interest:

* `purchase`: 3 calls on 2 units sell the last unit, lose a race for it, and let
  one user call twice; the window opens and closes while an UPDATE waits.
  `SuffixModulus` is 5, above the number of orders, as 1000000 is above the orders
  of a millisecond. `purchase_faults` puts its one failure at every point of every
  call; with two processes it also has their equal order numbers.
* `summary`: one activity sells out, one does not; two answers are the least
  that can overtake each other.
* `catalog`: two creates collide on a product, on a number, on both or neither, for
  a product with and without an activity; three calls make the third meet what two
  that raced have left. The script may be run again between any two steps.
* `reactor`: requests of several units, responses of 2 and a send buffer of 1 make
  every read and write partial; a request with a body, whose bytes could be taken
  for a request, stands before one without; one
  descriptor for two clients makes accept fail and the number be used again.
* `sessions`: two calls in flight are the least that reorder; the second run is
  there for the tokens of the first. The run has one tab, which reloads; several
  tabs, sharing the storage, are in the module.

* `campus`: the days are `Race` (a student buys on the web and at the terminal, so
  that one waits for the other's row), `Office` (an administrator is demoted and
  restored, or the web process dies and starts again, between requests), `Morning`
  (every route, and what no route fits, with bodies and ids right, wrong, missing, to
  a student who is made an administrator, disabled, or both in turn) and
  `Evening` (every entry of the menus, the input ending at every prompt, the process
  started with a file that loads and one that does not, the administrator disabled
  and enabled). `adjusted` of a day are the rows each user may be given; it bounds
  `Alter` in the runs and is any set in the proofs. One fault at every point is
  a lost, silent or half-committed connection or a killed process.

The cfgs of modules with bounded requests, calls or clients say `CHECK_DEADLOCK
FALSE`: when the bound is used up the system legitimately rests. That no call is
stuck before is what `Answered`, `Served`, `Admitted`, `Answers` and `Exits` say.

### Fairness

* `Purchase`: weak fairness of the statements of each session and of the server's
  clean-up after a dead client (`LiveSpec`). A thread in `purchase` runs on until
  a lock stops it, and then the action is not enabled; TCP keep-alive and
  `wait_timeout` end dead sessions. New calls, failures, restarts and lock
  timeouts are never owed, so `Answered` does not rest on timeouts.
* `Catalog`: weak fairness of the statements, InnoDB's deadlock detection among
  them: it runs at every wait.
* `Reactor`: weak fairness of the loop, which never blocks anywhere but in
  `epoll_wait`, and of clients reading what they are sent, without which no server
  delivers. `Served` speaks of a client that does not shut down or reset.
* `Campus`: weak fairness of the statements of each process but lock timeouts
  (`Proceeds`), of the server's clean-up, of the terminal once there is nothing to
  type, and of the event loop for each client, which reads whoever is ready. Typing,
  starting, faults and changes of rows are never owed. `Answers` and `Exits` make one
  exception: a connection that fell silent, since the client sets no read timeout.
* `Sessions` and `Summary` have safety properties only.

## 4. What the code does otherwise

Each is a run that checks one property, taken from a text of the repository, and
finds it violated.

| Run | Property | What happens |
|---|---|---|
| `find_duplicate` | `DuplicateMeansOrdered` | Two processes number their first orders of a millisecond alike; one buyer is told of an order he does not have. The run `purchase` shows that within one process this cannot happen. |
| `find_dashboard` | `DashboardConsistent` | A sale between two counts makes the dashboard ask for a check of consistent records. `SkewIsOneSided` says how far the numbers may be apart. |
| `find_second_activity` | `PublishedIsFound` | A second activity of a product is refused as *product disappeared*, as the UPDATE changes no row. |
| `find_freed_channel` | `HandlersOutlived` | The end of a client's stream frees the `Channel` inside its own `handleEvent`. |
| `find_orders` | `OrdersAreOwn` | Orders that arrive after another user logged in on the page are shown to that user. |

Seen in the models and tied to no text of the repository: who loses the race for the
last unit is told *unavailable* instead of *sold out*, as the re-read at
`FlashSaleService.cpp:78` sees the old view (`RefusalJustified` shows that the
refusal itself is right, and that *sold out* is never said of an activity with
stock); one silent connection stops a whole process (the exception in `Answers`),
and a lost one makes every later call fail (`Fail`); a 401 to an old call clears a
newer session (`ClearSession`); `restoreSession` may pair a user with the token of
another (`SaveUser`); a user who is made an administrator is told 403 until he logs
in again, as `requireAdmin` goes by the row of the login (`DenialJustified` allows
that row); on the page an older answer of the summary may take the place of a newer
one (`AnswersGrow` says that each is in order, not in which order they are shown); a
registration whose second step fails leaves the account behind (`StatementFails` of
`Sessions`); SIGPIPE (`WriteKills`).

## 5. Proofs

For every set of sessions, processes, users and activities, any stock, window,
number of calls and number of failures, from `PurchaseAssumption` (each session has
a process, stocks are positive, times and the modulus are naturals) and
`StockAssumption` alone:

| Theorem | States |
|---|---|
| `FlashSaleProofs.SaleIsSound` | types, `UnitsSold`, `OneEach`, `Conservation` of the abstract sale; `StockNeverNegative`, `UnitsSoldAlways` and `OneEachAlways` single them out |
| `PurchaseProofs.TypeCorrect` | `[]TypeOK` |
| `LedgerHolds`, `OneOrderEachHolds`, `AuditedStockHolds`, `CleanConnectionHolds` | the safety invariants of the same names |
| `RefusalIsJustified` | `[]RefusalJustified` |
| `Refinement` | `Spec => RefinesFlashSale` |
| `SalesAddUp` | the stock and the sales of the tables add up: `Conservation` carried over by the refinement |
| `DuplicateMeansOrderedHolds` | `[]DuplicateMeansOrdered`, under the conditions below |

The argument. The safety properties are not inductive: that a commit keeps
the ledger depends on what the transaction holds when it commits. `IInv` adds

* `Locked`: a transaction changes only rows it locked, and no row has two lockers;
* `Pending`: the unique keys also hold between open transactions and the tables;
* `Progress`: what the transaction of a live link holds at each statement
  (`Shape`): nothing before the UPDATE, after it the row, a positive stock and
  `after` one below it, then the order, then the log;
* `Called`: a call in progress has a user and an activity;
* `Committed`: `OneOrderEach`, `Ledger`, ids below AUTO_INCREMENT, stock at most the total.

`StepKinds` sorts the steps by what they do to tables and open transactions
(leave them, discard, write in one, publish a sale, restart of the server), so
each part is proved preserved by these few kinds and not by every action again.
`SaleCommitted` is the heart: publishing one finished sale keeps the ledger.
`RefusalIsJustified` adds `RInv`, that what the UPDATE of no row found stays true:
a stock of zero stays zero (`SoldOutStays`) and the statement's time does not move;
and `VInv`, that a view without stock is still right when it is read again.
For `Refinement`, `SaleMapped` shows that a published sale adds exactly one record
to `Sales`; every other step leaves stock and `Sales` alone.

`DuplicateMeansOrdered` is false of the code as it stands (section 4); the theorem
says what keeps it true: all sessions are threads of one process (`OneSequence`),
the process numbers at most `SuffixModulus` orders (`FewNumbers`) and does not start
again in a millisecond in which it numbered a sale (`StartsLater`). Its invariant
`Numbered` keeps every number in use, committed or not, behind the clock and the
sequence (`Earlier`), and the number of an INSERT that is on its way apart from all
of them, so error 1062 can only be about the user. Lost connections, crashes
and restarts of the server and, later than that, of the process are all allowed.

`SummaryProofs`, of any activities, stocks and buyers, however many refreshes and
answers are on their way: `SkewIsOneSidedHolds`, `AnswersGrowHolds`. `SummaryInv` adds to
the invariants of `FlashSale`: `Counting` (each count was taken after the stock
of its row, which only falls while orders and logs only grow), `Answers` (each
answer is `Skewed` on its own) and `Earlier` (what was answered was counted before the
list that is being counted), without which nothing would order a new answer.

`CatalogProofs`, from `SeedAssumption` alone (an activity of the seed is of one of its
products, and a product it has in a flash sale has one): `CatalogTypes`,
`MarkedTogetherHolds`, `OneWinnerHolds`, and `CreateIsAtomic` (`Spec => RefinesOffers`).
None of the invariants is inductive: `Holds` says what a transaction
has written and locked at each statement, in particular that at COMMIT it holds the
exclusive lock of a product that is there and not in a sale, `Fresh` that the numbers of
open transactions are new, `Compatible` that what two of them hold does not conflict.
So until the COMMIT nobody else, nor the seed script, moves the status of its product.
That a product has one activity only is not claimed: one that is sold or off the
shelf gets another, and `docs/database-design.md:124` wants that later for all.
`CommitMapped` shows that a commit is `Create` of `Offers`; every other statement,
deadlock and failure leaves the tables alone.

`SessionsProofs`, from `SessionsAssumption`: `SessionsTypes`, `OneAccountEachHolds`,
`RegisteredGetsInHolds`, and the action property `TokensNeverReturnHolds`. `TokensOK` bounds
each live token by the run and the sequence of the process; that a new token
is above all earlier ones is then `TokensNeverReturn`. `FrameOK` and `Serves` tie the
registration between two statements to its call and to the row it inserted.
`SessionsImplementLogins` (`Spec => RefinesLogins`) goes step by step: an INSERT is a
sign-up, a login and the login behind a registration give out a token that was not
spent (`CreateSessionMapped`), a logout and a restart end sessions (`RestartMapped`),
and all that pages, messages and failures do is a stutter.

`ReactorProofs`, of any clients, descriptors, sizes and scripts of requests, from
`ReactorAssumption`: `ReactorTypes`, `DescriptorsOwnedHolds`, `WriteInterestHolds`,
`AnswersWholeHolds`, `FramedRightHolds`. Its invariant adds

* `Counts`: a connection that is not accepted yet has done nothing, and what was
  read and what waits is not more than what was sent;
* `Handling`: an event left in the batch is of an open connection, so the loop
  never dispatches to one that an earlier event of the batch destroyed;
* `Answered`: what is buffered, on its way and received of a client are the responses
  of the requests that ran;
* `Framing`: while the requests were well-formed, what was consumed ends where a request
  of the script ends, so the next parse starts at the first line of the next.

`RequestIsFramed` (a whole request is cut behind its own body, whatever follows) and
`PartIsNoRequest` (a proper part is none), of every request and every buffer, carry
`Framing` over a read. What they need of the least number with a property, and of
all prefixes of a script, is proved by well-founded induction (`LeastNumber`, `Induct`).

`CampusProofs` is about any users, clients, requests, days and faults, from
`ServicesAssumption`, `TerminalAssumption` and `WebServerAssumption`:

| Theorem | States |
|---|---|
| `CampusTypes` | `[]TypeOK` |
| `AuthorityAlwaysStands` | `[]AuthorityStands` |
| `NoLockAtPrompts` | `[]PromptsHoldNothing` |
| `EndOfInputIsQuiet` | `[]QuietEnd` |
| `DenialsAreJustified` | `[]DenialJustified` |
| `CampusSells` | `Spec => RefinesSale`: both processes implement `FlashSale` |
| `CampusSaleIsSound` | `UnitsSold`, `OneEach` and `Conservation`, carried over |

Its invariant has a part for each module. `SInv`: every call is `Sound` (what it was
permitted, what it found and why it was refused fit a row its user has had) and
every process `Placed` (a call only while it runs, the row only at a sale or without
a link). `Locked`, in it, is what the refinement rests on: while a sale is between
its UPDATE and its COMMIT on a working connection it holds the row, and the stock it
is going to write is one below that of the table (`PurchaseSells`). Without the lock
of `Deduct` that is false, and the run finds two sales of one unit. `TInv`: an
operation in whose prompts the input ended is `Doomed`, by an argument its service
refuses or by the number it still has to read. `WInv`: at most one client is waited
for, the call of the thread is its call, and every denial has its reason.
`Remembering` (`had` only grows, whatever is given or taken) and `SameCall` are all
that a step of one module tells the others, so each part is proved from its own
actions.

`RowsProofs`: `EnumsSurvive` (what is written for a value is in the
ENUM of the schema and is read back as the value) and `RowsAreRead` (each row the
schema admits is mapped without an exception, under `Widths`: the C++ integers hold
those of the columns).

Only model-checked: liveness (`Answered`, `Served`, `Admitted`, `Answers`, `Exits`;
fairness is out of the prover's reach). Every invariant and action property that a
passing run checks is a theorem (`DuplicateMeansOrdered` under its conditions).
`OneWinner` and `OneAccountEach` are theorems only: of what runs check,
`RefinesOffers` and `RefinesLogins` say more.

## 6. Not modelled

* Rendering, forms, messages, JSON, help texts and the text of responses: no state.
* Password digests: a pure function of a string.
* The memory that parameters and columns are bound to (`PreparedStatement.cpp`): it
  lives in one call and is laid out by libmysqlclient.
* The words of a request line, the query string (no handler reads it) and URL
  decoding of a path.
* The queries of `04_queries.sql`, which are run by hand, and of the seed data the order
  and the windows of the activities.

## 7. Plan

Done, in this order: `FlashSale` and `Purchase` with its failures, their proofs,
`Summary`, `Catalog`, `Reactor`, `Sessions`, then `Http`, `Routing`, `Services`,
`Terminal`, `WebServer` and their composition `Campus`, `Rows`, the proofs of all of
them, and `Offers` and `Logins` with the proofs that they are implemented.

Left: abstract specifications of `Reactor` (a request is answered, once, in one step) and
of `Summary` (an answer lies between two states of the sale), with proofs that the
modules implement them.
