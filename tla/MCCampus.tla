------------------------------ MODULE MCCampus ------------------------------
(* Instances of Campus for TLC. *)
EXTENDS Campus, TLC

Admin == [role |-> "ADMIN", status |-> "ACTIVE"]
Student == [role |-> "USER", status |-> "ACTIVE"]
Disabled(row) == [row EXCEPT !.status = "DISABLED"]

\* Symbolic users: the administrator and a student.
Rows == "admin" :> Admin @@ "student" :> Student

\* The rows they may be given.
May(admin, student) == "admin" :> admin @@ "student" :> student

File == [texts |-> "given", serverPort |-> 8080, mysqlPort |-> 3306, threadPool |-> 4, mysqlPool |-> 8]
TwoFiles == {File, [File EXCEPT !.mysqlPool = 1025]}

Get(path) == [method |-> "GET", path |-> <<"">> \o path, body |-> "none", user |-> "none"]
Post(path, body) == [Get(path) EXCEPT !.method = "POST", !.body = body]
Login(user) == [Post(<<"api", "login">>, "right") EXCEPT !.user = user]
Buy(id) == Post(<<"api", "activities", id, "purchase">>, "none")

StaticFiles == {<<"index.html">>, <<"", "motd">>}

Want(first, second) == "c1" :> first @@ "c2" :> second

\* A student buys on the web and from the terminal.
Race == [up |-> Processes, starts |-> 0, faults |-> 1, adjusted |-> May({}, {}),
         wanted |-> Want({Login("student"), Buy("1")}, {}), requests |-> 2,
         picked |-> {"login", "purchase"}, picks |-> 2]

\* An administrator, demoted and restored, and a visitor of a web server that may
\* die and be started again.
Office == [up |-> {"web"}, starts |-> 1, faults |-> 1,
           adjusted |-> May({Student, Admin}, {}),
           wanted |-> Want({Login("admin"), Post(<<"api", "activities">>, "right")},
                           {Get(<<"">>)}), requests |-> 2,
           picked |-> {}, picks |-> 0]

\* Everything the routes offer, and what they do not, to a student who is made an
\* administrator, disabled or both.
Morning == [up |-> {"web"}, starts |-> 0, faults |-> 0,
            adjusted |-> May({}, {Admin, Disabled(Student)}),
            wanted |-> Want({Login("student"), Login("none"), Post(<<"api", "login">>, "none")}
                            \cup {Post(<<"api", what>>, body) : what \in {"register", "products"},
                                                               body \in {"right", "invalid", "none"}}
                            \cup {Post(<<"api", "activities">>, "unknown"), Post(<<"api", "logout">>, "none")}
                            \cup {Get(<<"api", what>>) : what \in {"health", "me", "products", "",
                                                                  "activities", "orders"}}
                            \cup {Get(<<"api", "products", id>>) : id \in {"0", "1", "9"}}
                            \cup {Buy(id) : id \in {"0", "1", "9"}}
                            \cup {Get(<<"api", "admin", "summary">>), Get(<<"..", "app">>)}
                            \cup {Get(<<"", "motd">>), Post(<<"nowhere">>, "none")}, {}),
            requests |-> 4, picked |-> {}, picks |-> 0]

\* Everything the menus offer, while the administrator is disabled and enabled.
Evening == [up |-> {}, starts |-> 1, faults |-> 1,
            adjusted |-> May({Disabled(Admin), Admin}, {}),
            wanted |-> Want({}, {}), requests |-> 0,
            picked |-> Calls, picks |-> 2]

AllDays == {Race, Office, Morning, Evening}
=============================================================================
