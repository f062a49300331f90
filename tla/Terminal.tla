------------------------------- MODULE Terminal -------------------------------
(***************************************************************************)
(* CliApp: the menus of the command line, their prompts, and the user who  *)
(* is signed in.  Input ends when it ends, in the middle of an operation   *)
(* too: readLine then gives an empty line, to this prompt and to every     *)
(* later one, and the menu loop comes to its end.                          *)
(***************************************************************************)
EXTENDS Services

\* What may be picked from the menus on a day, and how often.
ASSUME TerminalAssumption == \A day \in Days : day.picked \subseteq Calls /\ day.picks \in Nat

VARIABLES cli,          \* the operation at hand: where it is, prompts answered,
                        \* and what the service will find of its arguments
          running,      \* running_
          ended,        \* the input has ended
          current,      \* currentUser_, the row as it was at login
          picks

terminal == <<cli, running, ended, current, picks>>

Nobody == [user |-> "none", row |-> NoAccount]
AtMenu == [at |-> "menu", op |-> "none", asked |-> 0, given |-> "right"]

TerminalInit == cli = AtMenu /\ running = TRUE /\ ended = FALSE /\ current = Nobody /\ picks = 0

Guest == {"register", "login", "products", "product", "activities"}
Member == {"products", "product", "activities", "publish", "purchase", "orders"}

\* isAdmin() looks at the row of the login.
Menu == IF current = Nobody THEN Guest
        ELSE Member \cup (IF current.row.role = "ADMIN" THEN {"create", "summary"} ELSE {})

\* Mutant of Prompts: publish asks for the price before the texts.
PromptsPriceFirst(op) ==
  CASE op \in {"register", "login"} -> <<"text", "text">>
    [] op = "publish" -> <<"number", "text", "text", "any">>
    [] op = "create" -> <<"text", "id", "number", "number", "text", "text">>
    [] op \in {"product", "purchase"} -> <<"id">>
    [] OTHER -> <<>>

\* What an operation asks for, in its order: a text the service wants, a text
\* that may be empty, a number it wants above 0, or the number of a row.
Prompts(op) ==
  CASE op \in {"register", "login"} -> <<"text", "text">>
    [] op = "publish" -> <<"text", "text", "any", "number">>
    [] op = "create" -> <<"text", "id", "number", "number", "text", "text">>
    [] op \in {"product", "purchase"} -> <<"id">>
    [] OTHER -> <<>>

Loops == phase["cli"] = "running" /\ cli.at = "menu" /\ running /\ ~ended

Pick(op) == /\ Loops /\ picks < today.picks /\ op \in Menu \cap today.picked
            /\ cli' = [AtMenu EXCEPT !.at = "prompts", !.op = op]
            /\ picks' = picks + 1
            /\ UNCHANGED <<services, running, ended, current>>

Logout == /\ Loops /\ current # Nobody
          /\ current' = Nobody
          /\ UNCHANGED <<services, cli, running, ended, picks>>

\* Exit is picked.
Leave == /\ Loops
         /\ running' = FALSE
         /\ UNCHANGED <<services, cli, ended, current, picks>>

\* The menu's own readLine meets the end of the input.
EndAtMenu == /\ Loops
             /\ running' = FALSE /\ ended' = TRUE
             /\ UNCHANGED <<services, cli, current, picks>>

Asks == phase["cli"] = "running" /\ cli.at = "prompts" /\ cli.asked < Len(Prompts(cli.op))
Asked == Prompts(cli.op)[cli.asked + 1]

\* What readLine brings: something the service accepts, a zero or the like, or
\* an empty line.  Of a number that does not parse an exception comes back to
\* the menu.
Take(value) ==
  \/ /\ value = "empty" /\ Asked \in {"number", "id"}
     /\ cli' = AtMenu
  \/ /\ value = "good" \/ Asked = "any"
     /\ cli' = [cli EXCEPT !.asked = @ + 1]
  \/ /\ value = "zero" /\ Asked = "id"
     /\ cli' = [cli EXCEPT !.asked = @ + 1, !.given = IF @ = "right" THEN "unknown" ELSE @]
  \/ /\ (value # "good" /\ Asked = "text") \/ (value = "zero" /\ Asked = "number")
     /\ cli' = [cli EXCEPT !.asked = @ + 1, !.given = "invalid"]

ReadLine == /\ Asks /\ ~ended
            /\ \E value \in {"good", "empty", "zero"} : Take(value)
            /\ UNCHANGED <<services, running, ended, current, picks>>

ReadEnd == /\ Asks
           /\ Take("empty")
           /\ running' = FALSE /\ ended' = TRUE
           /\ UNCHANGED <<services, current, picks>>

\* The name and password typed for a login are those of a user, or of none.
Invoke == /\ phase["cli"] = "running" /\ cli.at = "prompts" /\ cli.asked = Len(Prompts(cli.op))
          /\ \E user \in IF cli.op = "login" THEN Users \cup {"none"} ELSE {current.user} :
               Call("cli", cli.op, user, cli.given)
          /\ cli' = [cli EXCEPT !.at = "called"]
          /\ UNCHANGED <<data, holder, process, running, ended, current, picks>>

\* The result, or the error that run() has caught, is printed.
Shows == /\ frame["cli"].at = "done"
         /\ current' = IF cli.op = "login" /\ frame["cli"].result = "ok"
                       THEN [user |-> frame["cli"].user, row |-> frame["cli"].row]
                       ELSE current
         /\ frame' = [frame EXCEPT !["cli"] = NoCall]
         /\ cli' = AtMenu
         /\ UNCHANGED <<data, holder, process, running, ended, picks>>

Returns == /\ Ends("cli")
           /\ cli' = AtMenu /\ running' = TRUE /\ ended' = FALSE /\ current' = Nobody
           /\ UNCHANGED picks

\* Mutant of Quit: the loop goes on until the input ends, whatever is picked.
QuitAtEnd == /\ phase["cli"] = "running" /\ cli.at = "menu" /\ ended
             /\ Returns
             /\ UNCHANGED faults

\* run() returns, and main() with it.
Quit == /\ phase["cli"] = "running" /\ cli.at = "menu" /\ (~running \/ ended)
        /\ Returns
        /\ UNCHANGED faults

\* Typing is up to the user; at the end of the input reading takes no time.
Typing == \/ Logout \/ Leave \/ EndAtMenu \/ ReadLine \/ (~ended /\ ReadEnd)
          \/ \E op \in Menu : Pick(op)
Working == (ended /\ ReadEnd) \/ Invoke \/ Shows \/ Quit
=============================================================================
