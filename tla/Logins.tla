------------------------------- MODULE Logins --------------------------------
(***************************************************************************)
(* What accounts and sessions promise, with no calls, processes or pages:  *)
(* a name is registered once and stays, who is registered may be given a   *)
(* session under a token that was never in use, and a session that ended   *)
(* is over for good.                                                       *)
(***************************************************************************)
EXTENDS Functions

CONSTANTS Row,          \* names with their passwords
          Accounts,     \* the accounts there are at first
          Token

VARIABLES users,        \* rows of the users table
          sessions,     \* the user of each token that is accepted
          spent         \* tokens that are not given out any more

vars == <<users, sessions, spent>>

Init == /\ users = Accounts
        /\ sessions = <<>> /\ spent = {}

SignUp(r) == /\ \A q \in users : q.name # r.name
             /\ users' = users \cup {r}
             /\ UNCHANGED <<sessions, spent>>

LogIn(r, k) ==
  /\ UNCHANGED users
  /\ sessions' = [j \in DOMAIN sessions \cup {k} |-> IF j = k THEN r.name ELSE sessions[j]]
  /\ k \notin spent
  /\ spent' = spent \cup {k}

\* The sessions not in K end, all of them when the process does: its tokens are
\* spent then, also those that it never gave out.
End(K) == /\ UNCHANGED users
          /\ sessions' = Restrict(sessions, K)
          /\ spent' \in SUBSET Token /\ spent \subseteq spent'

Next == \/ \E K \in SUBSET DOMAIN sessions : End(K)
        \/ \E r \in users, k \in Token : LogIn(r, k)
        \/ \E r \in Row : SignUp(r)

Spec == Init /\ [][Next]_vars
=============================================================================
