----------------------------- MODULE MCSessions -----------------------------
(* Instances of Sessions for TLC. *)
EXTENDS Sessions

\* u1 has an account; u2 may be registered, under either password.
User1 == [name |-> "u1", password |-> "p1"]
User2 == [name |-> "u2", password |-> "p1"]
Other2 == [name |-> "u2", password |-> "p2"]

OneAccount == {User1}
TwoAccounts == {User1, User2}
OtherAccount == {Other2}

TwoThenOne == <<2, 1>>
=============================================================================
