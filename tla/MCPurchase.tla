----------------------------- MODULE MCPurchase ------------------------------
(* Instances of Purchase for TLC; each cfg picks its constants from here. *)
EXTENDS Purchase, TLC

CONSTANTS s1, s2, s3, p1, p2, u1, u2, u3, a1, a2

\* One process whose threads share its order sequence (the concurrency test).
OneProcess == [s \in Sessions |-> p1]
\* s1 and s2 are processes of their own, as two web servers are.
TwoProcesses == [s \in Sessions |-> IF s = s1 THEN p1 ELSE p2]

AllActive == [u \in Users |-> "ACTIVE"]
\* Two users can buy, one is disabled.
TwoBuyers == [u \in Users |-> IF u = u3 THEN "DISABLED" ELSE "ACTIVE"]
AllOpen == [a \in Activities |-> "ACTIVE"]
OneMissing == [a \in Activities |-> IF a = a1 THEN "ACTIVE" ELSE "MISSING"]

OneUnit == [a \in Activities |-> 1]
TwoUnits == [a \in Activities |-> 2]
OpensAt0 == [a \in Activities |-> 0]
OpensAt1 == [a \in Activities |-> 1]
ClosesAt2 == [a \in Activities |-> 2]

UserSymmetry == Permutations(Users)
=============================================================================
