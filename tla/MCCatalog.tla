------------------------------ MODULE MCCatalog ------------------------------
(* Instances of Catalog for TLC. *)
EXTENDS Catalog, TLC

\* Of the seed data a product that is sold and has an activity; and one that is
\* off the shelf.
HeadsetAndLamp == "headset" :> "SOLD" @@ "lamp" :> "OFF_SHELF"
HeadsetSold == {[no |-> "n0", product |-> "headset"]}

\* No seed data.
NoProducts == [p \in {} |-> "NONE"]

Symmetric == Permutations(Sessions) \cup Permutations(Numbers)
=============================================================================
