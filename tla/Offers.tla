------------------------------- MODULE Offers --------------------------------
(***************************************************************************)
(* What the catalog does, with no transaction or lock: a product that is   *)
(* there, in any status but IN_FLASH_SALE, is put into a flash sale by an  *)
(* activity with a number of its own, in one step.                         *)
(***************************************************************************)
CONSTANTS Products, Numbers,
          SeedProducts, SeedActivities  \* rows of the seed data

VARIABLES status,       \* products.status, or "NONE" before publish()
          activities    \* rows of flash_sale_activities

vars == <<status, activities>>

Seeded(rows) ==
  [p \in Products |-> IF p \in DOMAIN SeedProducts THEN SeedProducts[p] ELSE rows[p]]

Init == /\ status = Seeded([p \in Products |-> "NONE"])
        /\ activities = SeedActivities

\* The seed script is run again.
Seed == status' = Seeded(status) /\ UNCHANGED activities

Publish(p) == /\ status[p] = "NONE"
              /\ status' = [status EXCEPT ![p] = "ON_SALE"]
              /\ UNCHANGED activities

Create(n, p) ==
  /\ status[p] \notin {"NONE", "IN_FLASH_SALE"}
  /\ \A r \in activities : r.no # n
  /\ status' = [status EXCEPT ![p] = "IN_FLASH_SALE"]
  /\ activities' = activities \cup {[no |-> n, product |-> p]}

Next == \/ Seed
        \/ \E p \in Products : Publish(p)
        \/ \E n \in Numbers, p \in Products : Create(n, p)

Spec == Init /\ [][Next]_vars
=============================================================================
