------------------------------ MODULE MCSummary ------------------------------
(* An instance of Summary, and with it of FlashSale, for TLC. *)
EXTENDS Summary, TLC

CONSTANTS a1, a2

\* One activity has fewer units than there are buyers, one has enough.
OneAndTwo == (a1 :> 1) @@ (a2 :> 2)
UserSymmetry == Permutations(Users)
=============================================================================
