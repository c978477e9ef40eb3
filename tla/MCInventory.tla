---------------------------- MODULE MCInventory ----------------------------
(* Instances of Inventory for TLC; amounts are in half thousandths. *)
EXTENDS Inventory, TLC

Corrections == {-5, -1, 3, 8}
Additions == {1, 6}
Interchangeable == Permutations(Req) \cup Permutations(Ingredient)
=============================================================================
