----------------------------- MODULE MCVessels -----------------------------
(* Instances of Vessels for TLC. *)
EXTENDS Vessels, TLC

Interchangeable == Permutations(Req) \cup Permutations(VesselId) \cup Permutations(Batch)
=============================================================================
