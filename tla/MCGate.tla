------------------------------- MODULE MCGate -------------------------------
(* Instances of Gate for TLC, with one operation of every kind. *)
EXTENDS Gate, TLC

Kinds == {"authLogin", "listVessels", "createInvite", "updateVessel", "noSuchOp"}
Interchangeable == Permutations(Req)

\* Bound: a request that comes without a cookie, or with a bearer token, touches
\* nothing others see; it is followed while no other one is under way.
Apart(r) == pc[r] # "idle" /\ (arg[r].client = NULL \/ arg[r].bearer)
Focus == \A q, r \in Req : q # r /\ Apart(r) => pc[q] = "idle"
=============================================================================
