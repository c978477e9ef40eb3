-------------------------- MODULE MCLoginThrottle --------------------------
(* Instances of LoginThrottle for TLC: "Ann" is "ann" typed differently,     *)
(* "long" begins with the longest key there is, which is the address "ann",  *)
(* and bob and eve are accounts of their own: three keys, one more than a    *)
(* host is allowed attempts.                                                 *)
EXTENDS LoginThrottle, TLC

CONSTANTS ann, Ann, long, bob, eve

MCNorm == [a \in Address |-> IF a = Ann THEN ann ELSE a]
MCCut == [a \in Address |-> IF a = long THEN ann ELSE a]
Interchangeable ==
  Permutations(Req) \cup Permutations(Ip) \cup Permutations({bob, eve})

\* Bound: bob and eve are named while the clock stands at 0.
Focus ==
  now > 0 => /\ hits[bob] = NULL /\ hits[eve] = NULL
             /\ \A r \in Req : arg[r].addr \notin {bob, eve}
=============================================================================
