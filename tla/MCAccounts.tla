----------------------------- MODULE MCAccounts -----------------------------
(* Small instances of Accounts for TLC. *)
EXTENDS Accounts, TLC

CONSTANTS ann, Ann, bob, blank      \* "Ann " and "ann" are one address

AllAddresses == {ann, Ann, bob, blank}
MCNorm == [a \in Address |-> IF a = Ann THEN ann ELSE a]

Slots == Permutations(Req) \cup Permutations(UserId) \cup Permutations(InviteId)
=============================================================================
