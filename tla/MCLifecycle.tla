---------------------------- MODULE MCLifecycle ----------------------------
(* An instance of Lifecycle for TLC and, for the other question of what must *)
(* happen in the end, one of Accounts without failures.  Each behaviour is   *)
(* of one of the two, its half; the other one stays as it began.             *)
EXTENDS Lifecycle

CONSTANTS UserId, InviteId, Address, Blank, InviteTTL, MaxTime, PoolSize
VARIABLES now, users, invites, sessions, pc, arg, half

A == INSTANCE Accounts WITH Faults <- FALSE, Norm <- [a \in Address |-> a]

accounts == <<now, users, invites, sessions, pc, arg>>

ProgressInit == Init /\ A!Init /\ half \in {"lifecycle", "accounts"}
ProgressNext ==
  \/ half = "lifecycle" /\ Next /\ UNCHANGED <<accounts, half>>
  \/ half = "accounts" /\ A!Next /\ UNCHANGED <<vars, half>>

ProgressSpec ==
  /\ ProgressInit
  /\ [][ProgressNext]_<<vars, accounts, half>>
  /\ Fairness /\ A!Fairness

\* Every accepted sign-up or invite request is answered, although requests hold
\* connections while they wait for locks (WithTx).
RequestsAnswered == A!RequestsAnswered
=============================================================================
