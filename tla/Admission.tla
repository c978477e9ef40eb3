------------------------------ MODULE Admission ------------------------------
(***************************************************************************)
(* What the account service promises, with every request a single atomic   *)
(* step: the first account is the only admin, everyone else comes in on an *)
(* invite of their own, and an invite is used or revoked at most once.     *)
(* Accounts.tla is the transactional implementation of this contract.      *)
(***************************************************************************)
EXTENDS Naturals

CONSTANTS
  InviteId,     \* invites the database can hold
  Address,      \* e-mail addresses as callers type them
  Norm,         \* what normEmail makes of each address
  InviteTTL,    \* lifetime of an invite
  MaxTime,      \* bound on the clock
  NULL          \* SQL null

VARIABLES
  now,          \* wall clock
  admins,       \* addresses of the admin accounts
  members,      \* addresses of the member accounts
  ticket        \* ticket[i]: the public life of invite i

vars == <<now, admins, members, ticket>>

NoTicket == [state |-> "none", bound |-> NULL, expires |-> 0]

Init ==
  /\ now = 0
  /\ admins = {}
  /\ members = {}
  /\ ticket = [i \in InviteId |-> NoTicket]

FoundCellar(e) ==
  /\ admins = {} /\ members = {}
  /\ admins' = {e}
  /\ UNCHANGED <<now, members, ticket>>

\* An admin issues an invite; it counts from the moment t the request came in.
Issue(i, b, t) ==
  /\ admins # {}
  /\ t <= now
  /\ ticket[i].state = "none"
  /\ ticket' = [ticket EXCEPT ![i] =
                  [state |-> "open", bound |-> b, expires |-> t + InviteTTL]]
  /\ UNCHANGED <<now, admins, members>>

\* Somebody who asked at time t joins under address e on invite i.
Admit(i, e, t) ==
  /\ t <= now
  /\ t < ticket[i].expires
  /\ ticket[i].state = "open"
  /\ ticket[i].bound \in {NULL, e}
  /\ e \notin admins \cup members
  /\ members' = members \cup {e}
  /\ ticket' = [ticket EXCEPT ![i].state = "used"]
  /\ UNCHANGED <<now, admins>>

Revoke(i) ==
  /\ ticket[i].state = "open"
  /\ ticket' = [ticket EXCEPT ![i].state = "revoked"]
  /\ UNCHANGED <<now, admins, members>>

Tick ==
  /\ now < MaxTime
  /\ now' = now + 1
  /\ UNCHANGED <<admins, members, ticket>>

Emails == {Norm[a] : a \in Address}

Next ==
  \/ \E e \in Emails : FoundCellar(e)
  \/ \E i \in InviteId, b \in Emails \cup {NULL}, t \in 0..MaxTime : Issue(i, b, t)
  \/ \E i \in InviteId, e \in Emails, t \in 0..MaxTime : Admit(i, e, t)
  \/ \E i \in InviteId : Revoke(i)
  \/ Tick

Spec == Init /\ [][Next]_vars
==============================================================================
