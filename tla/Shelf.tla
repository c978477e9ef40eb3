------------------------------- MODULE Shelf -------------------------------
(***************************************************************************)
(* What the vessel operations promise, with each of them a single atomic   *)
(* step: a vessel comes onto the shelf once and goes for good, it never    *)
(* goes while a batch names it, and what a caller is told was so at one    *)
(* moment of its request.  Vessels.tla is the implementation.              *)
(***************************************************************************)
CONSTANTS
  Req,          \* requests that may be answered at one time
  VesselId, Form, Batch,
  NULL,         \* not on the shelf yet, no vessel, no batch, no answer
  Gone,         \* off the shelf
  Faults        \* whether a removal may fail for no reason

VARIABLES
  shelf,        \* shelf[v]: description of vessel v
  home,         \* home[b]: the vessel active batch b is in
  named,        \* named[b]: vessels the records of batch b name
  told          \* told[r]: what r was told, until it has read it

vars == <<shelf, home, named, told>>

Init ==
  /\ shelf = [v \in VesselId |-> NULL]
  /\ home = [b \in Batch |-> NULL]
  /\ named = [b \in Batch |-> {}]
  /\ told = [r \in Req |-> NULL]

OnShelf == {v \in VesselId : shelf[v] \in Form}
Tell(r, word, what) ==
  /\ told[r] = NULL
  /\ told' = [told EXCEPT ![r] = <<word, what>>]
Unmoved == UNCHANGED <<shelf, home, named>>

Add(r, v, f) ==
  /\ shelf[v] = NULL
  /\ shelf' = [shelf EXCEPT ![v] = f]
  /\ Tell(r, "added", v)
  /\ UNCHANGED <<home, named>>

Change(r, v, f) ==
  /\ v \in OnShelf
  /\ shelf' = [shelf EXCEPT ![v] = f]
  /\ Tell(r, "changed", v)
  /\ UNCHANGED <<home, named>>

Miss(r, v) == v \notin OnShelf /\ Tell(r, "missing", v) /\ Unmoved

\* Removing what is not there succeeds as well.
Remove(r, v) ==
  /\ \A b \in Batch : v \notin named[b]
  /\ shelf' = IF v \in OnShelf THEN [shelf EXCEPT ![v] = Gone] ELSE shelf
  /\ Tell(r, "removed", v)
  /\ UNCHANGED <<home, named>>

Refuse(r, v) == (\E b \in Batch : home[b] = v) /\ Tell(r, "refused", v) /\ Unmoved

\* A removal fails because a batch names the vessel, or by a fault.
Fail(r, v) ==
  /\ Faults \/ \E b \in Batch : v \in named[b]
  /\ Tell(r, "failed", v) /\ Unmoved

\* Each vessel with each batch it is home to, or with none.
Show(r) ==
  /\ Tell(r, "listed",
          {x \in OnShelf \X (Batch \cup {NULL}) :
             IF x[2] = NULL THEN \A b \in Batch : home[b] # x[1] ELSE home[x[2]] = x[1]})
  /\ Unmoved

Reject(r) == Tell(r, "rejected", NULL) /\ Unmoved

\* A batch moves or ends, and names only what is on the shelf besides what it
\* named before.
Live(b) ==
  \E S \in SUBSET (named[b] \cup OnShelf) :
    /\ named' = [named EXCEPT ![b] = S]
    /\ \E h \in S \cup {NULL} : home' = [home EXCEPT ![b] = h]
    /\ UNCHANGED <<shelf, told>>

Forget(S) == told' = [r \in Req |-> IF r \in S THEN NULL ELSE told[r]] /\ Unmoved

Next ==
  \/ \E r \in Req, v \in VesselId :
       \/ \E f \in Form : Add(r, v, f) \/ Change(r, v, f)
       \/ Miss(r, v) \/ Remove(r, v) \/ Refuse(r, v) \/ Fail(r, v)
  \/ \E r \in Req : Show(r) \/ Reject(r)
  \/ \E b \in Batch : Live(b)
  \/ \E S \in SUBSET Req : Forget(S)

Spec == Init /\ [][Next]_vars
=============================================================================
