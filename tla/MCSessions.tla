----------------------------- MODULE MCSessions -----------------------------
(* Instances of Sessions for TLC. *)
EXTENDS Sessions, FiniteSets, TLC

Interchangeable == Permutations(Req) \cup Permutations(SessionId)

\* Bound: after Soon, when a request that came in first is past its deadline,
\* only behaviours with one session go on, which have nothing to do with
\* passwords that are refused.  They are about the long clock: a session is
\* touched, expires and is touched again by slow requests.
Soon == 1
OneSession ==
  /\ Cardinality({id \in SessionId : sess[id] # NULL}
                   \cup ({arg[r].id : r \in Req} \ {NULL})) <= 1
  /\ \A r \in Req :
       arg[r].given \notin Short /\ arg[r].next \notin Short /\ ~arg[r].lost
Focus == now <= Soon \/ OneSession
=============================================================================
