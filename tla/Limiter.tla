------------------------------ MODULE Limiter ------------------------------
(***************************************************************************)
(* auth.Limiter: a fixed window of attempts per key, in memory.  Allow is  *)
(* one step, because it holds the mutex from the first line to the last.   *)
(***************************************************************************)
EXTENDS Integers, Sequences

CONSTANTS
  Key,          \* keys that may be counted
  MaxHits,      \* attempts per window
  Window,       \* length of a window
  MaxTime,      \* bound on the clock
  NULL          \* no entry

ASSUME LimitAssumption == MaxHits \in Nat \ {0} /\ Window \in Nat /\ MaxTime \in Nat
ASSUME NullAssumption == NULL \notin [count : Nat, reset : Nat]

VARIABLES
  now,          \* clock
  hits,         \* hits[k]: entry of key k, NULL where the map has none
  log           \* history: the attempts allowed for k since the process began

vars == <<now, hits, log>>

Entry == [count : 1..MaxHits, reset : Nat]

\* An attempt is allowed at a time, in the window that ends at reset.
Pass == [at : Nat, reset : Nat]

TypeOK ==
  /\ now \in 0..MaxTime
  /\ hits \in [Key -> Entry \cup {NULL}]
  /\ log \in [Key -> Seq(Pass)]

Init ==
  /\ now = 0
  /\ hits = [k \in Key |-> NULL]
  /\ log = [k \in Key |-> <<>>]

-----------------------------------------------------------------------------
(* A definition named after another with a suffix is a regression the      *)
(* mutants put in its place.                                               *)

Expired(k) == hits[k] # NULL => hits[k].reset < now

FullTooLate(k) == hits[k].count > MaxHits
Full(k) == hits[k].count >= MaxHits

OpenedKeepsCount(k) ==
  [count |-> IF hits[k] = NULL THEN 1 ELSE hits[k].count, reset |-> now + Window]
Opened(k) == [count |-> 1, reset |-> now + Window]

Put(k, e) ==
  /\ hits' = [hits EXCEPT ![k] = e]
  /\ log' = [log EXCEPT ![k] = Append(@, [at |-> now, reset |-> e.reset])]
  /\ UNCHANGED now

\* Allow(k) = true
Allow(k) ==
  \/ Expired(k) /\ Put(k, Opened(k))
  \/ /\ ~Expired(k) /\ ~Full(k)
     /\ Put(k, [count |-> hits[k].count + 1, reset |-> hits[k].reset])

\* Allow(k) = false
Refuse(k) == ~Expired(k) /\ Full(k) /\ UNCHANGED vars

\* The map lives as long as the process.
Restart ==
  /\ hits' = [k \in Key |-> NULL]
  /\ log' = [k \in Key |-> <<>>]
  /\ UNCHANGED now

Tick ==
  /\ now < MaxTime
  /\ now' = now + 1
  /\ UNCHANGED <<hits, log>>

Next ==
  \/ \E k \in Key : Allow(k) \/ Refuse(k)
  \/ Restart
  \/ Tick

Spec == Init /\ [][Next]_vars

-----------------------------------------------------------------------------

\* However attempts fall on the windows, any 2 * MaxHits + 1 of them allowed for
\* one key by one process take longer than a window: a burst across the end of a
\* window passes twice the limit and no more (Limiter.Allow).
BurstBound ==
  \A k \in Key : \A i \in 1..Len(log[k]) :
    i + 2 * MaxHits <= Len(log[k]) => log[k][i].at + Window < log[k][i + 2 * MaxHits].at

\* Nobody is refused for old attempts: when a key is refused, its MaxHits last
\* attempts were all allowed within the last Window (Limiter.Allow).
RefusalJustified ==
  \A k \in Key : ~Expired(k) /\ Full(k) =>
    LET n == Len(log[k]) IN
      n >= MaxHits /\ now <= log[k][n - MaxHits + 1].at + Window

-----------------------------------------------------------------------------
(* The inductive invariant: how an entry stands to the history of its key. *)

\* An entry is about the last attempts of the key, as many as it counts; all
\* earlier ones belong to windows that ended before its own began.
EntryCounts(k) ==
  LET n == Len(log[k]) IN
    /\ hits[k] = NULL => n = 0
    /\ hits[k] # NULL =>
         /\ hits[k].count <= n
         /\ hits[k].reset <= now + Window
         /\ \A i \in 1..n : n - hits[k].count < i => log[k][i].reset = hits[k].reset
         /\ \A i \in 1..n : i <= n - hits[k].count =>
              log[k][i].reset + Window < hits[k].reset

\* An attempt lies in its window, and a window holds at most MaxHits of them.
WindowsApart(k) ==
  /\ \A i \in 1..Len(log[k]) :
       log[k][i].at <= log[k][i].reset /\ log[k][i].reset <= log[k][i].at + Window
  /\ \A i \in 1..Len(log[k]) : i + MaxHits <= Len(log[k]) =>
       log[k][i].reset + Window < log[k][i + MaxHits].reset

IInv == TypeOK /\ \A k \in Key : EntryCounts(k) /\ WindowsApart(k)
=============================================================================
