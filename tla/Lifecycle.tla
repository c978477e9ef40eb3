----------------------------- MODULE Lifecycle -----------------------------
(***************************************************************************)
(* The life of cellarkeep processes on one database: boot, migrations,     *)
(* serving, SIGTERM and exit (cmd/cellarkeep/main.go), with the requests a *)
(* process is handling when it is told to stop.  Several processes may     *)
(* boot and serve at once, as when one replaces another.                   *)
(*                                                                         *)
(* A stop goes like this: the context of the signal ends, a goroutine      *)
(* calls Shutdown, ListenAndServe returns at once, and serve, which does   *)
(* not wait for Shutdown, closes the pool, which waits for connections     *)
(* that are in use and hands out no more; then the process exits, whatever *)
(* its requests are doing.                                                 *)
(***************************************************************************)
EXTENDS Naturals

CONSTANTS
  Proc,         \* processes, each of which may be started again
  Req,          \* slots for requests to them
  MaxStarts,    \* bound on how often a process is started
  NULL,         \* no process, not ended
  Faults        \* whether statements may fail and processes may be killed

ASSUME StartsAssumption == MaxStarts \in Nat
ASSUME FaultsAssumption == Faults \in BOOLEAN

\* How the life of a process ends: "done" is exit code 0, "killed" a signal, and
\* the rest 1.
Ending == {"done", "race", "refused", "failed", "signal", "killed"}

ASSUME NullAssumption == NULL \notin Proc \cup Ending

VARIABLES
  versions,     \* whether goose's table of versions exists
  schema,       \* whether the tables of 00001_core.sql do
  applied,      \* history: how often they were created
  starts,       \* starts[p]: how often p was started
  cmd,          \* cmd[p]: its command
  stage,        \* stage[p]: how far it has come
  signalled,    \* signalled[p]: whether serve's context has ended
  ended,        \* ended[p]: why its last life ended, NULL while it runs
  req           \* req[r]: a request

db == <<versions, schema, applied>>
proc == <<starts, cmd, stage, signalled, ended>>
vars == <<db, proc, req>>

-----------------------------------------------------------------------------
(* Types *)

Goose == {"ensure", "create", "read", "apply"}
Serving == {"listening", "returned", "closing"}
Stage == {"down", "ready"} \cup Goose \cup Serving
\* What an answer says is left out: what a handler makes of an error is its own.
Request == [op : {"none", "api", "health"},
            at : {"idle", "handler", "database", "answer", "cut"},
            on : Proc \cup {NULL},
            stuck : BOOLEAN]        \* waits for what may never come

TypeOK ==
  /\ versions \in BOOLEAN /\ schema \in BOOLEAN /\ applied \in Nat
  /\ starts \in [Proc -> 0..MaxStarts]
  /\ cmd \in [Proc -> {"serve", "migrate"}]
  /\ stage \in [Proc -> Stage]
  /\ signalled \in [Proc -> BOOLEAN]
  /\ \A p \in Proc : signalled[p] => stage[p] # "down" /\ cmd[p] = "serve"
  /\ ended \in [Proc -> Ending \cup {NULL}]
  /\ req \in [Req -> Request]
  /\ \A r \in Req : req[r].at \in {"handler", "database", "answer"} =>
       req[r].on \in Proc /\ stage[req[r].on] \in Serving

NoRequest == [op |-> "none", at |-> "idle", on |-> NULL, stuck |-> FALSE]

Init ==
  /\ versions = FALSE /\ schema = FALSE /\ applied = 0
  /\ starts = [p \in Proc |-> 0]
  /\ cmd = [p \in Proc |-> "serve"]
  /\ stage = [p \in Proc |-> "down"]
  /\ signalled = [p \in Proc |-> FALSE]
  /\ ended = [p \in Proc |-> NULL]
  /\ req = [r \in Req |-> NoRequest]

-----------------------------------------------------------------------------
(* A definition named after another with a suffix is a regression the      *)
(* mutants put in its place.                                               *)

\* serve migrates before it listens.
FirstStageUnmigrated(c) == IF c = "serve" THEN "ready" ELSE "ensure"
FirstStage(c) == "ensure"

\* serve has a context for SIGINT and SIGTERM, migrate none.
CatchesAlways(c) == TRUE
Catches(c) == c = "serve"

\* goose asks for its table of versions before it creates one.
ListedNever == FALSE
Listed == versions

\* goose applies what the table of versions does not list.
PendingAlways == TRUE
Pending == ~schema

\* "create type", "create table": an error where it is there already.
ConflictsNever(there) == FALSE
Conflicts(there) == there

InDatabase(p) == \E r \in Req : req[r].on = p /\ req[r].at = "database"

\* Pool.Close returns when no connection is in use.
Closes(p) == ~InDatabase(p)

\* middleware.Timeout ends the context of every request.
Undying(r) == FALSE
Timed(r) == req[r].at = "database"

-----------------------------------------------------------------------------
(* Processes *)

Go(p, s) == stage' = [stage EXCEPT ![p] = s] /\ UNCHANGED <<starts, cmd, signalled, ended, req>>

\* The process is gone, and so are the requests it had.
End(p, why) ==
  /\ stage' = [stage EXCEPT ![p] = "down"]
  /\ ended' = [ended EXCEPT ![p] = why]
  /\ signalled' = [signalled EXCEPT ![p] = FALSE]
  /\ req' = [r \in Req |-> IF req[r].on = p /\ req[r].at # "idle"
                            THEN [req[r] EXCEPT !.stuck = FALSE, !.at = "cut"] ELSE req[r]]
  /\ UNCHANGED <<starts, cmd>>

\* A command nobody knows, settings that are missing, a URL that cannot be read.
Refuse(p) ==
  /\ stage[p] = "down" /\ starts[p] < MaxStarts
  /\ ended' = [ended EXCEPT ![p] = "refused"]
  /\ starts' = [starts EXCEPT ![p] = @ + 1]
  /\ UNCHANGED <<cmd, stage, signalled, db, req>>

Boot(p, c) ==
  /\ stage[p] = "down" /\ starts[p] < MaxStarts
  /\ starts' = [starts EXCEPT ![p] = @ + 1]
  /\ cmd' = [cmd EXCEPT ![p] = c]
  /\ stage' = [stage EXCEPT ![p] = FirstStage(c)]
  /\ ended' = [ended EXCEPT ![p] = NULL]
  /\ UNCHANGED <<signalled, db, req>>

\* goose looks for its table and creates it in a transaction of its own.
EnsureVersions(p) ==
  /\ stage[p] = "ensure" /\ ~signalled[p]
  /\ Go(p, IF Listed THEN "read" ELSE "create")
  /\ UNCHANGED db

CreateVersions(p) ==
  /\ stage[p] = "create" /\ ~signalled[p]
  /\ \/ Conflicts(versions) /\ End(p, "race") /\ UNCHANGED versions
     \/ ~Conflicts(versions) /\ Go(p, "read") /\ versions' = TRUE
  /\ UNCHANGED <<schema, applied>>

ReadVersion(p) ==
  /\ stage[p] = "read" /\ ~signalled[p]
  /\ Go(p, IF Pending THEN "apply" ELSE "ready")
  /\ UNCHANGED db

\* The file and its row of the table of versions are one transaction.
ApplyMigration(p) ==
  /\ stage[p] = "apply" /\ ~signalled[p]
  /\ \/ Conflicts(schema) /\ End(p, "race") /\ UNCHANGED <<schema, applied>>
     \/ ~Conflicts(schema) /\ Go(p, "ready") /\ schema' = TRUE /\ applied' = applied + 1
  /\ UNCHANGED versions

\* A statement fails, or is cancelled by a signal: it may still have committed.
MigrationFails(p) ==
  /\ stage[p] \in Goose
  /\ signalled[p] \/ Faults
  /\ End(p, IF signalled[p] THEN "signal" ELSE "failed")
  /\ \/ UNCHANGED db
     \/ stage[p] = "create" /\ ~versions /\ versions' = TRUE /\ UNCHANGED <<schema, applied>>
     \/ /\ stage[p] = "apply" /\ ~schema
        /\ schema' = TRUE /\ applied' = applied + 1 /\ UNCHANGED versions

Migrated(p) ==
  /\ stage[p] = "ready" /\ cmd[p] = "migrate"
  /\ End(p, "done")
  /\ UNCHANGED db

Listen(p) ==
  /\ stage[p] = "ready" /\ cmd[p] = "serve"
  /\ Go(p, "listening") \/ (Faults /\ End(p, "failed"))
  /\ UNCHANGED db

\* Shutdown makes ListenAndServe return, or not begin.
Shutdown(p) ==
  /\ signalled[p] /\ cmd[p] = "serve" /\ stage[p] \in {"ready", "listening"}
  /\ Go(p, "returned")
  /\ UNCHANGED db

ClosePool(p) == stage[p] = "returned" /\ Go(p, "closing") /\ UNCHANGED db

Exit(p) ==
  /\ stage[p] = "closing" /\ Closes(p)
  /\ End(p, "done")
  /\ UNCHANGED db

\* SIGTERM; migrate does not catch it.
Signal(p) ==
  /\ stage[p] # "down" /\ ~signalled[p]
  /\ \/ /\ Catches(cmd[p])
        /\ signalled' = [signalled EXCEPT ![p] = TRUE]
        /\ UNCHANGED <<starts, cmd, stage, ended, req>>
     \/ ~Catches(cmd[p]) /\ End(p, "killed")
  /\ UNCHANGED db

Kill(p) ==
  /\ Faults /\ stage[p] # "down"
  /\ End(p, "killed")
  /\ UNCHANGED db

-----------------------------------------------------------------------------
(* Requests *)

Set(r, v) == req' = [req EXCEPT ![r] = v] /\ UNCHANGED <<db, proc>>
Reply(r) == Set(r, [req[r] EXCEPT !.stuck = FALSE, !.at = "answer"])

Accept(r, p, op) ==
  /\ req[r].at = "idle" /\ stage[p] = "listening"
  /\ Set(r, [op |-> op, at |-> "handler", on |-> p, stuck |-> FALSE])

PoolOpen(r) == stage[req[r].on] \in {"listening", "returned"}

\* The handler asks the pool for a connection, and answers with an error if the
\* pool is closed; what it runs there may meet a lock that is not released.
Acquire(r) ==
  /\ req[r].at = "handler"
  /\ \/ ~PoolOpen(r) /\ Reply(r)
     \/ /\ PoolOpen(r)
        /\ \E s \in BOOLEAN : Set(r, [req[r] EXCEPT !.at = "database", !.stuck = s])

\* The connection goes back, and the handler goes on or answers.
Release(r) ==
  /\ req[r].at = "database" /\ ~req[r].stuck
  /\ \/ Reply(r)
     \/ req[r].op = "api" /\ Set(r, [req[r] EXCEPT !.at = "handler"])

TimeOut(r) == Timed(r) /\ Reply(r)

Answered(r) == req[r].at \in {"answer", "cut"} /\ Set(r, NoRequest)

-----------------------------------------------------------------------------

Step(p) ==
  \/ EnsureVersions(p) \/ CreateVersions(p) \/ ReadVersion(p) \/ ApplyMigration(p)
  \/ MigrationFails(p) \/ Migrated(p) \/ Listen(p)
  \/ Shutdown(p) \/ ClosePool(p) \/ Exit(p)
Serve(r) == Acquire(r) \/ Release(r) \/ TimeOut(r) \/ Answered(r)

Next ==
  \/ \E p \in Proc : Step(p) \/ Refuse(p) \/ Signal(p) \/ Kill(p)
  \/ \E p \in Proc, c \in {"serve", "migrate"} : Boot(p, c)
  \/ \E r \in Req : Serve(r)
  \/ \E r \in Req, p \in Proc, op \in {"api", "health"} : Accept(r, p, op)

Spec == Init /\ [][Next]_vars
Fairness ==
  /\ \A p \in Proc : WF_vars(Step(p))
  /\ \A r \in Req : WF_vars(TimeOut(r))

-----------------------------------------------------------------------------
(* What must hold *)

\* Migrations are applied on boot: whatever races, fails, is cancelled or is
\* killed on the way, no process listens before the tables are there, and no
\* request meets a database without them (serve).
ServesWhenMigrated ==
  /\ \A p \in Proc : stage[p] \in Serving => schema
  /\ \A r \in Req : req[r].at \in {"database", "answer"} => schema

\* The tables are created once, by whoever gets there, and never again by a
\* process that saw them missing before (migrations.Up takes no lock).
CreatedOnce == applied = (IF schema THEN 1 ELSE 0) /\ (schema => versions)

\* p has lost no race; if nothing else has ended it, it is running.
Outlives(p) ==
  /\ starts[p] > 0
  /\ ended[p] # "race"
  /\ ended[p] = NULL => stage[p] # "down"

\* Processes that boot at once can make one another fail, but not all of them: of
\* the processes that were ever started one at least did not lose a race, and that
\* one is still running unless something other than a race has ended it
\* (migrations.Up, serve).
RaceLeavesOne ==
  (\E p \in Proc : starts[p] > 0) => \E p \in Proc : Outlives(p)

\* SIGTERM ends a process, also while a request waits for a lock that is never
\* released.
SignalEnds == \A p \in Proc : signalled[p] ~> ~signalled[p]

-----------------------------------------------------------------------------
(* The inductive invariant *)

\* The processes that are running are those that were started and have not ended.
RunningNow ==
  \A p \in Proc : stage[p] # "down" <=> starts[p] > 0 /\ ended[p] = NULL

\* Who is past a step of the migration may rely on what it leaves: a row in the
\* table of versions, or the tables.
MigratedSoFar ==
  /\ \A p \in Proc : stage[p] \in {"read", "apply"} => versions
  /\ \A p \in Proc : stage[p] \in {"ready"} \cup Serving => schema

\* p has lost no race and is not going to: it stands at no step that finds made
\* what it is about to make.
Unbeaten(p) ==
  /\ starts[p] > 0 /\ ended[p] # "race"
  /\ stage[p] # "create"
  /\ schema => stage[p] # "apply"

\* As soon as there is anything to lose a race for, whoever made it is unbeaten.
MakerUnbeaten ==
  /\ versions => \E p \in Proc : Unbeaten(p)
  /\ ~versions => \A p \in Proc : ended[p] # "race"

IInv == TypeOK /\ RunningNow /\ MigratedSoFar /\ CreatedOnce /\ MakerUnbeaten
=============================================================================
