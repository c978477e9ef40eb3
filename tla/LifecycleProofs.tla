-------------------------- MODULE LifecycleProofs --------------------------
(***************************************************************************)
(* The safety of Lifecycle, for any number of processes, requests and      *)
(* starts.  A step of process p changes the stage and the end of p alone,  *)
(* and the database only grows; so beside the types it owes what the       *)
(* invariant says of p, and that somebody stays unbeaten.  Requests change *)
(* no process, and are never let in before the tables are there.           *)
(***************************************************************************)
EXTENDS Lifecycle, TLAPS

Reason == Ending \cup {NULL}

\* The types of the processes and their requests.
RunsTyped ==
  /\ starts \in [Proc -> 0..MaxStarts]
  /\ cmd \in [Proc -> {"serve", "migrate"}]
  /\ stage \in [Proc -> Stage]
  /\ signalled \in [Proc -> BOOLEAN]
  /\ \A p \in Proc : signalled[p] => stage[p] # "down" /\ cmd[p] = "serve"
  /\ ended \in [Proc -> Reason]
  /\ req \in [Req -> Request]
  /\ \A r \in Req : req[r].at \in {"handler", "database", "answer"} =>
       req[r].on \in Proc /\ stage[req[r].on] \in Serving

DbTyped == versions \in BOOLEAN /\ schema \in BOOLEAN /\ applied \in Nat

LEMMA TypeParts == TypeOK <=> DbTyped /\ RunsTyped
BY DEF TypeOK, DbTyped, RunsTyped, Reason

LEMMA NoReason == NULL \notin Ending /\ NULL # "race"
BY NullAssumption DEF Ending

-----------------------------------------------------------------------------
(* The ways a process or a request moves keep the types.                   *)

LEMMA GoTyped ==
  ASSUME RunsTyped, NEW p \in Proc, NEW s \in Stage \ {"down"},
         stage[p] \in Serving => s \in Serving, Go(p, s)
  PROVE  RunsTyped'
<1>1. /\ starts' = starts /\ cmd' = cmd /\ signalled' = signalled /\ ended' = ended /\ req' = req
      /\ stage' = [stage EXCEPT ![p] = s]
  BY DEF Go
<1>2. stage' \in [Proc -> Stage] BY <1>1 DEF RunsTyped
<1>3. \A q \in Proc : stage'[q] = IF q = p THEN s ELSE stage[q] BY <1>1 DEF RunsTyped
<1>4. \A r \in Req : req[r].at \in {"handler", "database", "answer"} =>
        req[r].on \in Proc /\ stage'[req[r].on] \in Serving
  BY <1>3 DEF RunsTyped
<1> QED BY <1>1, <1>2, <1>3, <1>4 DEF RunsTyped

\* A boolean field is set by any boolean, which Zenon takes FALSE for.
LEMMA UnstuckTyped ==
  ASSUME NEW q \in Request
  PROVE  [q EXCEPT !.stuck = FALSE] \in Request /\ [q EXCEPT !.stuck = FALSE].on = q.on
<1>1. \A t \in BOOLEAN : [q EXCEPT !.stuck = t] \in Request /\ [q EXCEPT !.stuck = t].on = q.on
  BY DEF Request
<1> QED BY <1>1, Zenon

LEMMA CutTyped ==
  ASSUME NEW q \in Request
  PROVE  /\ [q EXCEPT !.stuck = FALSE, !.at = "cut"] \in Request
         /\ [q EXCEPT !.stuck = FALSE, !.at = "cut"].at = "cut"
<1> DEFINE c == [q EXCEPT !.stuck = FALSE]
           d == [c EXCEPT !.at = "cut"]
<1>1. d = [q EXCEPT !.stuck = FALSE, !.at = "cut"] OBVIOUS
<1>2. c \in Request BY UnstuckTyped
<1> HIDE DEF c
<1>3. d \in Request /\ d.at = "cut" BY <1>2 DEF Request
<1> HIDE DEF d
<1> QED BY <1>1, <1>3

\* The requests of a process that ends are cut.
LEMMA EndTyped ==
  ASSUME RunsTyped, NEW p \in Proc, NEW why \in Reason, End(p, why)
  PROVE  RunsTyped'
<1> DEFINE Cut(r) == [req[r] EXCEPT !.stuck = FALSE, !.at = "cut"]
<1>1. /\ starts' = starts /\ cmd' = cmd
      /\ stage' = [stage EXCEPT ![p] = "down"]
      /\ ended' = [ended EXCEPT ![p] = why]
      /\ signalled' = [signalled EXCEPT ![p] = FALSE]
      /\ req' = [r \in Req |-> IF req[r].on = p /\ req[r].at # "idle" THEN Cut(r) ELSE req[r]]
  BY DEF End
<1>2. /\ stage' \in [Proc -> Stage] /\ ended' \in [Proc -> Reason]
      /\ signalled' \in [Proc -> BOOLEAN]
  BY <1>1 DEF RunsTyped, Stage
<1>3. \A q \in Proc : /\ stage'[q] = IF q = p THEN "down" ELSE stage[q]
                      /\ signalled'[q] = IF q = p THEN FALSE ELSE signalled[q]
  BY <1>1 DEF RunsTyped
<1>4. \A q \in Proc : signalled'[q] => stage'[q] # "down" /\ cmd[q] = "serve"
  BY <1>3 DEF RunsTyped
<1>5. \A r \in Req : req[r] \in Request /\ Cut(r) \in Request /\ Cut(r).at = "cut"
  BY CutTyped DEF RunsTyped
<1> HIDE DEF Cut
<1>6. req' \in [Req -> Request] BY <1>1, <1>5
<1>7. ASSUME NEW r \in Req, req'[r].at \in {"handler", "database", "answer"}
      PROVE  req'[r].on \in Proc /\ stage'[req'[r].on] \in Serving
  <2>1. req'[r] = req[r] /\ ~(req[r].on = p /\ req[r].at # "idle")
    BY <1>1, <1>5, <1>7
  <2>2. req[r].on # p /\ req[r].on \in Proc /\ stage[req[r].on] \in Serving
    BY <1>7, <2>1 DEF RunsTyped
  <2> QED BY <1>3, <2>1, <2>2
<1> QED BY <1>1, <1>2, <1>4, <1>6, <1>7 DEF RunsTyped

LEMMA SetTyped ==
  ASSUME RunsTyped, NEW r \in Req, NEW v \in Request, Set(r, v),
         v.at \in {"handler", "database", "answer"} => v.on \in Proc /\ stage[v.on] \in Serving
  PROVE  RunsTyped'
<1>1. /\ starts' = starts /\ cmd' = cmd /\ stage' = stage /\ signalled' = signalled
      /\ ended' = ended /\ req' = [req EXCEPT ![r] = v]
  BY DEF Set, proc
<1>2. req' \in [Req -> Request] BY <1>1 DEF RunsTyped
<1>3. \A q \in Req : req'[q] = IF q = r THEN v ELSE req[q] BY <1>1 DEF RunsTyped
<1> QED BY <1>1, <1>2, <1>3 DEF RunsTyped

LEMMA ReplyTyped ==
  ASSUME RunsTyped, NEW r \in Req, Reply(r), req[r].at \in {"handler", "database"}
  PROVE  RunsTyped'
<1> DEFINE a == [req[r] EXCEPT !.stuck = FALSE]
           v == [a EXCEPT !.at = "answer"]
<1>1. a \in Request /\ a.on = req[r].on BY UnstuckTyped DEF RunsTyped
<1>2. v = [req[r] EXCEPT !.stuck = FALSE, !.at = "answer"] OBVIOUS
<1> HIDE DEF a
<1>3. v \in Request /\ v.on = a.on BY <1>1 DEF Request
<1> HIDE DEF v
<1>4. Set(r, v) BY <1>2 DEF Reply
<1>5. v.on \in Proc /\ stage[v.on] \in Serving BY <1>1, <1>3 DEF RunsTyped
<1> QED BY <1>3, <1>4, <1>5, SetTyped

-----------------------------------------------------------------------------
(* What the invariant says of one process, and how one step may move it.   *)

ProcFits(p) ==
  /\ stage[p] # "down" <=> starts[p] > 0 /\ ended[p] = NULL
  /\ stage[p] \in {"read", "apply"} => versions
  /\ stage[p] \in {"ready"} \cup Serving => schema

LEMMA FitsParts == RunningNow /\ MigratedSoFar <=> \A p \in Proc : ProcFits(p)
BY DEF RunningNow, MigratedSoFar, ProcFits

\* Only p moves.
Alone(p) ==
  \A q \in Proc \ {p} :
    stage'[q] = stage[q] /\ starts'[q] = starts[q] /\ ended'[q] = ended[q]

\* What is there stays, and is counted.
Grown == (versions => versions') /\ (schema => schema') /\ CreatedOnce'

LEMMA OthersFit ==
  ASSUME Grown, NEW p \in Proc, Alone(p), NEW q \in Proc \ {p}, ProcFits(q)
  PROVE  ProcFits(q)'
BY DEF Grown, Alone, ProcFits

LEMMA GoMoves ==
  ASSUME RunsTyped, NEW p \in Proc, NEW s, Go(p, s)
  PROVE  Alone(p) /\ stage'[p] = s /\ starts' = starts /\ ended' = ended
BY DEF RunsTyped, Go, Alone

LEMMA EndMoves ==
  ASSUME RunsTyped, NEW p \in Proc, NEW why, End(p, why)
  PROVE  Alone(p) /\ stage'[p] = "down" /\ starts' = starts /\ ended'[p] = why
BY DEF RunsTyped, End, Alone

\* A step of p that makes nothing keeps somebody unbeaten, as long as p is not
\* the one that was and loses a race.
LEMMA StaysUnbeaten ==
  ASSUME MakerUnbeaten, NEW p \in Proc, Alone(p), UNCHANGED db,
         versions /\ Unbeaten(p) => Unbeaten(p)',
         ended'[p] = "race" => versions
  PROVE  MakerUnbeaten'
<1>1. \A q \in Proc \ {p} : Unbeaten(q) => Unbeaten(q)'
  BY DEF Alone, Unbeaten, db
<1>2. versions' = versions BY DEF db
<1>3. versions => \E q \in Proc : Unbeaten(q)' BY <1>1 DEF MakerUnbeaten
<1>4. ~versions => \A q \in Proc : ended'[q] # "race" BY DEF MakerUnbeaten, Alone
<1> QED BY <1>2, <1>3, <1>4 DEF MakerUnbeaten

\* A step of p that makes something leaves p unbeaten.
LEMMA MadeUnbeaten ==
  ASSUME NEW p \in Proc, Unbeaten(p)', versions'
  PROVE  MakerUnbeaten'
BY DEF MakerUnbeaten

Rest == DbTyped /\ (\A p \in Proc : ProcFits(p)) /\ CreatedOnce /\ MakerUnbeaten

LEMMA InvParts == IInv <=> RunsTyped /\ Rest
BY TypeParts, FitsParts DEF IInv, Rest

\* A step of p that makes nothing.
LEMMA MakesNothing ==
  ASSUME Rest, NEW p \in Proc, Alone(p), UNCHANGED db,
         ProcFits(p)', versions /\ Unbeaten(p) => Unbeaten(p)', ended'[p] = "race" => versions
  PROVE  Rest'
<1>1. Grown /\ DbTyped' /\ CreatedOnce' BY DEF Rest, Grown, db, DbTyped, CreatedOnce
<1>2. \A q \in Proc : ProcFits(q)' BY <1>1, OthersFit DEF Rest
<1>3. MakerUnbeaten' BY StaysUnbeaten DEF Rest
<1> QED BY <1>1, <1>2, <1>3 DEF Rest

\* A step of p that makes the table of versions, or the tables.
LEMMA MakesSomething ==
  ASSUME Rest, NEW p \in Proc, Alone(p), ProcFits(p)', Unbeaten(p)',
         \/ versions' = TRUE /\ ~versions /\ UNCHANGED <<schema, applied>>
         \/ schema' = TRUE /\ ~schema /\ applied' = applied + 1 /\ versions /\ UNCHANGED versions
  PROVE  Rest'
<1>0. versions \in BOOLEAN /\ schema \in BOOLEAN /\ applied \in Nat BY DEF Rest, DbTyped
<1>1. DbTyped'
  <2>1. applied' \in Nat BY <1>0
  <2>2. versions' \in BOOLEAN /\ schema' \in BOOLEAN BY <1>0
  <2> QED BY <2>1, <2>2 DEF DbTyped
<1>2. Grown BY DEF Rest, Grown, DbTyped, CreatedOnce
<1>3. \A q \in Proc : ProcFits(q)' BY <1>2, OthersFit DEF Rest
<1>4. versions' BY DEF Rest
<1>5. MakerUnbeaten' BY <1>4, MadeUnbeaten
<1> QED BY <1>1, <1>2, <1>3, <1>5 DEF Rest, Grown

Keeps == RunsTyped' /\ Rest'

\* p goes on to s.
LEMMA GoesOn ==
  ASSUME RunsTyped, Rest, NEW p \in Proc, NEW s \in Stage \ {"down"},
         stage[p] # "down", stage[p] \in Serving => s \in Serving,
         Go(p, s), UNCHANGED db,
         s \in {"read", "apply"} => versions,
         s \in {"ready"} \cup Serving => schema,
         versions => s # "create", schema => s # "apply"
  PROVE  Keeps
<1>1. Alone(p) /\ stage'[p] = s /\ starts' = starts /\ ended' = ended BY GoMoves
<1>2. starts[p] > 0 /\ ended[p] = NULL BY DEF Rest, ProcFits
<1>3. ProcFits(p)' BY <1>1, <1>2 DEF ProcFits, db
<1>4. versions /\ Unbeaten(p) => Unbeaten(p)' BY <1>1 DEF Unbeaten, db
<1>5. ended'[p] # "race" BY <1>1, <1>2, NoReason
<1> QED BY <1>1, <1>3, <1>4, <1>5, MakesNothing, GoTyped DEF Keeps

\* p makes something and goes on to s.
LEMMA MakesAndGoes ==
  ASSUME RunsTyped, Rest, NEW p \in Proc, NEW s \in {"read", "ready"},
         stage[p] \in Goose, Go(p, s),
         \/ /\ versions' = TRUE /\ ~versions /\ UNCHANGED <<schema, applied>>
            /\ s = "read"
         \/ schema' = TRUE /\ ~schema /\ applied' = applied + 1 /\ versions /\ UNCHANGED versions
  PROVE  Keeps
<1>1. Alone(p) /\ stage'[p] = s /\ starts' = starts /\ ended' = ended BY GoMoves
<1>2. starts[p] > 0 /\ ended[p] = NULL BY DEF Rest, ProcFits, Goose
<1>3. ProcFits(p)' BY <1>1, <1>2 DEF ProcFits, Serving
<1>4. Unbeaten(p)' BY <1>1, <1>2, NoReason DEF Unbeaten
<1>5. s \in Stage \ {"down"} /\ stage[p] \notin Serving BY DEF Stage, Goose, Serving
<1>6. RunsTyped' BY <1>5, GoTyped
<1>7. \/ versions' = TRUE /\ ~versions /\ UNCHANGED <<schema, applied>>
      \/ schema' = TRUE /\ ~schema /\ applied' = applied + 1 /\ versions /\ UNCHANGED versions
  OBVIOUS
<1>8. Rest' BY <1>1, <1>3, <1>4, <1>7, MakesSomething
<1> QED BY <1>6, <1>8 DEF Keeps

\* p ends, and has made nothing.
LEMMA Stops ==
  ASSUME RunsTyped, Rest, NEW p \in Proc, NEW why \in Ending,
         stage[p] # "down", End(p, why), UNCHANGED db,
         why = "race" => versions /\ ~Unbeaten(p)
  PROVE  Keeps
<1>1. Alone(p) /\ stage'[p] = "down" /\ starts' = starts /\ ended'[p] = why BY EndMoves
<1>2. starts[p] > 0 BY DEF Rest, ProcFits
<1>3. ProcFits(p)' BY <1>1, NoReason DEF ProcFits, Serving
<1>4. versions /\ Unbeaten(p) => Unbeaten(p)' BY <1>1 DEF Unbeaten, db
<1>5. why \in Reason BY DEF Reason
<1> QED BY <1>1, <1>3, <1>4, <1>5, MakesNothing, EndTyped DEF Keeps

\* p ends, and what it was making is made all the same.
LEMMA MakesAndStops ==
  ASSUME RunsTyped, Rest, NEW p \in Proc, NEW why \in Ending \ {"race"},
         stage[p] # "down", End(p, why),
         \/ versions' = TRUE /\ ~versions /\ UNCHANGED <<schema, applied>>
         \/ schema' = TRUE /\ ~schema /\ applied' = applied + 1 /\ versions /\ UNCHANGED versions
  PROVE  Keeps
<1>1. Alone(p) /\ stage'[p] = "down" /\ starts' = starts /\ ended'[p] = why BY EndMoves
<1>2. starts[p] > 0 BY DEF Rest, ProcFits
<1>3. ProcFits(p)' BY <1>1, NoReason DEF ProcFits, Serving
<1>4. Unbeaten(p)' BY <1>1, <1>2 DEF Unbeaten
<1>5. why \in Reason BY DEF Reason
<1>6. RunsTyped' BY <1>5, EndTyped
<1>7. Rest' BY <1>1, <1>3, <1>4, MakesSomething
<1> QED BY <1>6, <1>7 DEF Keeps

-----------------------------------------------------------------------------
(* Every step keeps the invariant.                                         *)

LEMMA RefuseKeeps ==
  ASSUME RunsTyped, Rest, NEW p \in Proc, Refuse(p)
  PROVE  Keeps
<1>1. /\ starts' = [starts EXCEPT ![p] = @ + 1] /\ ended' = [ended EXCEPT ![p] = "refused"]
      /\ stage' = stage /\ cmd' = cmd /\ signalled' = signalled /\ req' = req /\ UNCHANGED db
      /\ starts[p] < MaxStarts /\ stage[p] = "down"
  BY DEF Refuse
<1>2. starts' \in [Proc -> 0..MaxStarts] BY <1>1, StartsAssumption DEF RunsTyped
<1>3. ended' \in [Proc -> Reason] BY <1>1 DEF RunsTyped, Reason, Ending
<1>4. RunsTyped' BY <1>1, <1>2, <1>3 DEF RunsTyped
<1>5. Alone(p) /\ ended'[p] = "refused" /\ stage'[p] = "down" /\ starts'[p] > 0
  BY <1>1, StartsAssumption DEF RunsTyped, Alone
<1>6. ProcFits(p)' BY <1>5, NullAssumption DEF ProcFits, Serving, Ending
<1>7. Unbeaten(p)' BY <1>5 DEF Unbeaten
<1> QED BY <1>1, <1>4, <1>5, <1>6, <1>7, MakesNothing DEF Keeps

LEMMA BootKeeps ==
  ASSUME RunsTyped, Rest, NEW p \in Proc, NEW c \in {"serve", "migrate"}, Boot(p, c)
  PROVE  Keeps
<1>1. /\ starts' = [starts EXCEPT ![p] = @ + 1] /\ ended' = [ended EXCEPT ![p] = NULL]
      /\ stage' = [stage EXCEPT ![p] = "ensure"] /\ cmd' = [cmd EXCEPT ![p] = c]
      /\ signalled' = signalled /\ req' = req /\ UNCHANGED db
      /\ starts[p] < MaxStarts /\ stage[p] = "down"
  BY DEF Boot, FirstStage
<1>2. starts' \in [Proc -> 0..MaxStarts] BY <1>1, StartsAssumption DEF RunsTyped
<1>3. ended' \in [Proc -> Reason] BY <1>1 DEF RunsTyped, Reason
<1>4. stage' \in [Proc -> Stage] /\ cmd' \in [Proc -> {"serve", "migrate"}]
  BY <1>1 DEF RunsTyped, Stage, Goose
<1>5. \A q \in Proc \ {p} : stage'[q] = stage[q] /\ cmd'[q] = cmd[q]
  BY <1>1 DEF RunsTyped
<1>6. ~signalled[p] /\ stage[p] \notin Serving BY <1>1 DEF RunsTyped, Serving
<1>7. \A q \in Proc : signalled'[q] => stage'[q] # "down" /\ cmd'[q] = "serve"
  BY <1>1, <1>5, <1>6 DEF RunsTyped
<1>8. \A r \in Req : req'[r].at \in {"handler", "database", "answer"} =>
        req'[r].on \in Proc /\ stage'[req'[r].on] \in Serving
  BY <1>1, <1>5, <1>6 DEF RunsTyped
<1>9. RunsTyped' BY <1>1, <1>2, <1>3, <1>4, <1>7, <1>8 DEF RunsTyped
<1>10. Alone(p) /\ ended'[p] = NULL /\ stage'[p] = "ensure" /\ starts'[p] > 0
  BY <1>1, StartsAssumption DEF RunsTyped, Alone
<1>11. ProcFits(p)' BY <1>10 DEF ProcFits, Serving
<1>12. Unbeaten(p)' BY <1>10, NoReason DEF Unbeaten
<1> QED BY <1>1, <1>9, <1>10, <1>11, <1>12, NoReason, MakesNothing DEF Keeps

LEMMA EnsureVersionsKeeps ==
  ASSUME RunsTyped, Rest, NEW p \in Proc, EnsureVersions(p)
  PROVE  Keeps
<1>1. stage[p] = "ensure" /\ Go(p, IF versions THEN "read" ELSE "create") /\ UNCHANGED db
  BY DEF EnsureVersions, Listed
<1>2. CASE versions
  <2>1. "read" \in Stage \ {"down"} /\ Go(p, "read") BY <1>1, <1>2 DEF Stage, Goose
  <2> QED BY <1>1, <1>2, <2>1, GoesOn DEF Serving
<1>3. CASE ~versions
  <2>1. "create" \in Stage \ {"down"} /\ Go(p, "create") BY <1>1, <1>3 DEF Stage, Goose
  <2> QED BY <1>1, <1>3, <2>1, GoesOn DEF Serving
<1> QED BY <1>2, <1>3

LEMMA CreateVersionsKeeps ==
  ASSUME RunsTyped, Rest, NEW p \in Proc, CreateVersions(p)
  PROVE  Keeps
<1>0. stage[p] = "create" /\ UNCHANGED <<schema, applied>> BY DEF CreateVersions
<1>1. CASE versions /\ End(p, "race") /\ UNCHANGED versions
  <2>1. ~Unbeaten(p) /\ UNCHANGED db BY <1>0, <1>1 DEF Unbeaten, db
  <2>2. "race" \in Ending BY DEF Ending
  <2> QED BY <1>0, <1>1, <2>1, <2>2, Stops
<1>2. CASE ~versions /\ Go(p, "read") /\ versions' = TRUE
  BY <1>0, <1>2, MakesAndGoes DEF Goose
<1> QED BY <1>1, <1>2 DEF CreateVersions, Conflicts

LEMMA ReadVersionKeeps ==
  ASSUME RunsTyped, Rest, NEW p \in Proc, ReadVersion(p)
  PROVE  Keeps
<1>1. stage[p] = "read" /\ Go(p, IF ~schema THEN "apply" ELSE "ready") /\ UNCHANGED db
  BY DEF ReadVersion, Pending
<1>2. versions BY <1>1 DEF Rest, ProcFits
<1>3. CASE schema
  <2>1. "ready" \in Stage \ {"down"} /\ Go(p, "ready") BY <1>1, <1>3 DEF Stage
  <2> QED BY <1>1, <1>3, <2>1, GoesOn DEF Serving
<1>4. CASE ~schema
  <2>1. "apply" \in Stage \ {"down"} /\ Go(p, "apply") BY <1>1, <1>4 DEF Stage, Goose
  <2> QED BY <1>1, <1>2, <1>4, <2>1, GoesOn DEF Serving
<1> QED BY <1>3, <1>4

LEMMA ApplyMigrationKeeps ==
  ASSUME RunsTyped, Rest, NEW p \in Proc, ApplyMigration(p)
  PROVE  Keeps
<1>0. stage[p] = "apply" /\ UNCHANGED versions BY DEF ApplyMigration
<1>1. versions BY <1>0 DEF Rest, ProcFits
<1>2. CASE schema /\ End(p, "race") /\ UNCHANGED <<schema, applied>>
  <2>1. ~Unbeaten(p) /\ UNCHANGED db BY <1>0, <1>2 DEF Unbeaten, db
  <2>2. "race" \in Ending BY DEF Ending
  <2> QED BY <1>0, <1>1, <1>2, <2>1, <2>2, Stops
<1>3. CASE ~schema /\ Go(p, "ready") /\ schema' = TRUE /\ applied' = applied + 1
  BY <1>0, <1>1, <1>3, MakesAndGoes DEF Goose
<1> QED BY <1>2, <1>3 DEF ApplyMigration, Conflicts

LEMMA MigrationFailsKeeps ==
  ASSUME RunsTyped, Rest, NEW p \in Proc, MigrationFails(p)
  PROVE  Keeps
<1> DEFINE why == IF signalled[p] THEN "signal" ELSE "failed"
<1>1. why \in Ending \ {"race"} BY DEF Ending
<1>2. End(p, why) /\ stage[p] # "down" BY DEF MigrationFails, Goose
<1> HIDE DEF why
<1>3. CASE UNCHANGED db BY <1>1, <1>2, <1>3, Stops
<1>4. CASE stage[p] = "create" /\ ~versions /\ versions' = TRUE /\ UNCHANGED <<schema, applied>>
  BY <1>1, <1>2, <1>4, MakesAndStops
<1>5. CASE stage[p] = "apply" /\ ~schema
           /\ schema' = TRUE /\ applied' = applied + 1 /\ UNCHANGED versions
  <2>1. versions BY <1>5 DEF Rest, ProcFits
  <2> QED BY <1>1, <1>2, <1>5, <2>1, MakesAndStops
<1> QED BY <1>3, <1>4, <1>5 DEF MigrationFails

LEMMA MigratedKeeps ==
  ASSUME RunsTyped, Rest, NEW p \in Proc, Migrated(p)
  PROVE  Keeps
<1>1. stage[p] # "down" /\ End(p, "done") /\ UNCHANGED db /\ "done" \in Ending
  BY DEF Migrated, Ending
<1> QED BY <1>1, Stops

LEMMA ListenKeeps ==
  ASSUME RunsTyped, Rest, NEW p \in Proc, Listen(p)
  PROVE  Keeps
<1>1. stage[p] = "ready" /\ UNCHANGED db BY DEF Listen
<1>2. CASE Go(p, "listening")
  <2>1. schema BY <1>1 DEF Rest, ProcFits
  <2>2. "listening" \in Stage \ {"down"} /\ "listening" \in Serving BY DEF Stage, Serving
  <2> QED BY <1>1, <1>2, <2>1, <2>2, GoesOn
<1>3. CASE End(p, "failed")
  BY <1>1, <1>3, Stops DEF Ending
<1> QED BY <1>2, <1>3 DEF Listen

LEMMA ShutdownKeeps ==
  ASSUME RunsTyped, Rest, NEW p \in Proc, Shutdown(p)
  PROVE  Keeps
<1>1. stage[p] \in {"ready", "listening"} /\ Go(p, "returned") /\ UNCHANGED db
  BY DEF Shutdown
<1>2. schema BY <1>1 DEF Rest, ProcFits, Serving
<1>3. "returned" \in Stage \ {"down"} /\ "returned" \in Serving BY DEF Stage, Serving
<1> QED BY <1>1, <1>2, <1>3, GoesOn

LEMMA ClosePoolKeeps ==
  ASSUME RunsTyped, Rest, NEW p \in Proc, ClosePool(p)
  PROVE  Keeps
<1>1. stage[p] = "returned" /\ Go(p, "closing") /\ UNCHANGED db
  BY DEF ClosePool
<1>2. schema BY <1>1 DEF Rest, ProcFits, Serving
<1>3. "closing" \in Stage \ {"down"} /\ "closing" \in Serving BY DEF Stage, Serving
<1> QED BY <1>1, <1>2, <1>3, GoesOn

LEMMA ExitKeeps ==
  ASSUME RunsTyped, Rest, NEW p \in Proc, Exit(p)
  PROVE  Keeps
<1>1. stage[p] # "down" /\ End(p, "done") /\ UNCHANGED db /\ "done" \in Ending
  BY DEF Exit, Ending
<1> QED BY <1>1, Stops

LEMMA SignalKeeps ==
  ASSUME RunsTyped, Rest, NEW p \in Proc, Signal(p)
  PROVE  Keeps
<1>1. stage[p] # "down" /\ UNCHANGED db BY DEF Signal
<1>2. CASE /\ cmd[p] = "serve" /\ signalled' = [signalled EXCEPT ![p] = TRUE]
           /\ UNCHANGED <<starts, cmd, stage, ended, req>>
  <2>1. signalled' \in [Proc -> BOOLEAN] BY <1>2 DEF RunsTyped
  <2>2. \A q \in Proc : signalled'[q] => stage[q] # "down" /\ cmd[q] = "serve"
    BY <1>1, <1>2 DEF RunsTyped
  <2>3. RunsTyped' BY <1>2, <2>1, <2>2 DEF RunsTyped
  <2>4. Alone(p) /\ ProcFits(p)' /\ (Unbeaten(p) => Unbeaten(p)') /\ ended'[p] # "race"
    BY <1>1, <1>2, NoReason DEF Rest, Alone, ProcFits, Unbeaten, db
  <2> QED BY <1>1, <2>3, <2>4, MakesNothing DEF Keeps
<1>3. CASE End(p, "killed") BY <1>1, <1>3, Stops DEF Ending
<1> QED BY <1>2, <1>3 DEF Signal, Catches

LEMMA KillKeeps ==
  ASSUME RunsTyped, Rest, NEW p \in Proc, Kill(p)
  PROVE  Keeps
<1>1. stage[p] # "down" /\ End(p, "killed") /\ UNCHANGED db /\ "killed" \in Ending
  BY DEF Kill, Ending
<1> QED BY <1>1, Stops

\* Requests leave the processes and the database alone.
LEMMA SetKeepsRest ==
  ASSUME Rest, UNCHANGED <<db, proc>>
  PROVE  Rest'
BY DEF Rest, db, proc, DbTyped, ProcFits, CreatedOnce, MakerUnbeaten, Unbeaten

LEMMA AcceptKeeps ==
  ASSUME RunsTyped, Rest, NEW r \in Req, NEW p \in Proc, NEW op \in {"api", "health"},
         Accept(r, p, op)
  PROVE  Keeps
<1> DEFINE v == [op |-> op, at |-> "handler", on |-> p, stuck |-> FALSE]
<1>1. v \in Request /\ v.on = p BY DEF Request
<1>3. Set(r, v) /\ stage[p] \in Serving BY DEF Accept, Serving
<1>4. Rest' BY <1>3, SetKeepsRest DEF Set
<1> HIDE DEF v
<1> QED BY <1>1, <1>3, <1>4, SetTyped DEF Keeps

LEMMA ReplyKeeps ==
  ASSUME RunsTyped, Rest, NEW r \in Req, Reply(r), req[r].at \in {"handler", "database"}
  PROVE  Keeps
<1>1. Rest' BY SetKeepsRest DEF Reply, Set
<1> QED BY <1>1, ReplyTyped DEF Keeps

LEMMA AcquireKeeps ==
  ASSUME RunsTyped, Rest, NEW r \in Req, Acquire(r)
  PROVE  Keeps
<1>0. req[r].at = "handler" BY DEF Acquire
<1>1. CASE Reply(r) BY <1>0, <1>1, ReplyKeeps
<1>2. ASSUME NEW s \in BOOLEAN, Set(r, [req[r] EXCEPT !.at = "database", !.stuck = s])
      PROVE  Keeps
  <2> DEFINE a == [req[r] EXCEPT !.at = "database"]
             v == [a EXCEPT !.stuck = s]
  <2>1. v = [req[r] EXCEPT !.at = "database", !.stuck = s] OBVIOUS
  <2>2. a \in Request /\ a.on = req[r].on BY DEF RunsTyped, Request
  <2> HIDE DEF a
  <2>3. v \in Request /\ v.on = a.on BY <2>2 DEF Request
  <2> HIDE DEF v
  <2>4. Set(r, v) BY <1>2, <2>1
  <2>5. v.on \in Proc /\ stage[v.on] \in Serving BY <1>0, <2>2, <2>3 DEF RunsTyped
  <2>6. Rest' BY <2>4, SetKeepsRest DEF Set
  <2> QED BY <2>3, <2>4, <2>5, <2>6, SetTyped DEF Keeps
<1>3. CASE \E s \in BOOLEAN : Set(r, [req[r] EXCEPT !.at = "database", !.stuck = s])
  BY <1>2, <1>3
<1> QED BY <1>1, <1>3 DEF Acquire

LEMMA ReleaseKeeps ==
  ASSUME RunsTyped, Rest, NEW r \in Req, Release(r)
  PROVE  Keeps
<1>0. req[r].at = "database" BY DEF Release
<1>1. CASE Reply(r) BY <1>0, <1>1, ReplyKeeps
<1>2. CASE Set(r, [req[r] EXCEPT !.at = "handler"])
  <2> DEFINE v == [req[r] EXCEPT !.at = "handler"]
  <2>1. v \in Request /\ v.on = req[r].on BY DEF RunsTyped, Request
  <2>2. v.on \in Proc /\ stage[v.on] \in Serving BY <1>0, <2>1 DEF RunsTyped
  <2>3. Set(r, v) BY <1>2
  <2> HIDE DEF v
  <2>4. Rest' BY <2>3, SetKeepsRest DEF Set
  <2> QED BY <2>1, <2>2, <2>3, <2>4, SetTyped DEF Keeps
<1> QED BY <1>1, <1>2 DEF Release

LEMMA TimeOutKeeps ==
  ASSUME RunsTyped, Rest, NEW r \in Req, TimeOut(r)
  PROVE  Keeps
<1>1. req[r].at = "database" /\ Reply(r) BY DEF TimeOut, Timed
<1> QED BY <1>1, ReplyKeeps

LEMMA AnsweredKeeps ==
  ASSUME RunsTyped, Rest, NEW r \in Req, Answered(r)
  PROVE  Keeps
<1>1. Set(r, NoRequest) BY DEF Answered
<1>2. NoRequest \in Request /\ NoRequest.at = "idle" BY DEF NoRequest, Request
<1>3. Rest' BY <1>1, SetKeepsRest DEF Set
<1> QED BY <1>1, <1>2, <1>3, SetTyped DEF Keeps

LEMMA NextKeeps == ASSUME IInv, [Next]_vars PROVE IInv'
<1>0. RunsTyped /\ Rest BY InvParts
<1> SUFFICES Keeps
  <2>1. IInv' <=> RunsTyped' /\ Rest' BY InvParts, PTL
  <2> QED BY <2>1 DEF Keeps
<1>1. CASE \E p \in Proc : Step(p)
  <2>1. PICK p \in Proc : Step(p) BY <1>1
  <2> QED
    BY <1>0, <2>1, EnsureVersionsKeeps, CreateVersionsKeeps, ReadVersionKeeps,
       ApplyMigrationKeeps, MigrationFailsKeeps, MigratedKeeps, ListenKeeps,
       ShutdownKeeps, ClosePoolKeeps, ExitKeeps DEF Step
<1>2. CASE \E p \in Proc : Refuse(p) \/ Signal(p) \/ Kill(p)
  BY <1>0, <1>2, RefuseKeeps, SignalKeeps, KillKeeps
<1>3. CASE \E p \in Proc, c \in {"serve", "migrate"} : Boot(p, c)
  BY <1>0, <1>3, BootKeeps
<1>4. CASE \E r \in Req : Serve(r)
  <2>1. PICK r \in Req : Serve(r) BY <1>4
  <2> QED BY <1>0, <2>1, AcquireKeeps, ReleaseKeeps, TimeOutKeeps, AnsweredKeeps DEF Serve
<1>5. CASE \E r \in Req, p \in Proc, op \in {"api", "health"} : Accept(r, p, op)
  BY <1>0, <1>5, AcceptKeeps
<1>6. CASE UNCHANGED vars
  BY <1>0, <1>6, SetKeepsRest DEF vars, proc, Keeps, RunsTyped
<1> QED BY <1>1, <1>2, <1>3, <1>4, <1>5, <1>6 DEF Next

LEMMA InitHolds == Init => IInv
<1> SUFFICES ASSUME Init PROVE IInv OBVIOUS
<1>1. DbTyped /\ CreatedOnce BY DEF Init, DbTyped, CreatedOnce
<1>2. RunsTyped
  <2>1. NoRequest \in Request /\ NoRequest.at = "idle" BY DEF NoRequest, Request
  <2> HIDE DEF NoRequest
  <2>2. req \in [Req -> Request] /\ \A r \in Req : req[r].at = "idle" BY <2>1 DEF Init
  <2>3. /\ starts \in [Proc -> 0..MaxStarts] /\ cmd \in [Proc -> {"serve", "migrate"}]
        /\ stage \in [Proc -> Stage] /\ signalled \in [Proc -> BOOLEAN]
        /\ ended \in [Proc -> Reason] /\ \A p \in Proc : ~signalled[p]
    BY StartsAssumption DEF Init, Stage, Reason
  <2> QED BY <2>2, <2>3 DEF RunsTyped
<1>3. \A p \in Proc : ProcFits(p)
  <2>1. \A p \in Proc : stage[p] = "down" /\ starts[p] = 0 BY DEF Init
  <2>2. ~(0 > 0) OBVIOUS
  <2> QED BY <2>1, <2>2 DEF ProcFits, Serving
<1>4. MakerUnbeaten BY NoReason DEF Init, MakerUnbeaten
<1> QED BY <1>1, <1>2, <1>3, <1>4, InvParts DEF Rest

-----------------------------------------------------------------------------

\* The inductive invariant holds in every state of a run, and with it the types
\* of processes and requests.
THEOREM Invariance == Spec => []IInv
<1> QED BY InitHolds, NextKeeps, PTL DEF Spec

\* No process serves before the tables are there, whatever races, fails, is
\* cancelled or is killed on the way, and no request meets a database without
\* them (serve, migrations.Up).
THEOREM ServedWhenMigrated == Spec => []ServesWhenMigrated
<1>1. IInv => ServesWhenMigrated
  BY TypeParts DEF IInv, MigratedSoFar, RunsTyped, ServesWhenMigrated
<1> QED BY <1>1, Invariance, PTL

\* However many processes migrate at once without a lock, the tables are created
\* once, and never without the table of versions (migrations.Up).
THEOREM TablesCreatedOnce == Spec => []CreatedOnce
<1>1. IInv => CreatedOnce BY DEF IInv
<1> QED BY <1>1, Invariance, PTL

\* Processes that boot at once never all lose: whoever created what the others
\* fail on has not failed, and goes on unless something else ends it
\* (migrations.Up, serve).
THEOREM OneOutlivesTheRace == Spec => []RaceLeavesOne
<1>1. ASSUME IInv, NEW p \in Proc, starts[p] > 0
      PROVE  \E q \in Proc : Outlives(q)
  <2>1. \E q \in Proc : starts[q] > 0 /\ ended[q] # "race"
    <3>1. CASE versions BY <1>1, <3>1 DEF IInv, MakerUnbeaten, Unbeaten
    <3>2. CASE ~versions BY <1>1, <3>2 DEF IInv, MakerUnbeaten
    <3> QED BY <3>1, <3>2
  <2> QED BY <1>1, <2>1 DEF IInv, RunningNow, Outlives
<1>2. IInv => RaceLeavesOne BY <1>1 DEF RaceLeavesOne
<1> QED BY <1>2, Invariance, PTL
=============================================================================
