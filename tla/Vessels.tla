------------------------------ MODULE Vessels ------------------------------
(***************************************************************************)
(* Vessels: domain.Vessels and the handlers over it, as concurrent         *)
(* requests whose steps are SQL statements.  Deleting is the one operation *)
(* of two statements, in no transaction: active batches are counted, then  *)
(* the row is deleted, and batches move in between.                        *)
(*                                                                         *)
(* No code writes batches yet.  They are as the tables allow: started in a *)
(* vessel, racked into another with a row of batch_events, bottled with or *)
(* without leaving their vessel.  Both tables refer to vessels by foreign  *)
(* keys, which are checked by every statement.                             *)
(***************************************************************************)
EXTENDS Naturals, FiniteSets

CONSTANTS
  Req,          \* slots for requests the server is handling
  VesselId,     \* ids gen_random_uuid can draw
  Form,         \* what a vessel is described by: name, kind, capacity, notes
  BadKind,      \* forms whose kind is none of the enum vessel_kind
  Batch,        \* batch ids
  NULL,         \* no row, no value; also a body that cannot be read
  Gone,         \* the row of a vessel that was deleted
  MaxDay,       \* bound on the calendar
  MaxMoves,     \* bound on how often a batch is racked
  Faults        \* whether statements may fail and the process may crash

ASSUME FormAssumption == BadKind \subseteq Form
ASSUME BoundAssumption == MaxDay \in Nat /\ MaxMoves \in Nat
ASSUME NullAssumption == NULL # Gone /\ {NULL, Gone} \cap (VesselId \cup Form \cup Batch) = {}
ASSUME FaultsAssumption == Faults \in BOOLEAN

VARIABLES
  today,        \* the current date
  vessels,      \* vessels[v]: vessels row; NULL never inserted, Gone deleted
  batches,      \* batches[b]: batches row with its racking events, or NULL
  pc,           \* pc[r]: the statement request r is about to run
  arg           \* arg[r]: what request r was sent and is answered

vars == <<today, vessels, batches, pc, arg>>

-----------------------------------------------------------------------------
(* Types *)

Opt(S) == S \cup {NULL}
Vessel == Form \ BadKind
Move == [from : Opt(VesselId), to : VesselId, day : Nat]
BatchRow == [status : {"planned", "fermenting", "conditioning", "bottled", "archived"},
             vessel : Opt(VesselId),    \* current_vessel_id
             start : Nat,
             moves : SUBSET Move,       \* its racking events that are done
             entered : Nat]             \* history: when it came where it is
ASSUME RowAssumption == NULL \notin BatchRow

Op == {"none", "list", "create", "update", "delete"}
Row == [vessel : VesselId, form : Vessel, batch : Opt(Batch), since : Opt(Nat)]
Arg == [op : Op, id : Opt(VesselId), form : Opt(Form),
        held : SUBSET Batch,    \* history: active in the vessel since the start
        fault : BOOLEAN,        \* history: a statement failed by itself
        rows : SUBSET Row,
        status : {0, 200, 201, 204, 404, 409, 413, 422, 500}]

TypeOK ==
  /\ today \in 0..MaxDay
  /\ vessels \in [VesselId -> Vessel \cup {NULL, Gone}]
  /\ batches \in [Batch -> Opt(BatchRow)]
  /\ pc \in [Req -> {"idle", "list", "insert", "update", "count", "delete", "replied"}]
  /\ arg \in [Req -> Arg]

Sent(op, v, f, held) ==
  [op |-> op, id |-> v, form |-> f, held |-> held, fault |-> FALSE, rows |-> {}, status |-> 0]
NoArg == Sent("none", NULL, NULL, {})

Init ==
  /\ today = 0
  /\ vessels = [v \in VesselId |-> NULL]
  /\ batches = [b \in Batch |-> NULL]
  /\ pc = [r \in Req |-> "idle"]
  /\ arg = [r \in Req |-> NoArg]

-----------------------------------------------------------------------------
(* A definition named after another with a suffix is a regression the      *)
(* mutants put in its place.                                               *)

Present(v) == vessels[v] \notin {NULL, Gone}

\* status in ('fermenting','conditioning')
ActiveStatus == {"fermenting", "conditioning"}
ActiveIn(row, v) == row # NULL /\ row.status \in ActiveStatus /\ row.vessel = v
Occupants(v) == {b \in Batch : ActiveIn(batches[b], v)}

\* What a delete counts before it goes on.
CountedFermenting(v) == {b \in Occupants(v) : batches[b].status = "fermenting"}
CountedAll(v) == {b \in Batch : batches[b] # NULL /\ batches[b].vessel = v}
Counted(v) == Occupants(v)

\* vessel_kind is an enum: any other kind is an error of the statement.
Storable(f) == f \notin BadKind

\* What refers to a vessel by a foreign key.
Refers(row, v) ==
  row # NULL /\ (row.vessel = v \/ \E m \in row.moves : v \in {m.from, m.to})
ReferencedByBatch(v) == \E b \in Batch : batches[b] # NULL /\ batches[b].vessel = v
Referenced(v) == \E b \in Batch : Refers(batches[b], v)

\* The lateral join: the latest racking into the vessel the batch is in.
Days(row) == {m.day : m \in {m \in row.moves : m.to = row.vessel}}
SinceFirst(row) ==
  IF Days(row) = {} THEN row.start ELSE CHOOSE d \in Days(row) : \A e \in Days(row) : d <= e
Since(row) ==
  IF Days(row) = {} THEN row.start ELSE CHOOSE d \in Days(row) : \A e \in Days(row) : e <= d

\* The left join: a row per active batch in the vessel, or one without a batch.
RowsOf(v) ==
  IF Occupants(v) = {} THEN {[vessel |-> v, form |-> vessels[v], batch |-> NULL, since |-> NULL]}
  ELSE {[vessel |-> v, form |-> vessels[v], batch |-> b, since |-> Since(batches[b])] : b \in Occupants(v)}
Listing == UNION {RowsOf(v) : v \in {v \in VesselId : Present(v)}}

-----------------------------------------------------------------------------
(* Moving a request along *)

Begin(r, p, a) ==
  /\ pc[r] = "idle"
  /\ pc' = [pc EXCEPT ![r] = p]
  /\ arg' = [arg EXCEPT ![r] = a]
  /\ UNCHANGED <<today, vessels, batches>>

Answer(r, a) ==
  /\ pc' = [pc EXCEPT ![r] = "replied"]
  /\ arg' = [arg EXCEPT ![r] = a]
Reply(r, s) == Answer(r, [arg[r] EXCEPT !.status = s])

StartList(r) == Begin(r, "list", Sent("list", NULL, NULL, {}))

\* decode: a body that is too large, or not what the contract declares.
StartUnreadable(r) ==
  \E s \in {413, 422}, op \in {"create", "update"} :
    Begin(r, "replied", [Sent(op, NULL, NULL, {}) EXCEPT !.status = s])
StartCreate(r, f) == Begin(r, "insert", Sent("create", NULL, f, {}))

\* Any id, of a row or not.
StartUpdate(r, v, f) == Begin(r, "update", Sent("update", v, f, {}))
StartDelete(r, v) == Begin(r, "count", Sent("delete", v, NULL, Occupants(v)))

-----------------------------------------------------------------------------
(* The statements *)

ListVessels(r) ==
  /\ pc[r] = "list"
  /\ Answer(r, [arg[r] EXCEPT !.status = 200, !.rows = Listing])
  /\ UNCHANGED <<today, vessels, batches>>

CreateVessel(r) ==
  /\ pc[r] = "insert"
  /\ \/ /\ ~Storable(arg[r].form)
        /\ Reply(r, 500)
        /\ UNCHANGED vessels
     \/ /\ Storable(arg[r].form)
        /\ \E v \in VesselId :
             /\ vessels[v] = NULL
             /\ vessels' = [vessels EXCEPT ![v] = arg[r].form]
             /\ Answer(r, [arg[r] EXCEPT !.id = v, !.status = 201])
  /\ UNCHANGED <<today, batches>>

UpdateVessel(r) ==
  /\ pc[r] = "update"
  /\ LET v == arg[r].id IN
       \/ ~Storable(arg[r].form) /\ Reply(r, 500) /\ UNCHANGED vessels
       \/ /\ Storable(arg[r].form) /\ ~Present(v)
          /\ Reply(r, 404)
          /\ UNCHANGED vessels
       \/ /\ Storable(arg[r].form) /\ Present(v)
          /\ vessels' = [vessels EXCEPT ![v] = arg[r].form]
          /\ Reply(r, 200)
  /\ UNCHANGED <<today, batches>>

CountActiveBatches(r) ==
  /\ pc[r] = "count"
  /\ \/ Counted(arg[r].id) # {} /\ Reply(r, 409)
     \/ /\ Counted(arg[r].id) = {}
        /\ pc' = [pc EXCEPT ![r] = "delete"]
        /\ UNCHANGED arg
  /\ UNCHANGED <<today, vessels, batches>>

\* The number of rows deleted is not looked at; a foreign key violation is an
\* error like any other.
DeleteVessel(r) ==
  /\ pc[r] = "delete"
  /\ LET v == arg[r].id IN
       \/ Referenced(v) /\ Reply(r, 500) /\ UNCHANGED vessels
       \/ /\ ~Referenced(v)
          /\ vessels' = IF Present(v) THEN [vessels EXCEPT ![v] = Gone] ELSE vessels
          /\ Reply(r, 204)
  /\ UNCHANGED <<today, batches>>

Fail(r) ==
  /\ Faults
  /\ pc[r] \notin {"idle", "replied"}
  /\ Answer(r, [arg[r] EXCEPT !.fault = TRUE, !.status = 500])
  /\ UNCHANGED <<today, vessels, batches>>

Crash ==
  /\ Faults
  /\ \E r \in Req : pc[r] # "idle"
  /\ pc' = [r \in Req |-> "idle"]
  /\ arg' = [r \in Req |-> NoArg]
  /\ UNCHANGED <<today, vessels, batches>>

Return(r) ==
  /\ pc[r] = "replied"
  /\ pc' = [pc EXCEPT ![r] = "idle"]
  /\ arg' = [arg EXCEPT ![r] = NoArg]
  /\ UNCHANGED <<today, vessels, batches>>

-----------------------------------------------------------------------------
(* Batches.  Every change of one is seen by the requests under way. *)

Changed(b, row) ==
  /\ batches' = [batches EXCEPT ![b] = row]
  /\ arg' = [r \in Req |->
       [arg[r] EXCEPT !.held = {c \in @ : c = b => ActiveIn(row, arg[r].id)}]]
  /\ UNCHANGED <<today, vessels, pc>>

StartBatch(b, v) ==
  /\ batches[b] = NULL
  /\ v # NULL => Present(v)
  /\ \E s \in {"planned", "fermenting"} :
       Changed(b, [status |-> s, vessel |-> v, start |-> today,
                   moves |-> {}, entered |-> today])

Rack(b, v) ==
  LET row == batches[b] IN
    /\ row # NULL
    /\ row.status \in ActiveStatus /\ row.vessel # v
    /\ Cardinality(row.moves) < MaxMoves
    /\ Present(v)
    /\ Changed(b, [row EXCEPT !.vessel = v, !.entered = today,
                     !.moves = @ \cup {[from |-> row.vessel, to |-> v, day |-> today]}])

Becomes == [planned |-> {"fermenting"}, fermenting |-> {"conditioning", "bottled"},
            conditioning |-> {"bottled"}, bottled |-> {"archived"}, archived |-> {}]
Progress(b) ==
  LET row == batches[b] IN
    /\ row # NULL
    /\ \E s \in Becomes[row.status] :
         \E v \in {row.vessel} \cup (IF s \in ActiveStatus THEN {} ELSE {NULL}) :
           Changed(b, [row EXCEPT !.status = s, !.vessel = v])

NextDay ==
  /\ today < MaxDay
  /\ today' = today + 1
  /\ UNCHANGED <<vessels, batches, pc, arg>>

-----------------------------------------------------------------------------

Start(r) ==
  \/ StartList(r) \/ StartUnreadable(r)
  \/ \E f \in Form : StartCreate(r, f) \/ \E v \in VesselId : StartUpdate(r, v, f)
  \/ \E v \in VesselId : StartDelete(r, v)

Serve(r) ==
  ListVessels(r) \/ CreateVessel(r) \/ UpdateVessel(r) \/ CountActiveBatches(r) \/ DeleteVessel(r)

Next ==
  \/ \E r \in Req : Start(r) \/ Serve(r) \/ Fail(r) \/ Return(r)
  \/ Crash
  \/ \E b \in Batch : Progress(b) \/ \E v \in VesselId : Rack(b, v)
  \/ \E b \in Batch, v \in Opt(VesselId) : StartBatch(b, v)
  \/ NextDay

Spec == Init /\ [][Next]_vars

-----------------------------------------------------------------------------
(* What must hold *)

\* Whatever moves between the count and the delete: no batch is in a vessel that
\* is not there, and none was ever racked out of or into one (Vessels.Delete,
\* the foreign keys of batches and batch_events).
NothingDangles ==
  \A b \in Batch, v \in VesselId : Refers(batches[b], v) => Present(v)

\* Delete refuses to remove a vessel that still holds an active batch
\* (vessels.go:75): if one was in it from the moment the request came in until
\* its answer, the answer is 409, and neither 204 nor the 500 a foreign key
\* would lead to.
HeldIsRefused ==
  \A r \in Req :
    /\ pc[r] = "replied" /\ arg[r].op = "delete" /\ ~arg[r].fault
    /\ arg[r].held # {}
    => arg[r].status = 409

\* The occupancy started when the batch was racked into the vessel, or at the
\* batch start date if it never moved (vessels.go:41): a listing dates every
\* occupant from the day it last came into the vessel it is in, whether it has
\* been there before or not, and leaves no active batch out.
OccupancyDated ==
  [][\A r \in Req : pc[r] = "list" /\ arg'[r].status = 200 =>
       /\ \A row \in arg'[r].rows :
            row.batch # NULL => row.since = batches[row.batch].entered
       /\ \A b \in Batch :
            batches[b] # NULL /\ batches[b].status \in {"fermenting", "conditioning"}
                /\ batches[b].vessel # NULL
            => \E row \in arg'[r].rows : row.batch = b /\ row.vessel = batches[b].vessel]_vars

-----------------------------------------------------------------------------
(* The contract *)

Word(a) ==
  CASE a.status = 201 -> <<"added", a.id>>
    [] a.status = 200 /\ a.op = "update" -> <<"changed", a.id>>
    [] a.status = 200 /\ a.op = "list" -> <<"listed", {<<row.vessel, row.batch>> : row \in a.rows}>>
    [] a.status = 404 -> <<"missing", a.id>>
    [] a.status = 204 -> <<"removed", a.id>>
    [] a.status = 409 -> <<"refused", a.id>>
    [] a.status = 500 /\ a.op = "delete" -> <<"failed", a.id>>
    [] OTHER -> <<"rejected", NULL>>

Home(row) ==
  IF row # NULL /\ row.status \in {"fermenting", "conditioning"} THEN row.vessel ELSE NULL

Contract == INSTANCE Shelf WITH
  Form <- Vessel,
  shelf <- vessels,
  home <- [b \in Batch |-> Home(batches[b])],
  named <- [b \in Batch |-> {v \in VesselId : Refers(batches[b], v)}],
  told <- [r \in Req |-> IF pc[r] = "replied" THEN Word(arg[r]) ELSE NULL]

\* Every answer was the truth at one moment of its request: a vessel said to be
\* deleted is gone for good and nothing named it, a refusal met an active batch,
\* a failure without a fault met a batch that names the vessel, an update came
\* through or found nothing, a listing shows one state (module Shelf).
ImplementsShelf == Contract!Spec

-----------------------------------------------------------------------------
(* The inductive invariant *)

\* What is watched is still in the vessel, a delete goes on only without it, and
\* a batch is dated by its last racking.
ArgFits(r) ==
  LET a == arg[r] IN
    /\ pc[r] = "idle" => a = NoArg
    /\ pc[r] # "replied" => a.status = 0 /\ ~a.fault /\ a.rows = {}
    /\ pc[r] = "list" => a.op = "list"
    /\ pc[r] = "insert" => a.op = "create" /\ a.form # NULL
    /\ pc[r] = "update" => a.op = "update" /\ a.id # NULL /\ a.form # NULL
    /\ pc[r] \in {"count", "delete"} => a.op = "delete" /\ a.id # NULL
    /\ pc[r] = "delete" => a.held = {}
    /\ a.held # {} => a.op = "delete" /\ a.held \subseteq Occupants(a.id)
    /\ pc[r] = "replied" /\ a.op = "delete" => a.id # NULL

DatesFit(b) ==
  LET row == batches[b] IN
    row # NULL =>
      /\ row.entered <= today
      /\ \A m \in row.moves : m.day <= today
      /\ row.vessel # NULL =>
           IF Days(row) = {} THEN row.entered = row.start
           ELSE row.entered \in Days(row) /\ \A d \in Days(row) : d <= row.entered

IInv ==
  /\ TypeOK
  /\ NothingDangles
  /\ HeldIsRefused
  /\ \A r \in Req : ArgFits(r)
  /\ \A b \in Batch : DatesFit(b)
=============================================================================
