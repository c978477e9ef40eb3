--------------------------- MODULE VesselsProofs ---------------------------
(* The inductive invariant of Vessels, what follows from it for any number *)
(* of requests, vessels and batches, and that Vessels implements Shelf.    *)
EXTENDS Vessels, TLAPS

LEMMA NullIsNothing ==
  /\ NULL # Gone /\ NULL \notin VesselId /\ NULL \notin Form /\ NULL \notin Batch
  /\ Gone \notin Form /\ NULL \notin BatchRow
BY NullAssumption, RowAssumption

-----------------------------------------------------------------------------
(* Requests and their records *)

LEMMA SentType ==
  ASSUME NEW op \in Op, NEW v \in Opt(VesselId), NEW f \in Opt(Form), NEW held \in SUBSET Batch
  PROVE  /\ Sent(op, v, f, held) \in Arg
         /\ Sent(op, v, f, held).op = op /\ Sent(op, v, f, held).id = v
         /\ Sent(op, v, f, held).form = f /\ Sent(op, v, f, held).held = held
         /\ Sent(op, v, f, held).status = 0 /\ ~Sent(op, v, f, held).fault
         /\ Sent(op, v, f, held).rows = {}
BY DEF Sent, Arg

LEMMA NoArgType ==
  /\ NoArg \in Arg /\ NoArg.op = "none" /\ NoArg.id = NULL /\ NoArg.form = NULL
  /\ NoArg.held = {} /\ NoArg.status = 0 /\ ~NoArg.fault /\ NoArg.rows = {}
<1>1. "none" \in Op /\ NULL \in Opt(VesselId) /\ NULL \in Opt(Form) /\ {} \in SUBSET Batch
  BY DEF Op, Opt
<1> QED  BY <1>1, SentType DEF NoArg

\* What a statement makes of the record of its request.
Listed(a, rows) == [a EXCEPT !.status = 200, !.rows = rows]
Added(a, v) == [a EXCEPT !.id = v, !.status = 201]
Faulted(a) == [a EXCEPT !.fault = TRUE, !.status = 500]

LEMMA RowsType ==
  ASSUME NEW a \in Arg, NEW rows \in SUBSET Row
  PROVE  /\ Listed(a, rows) \in Arg /\ Listed(a, rows).status = 200
         /\ Listed(a, rows).op = a.op /\ Listed(a, rows).id = a.id
         /\ Listed(a, rows).held = a.held /\ Listed(a, rows).fault = a.fault
         /\ Listed(a, rows).rows = rows
<1> DEFINE c == [a EXCEPT !.status = 200]
           d == [c EXCEPT !.rows = rows]
<1>1. c \in Arg  BY DEF Arg
<1>2. c.status = 200 /\ c.op = a.op /\ c.id = a.id  BY DEF Arg
<1>3. c.held = a.held /\ c.fault = a.fault  BY DEF Arg
<1>4. d = Listed(a, rows)  BY DEF Listed
<1> HIDE DEF c
<1>5. d \in Arg  BY <1>1 DEF Arg
<1>6. d.status = c.status /\ d.op = c.op /\ d.id = c.id  BY <1>1 DEF Arg
<1>7. d.held = c.held /\ d.fault = c.fault /\ d.rows = rows  BY <1>1 DEF Arg
<1> HIDE DEF d
<1> QED  BY <1>2, <1>3, <1>4, <1>5, <1>6, <1>7

LEMMA AddedType ==
  ASSUME NEW a \in Arg, NEW v \in VesselId
  PROVE  /\ Added(a, v) \in Arg /\ Added(a, v).status = 201
         /\ Added(a, v).op = a.op /\ Added(a, v).id = v
         /\ Added(a, v).held = a.held /\ Added(a, v).fault = a.fault
         /\ Added(a, v).rows = a.rows
<1> DEFINE c == [a EXCEPT !.id = v]
<1>0. v \in Opt(VesselId)  BY DEF Opt
<1>1. c \in Arg  BY <1>0 DEF Arg
<1>2. c.op = a.op /\ c.id = v /\ c.held = a.held  BY DEF Arg
<1>3. c.fault = a.fault /\ c.rows = a.rows  BY DEF Arg
<1> DEFINE d == [c EXCEPT !.status = 201]
<1>4. d = Added(a, v)  BY DEF Added
<1> HIDE DEF c
<1>5. d \in Arg  BY <1>1 DEF Arg
<1>6. d.status = 201 /\ d.op = c.op /\ d.id = c.id  BY <1>1 DEF Arg
<1>7. d.held = c.held /\ d.fault = c.fault /\ d.rows = c.rows  BY <1>1 DEF Arg
<1> HIDE DEF d
<1> QED  BY <1>2, <1>3, <1>4, <1>5, <1>6, <1>7

LEMMA FaultType ==
  ASSUME NEW a \in Arg
  PROVE  /\ Faulted(a) \in Arg /\ Faulted(a).status = 500
         /\ Faulted(a).op = a.op /\ Faulted(a).id = a.id
         /\ Faulted(a).held = a.held /\ Faulted(a).fault
         /\ Faulted(a).rows = a.rows
<1> DEFINE c == [a EXCEPT !.fault = TRUE]
           d == [c EXCEPT !.status = 500]
<1>1. c \in Arg
  <2>1. \A t \in BOOLEAN : [a EXCEPT !.fault = t] \in Arg  BY DEF Arg
  <2> QED  BY <2>1, Zenon
<1>2. c.op = a.op /\ c.id = a.id /\ c.held = a.held  BY DEF Arg
<1>3. c.fault /\ c.rows = a.rows  BY DEF Arg
<1>4. d = Faulted(a)  BY DEF Faulted
<1> HIDE DEF c
<1>5. d \in Arg  BY <1>1 DEF Arg
<1>6. d.status = 500 /\ d.op = c.op /\ d.id = c.id  BY <1>1 DEF Arg
<1>7. d.held = c.held /\ d.fault = c.fault /\ d.rows = c.rows  BY <1>1 DEF Arg
<1> HIDE DEF d
<1> QED  BY <1>2, <1>3, <1>4, <1>5, <1>6, <1>7

LEMMA ArgFields ==
  ASSUME NEW a \in Arg
  PROVE  /\ a.op \in Op /\ a.id \in Opt(VesselId) /\ a.form \in Opt(Form)
         /\ a.held \in SUBSET Batch /\ a.rows \in SUBSET Row /\ a.fault \in BOOLEAN
BY DEF Arg

LEMMA RowFields ==
  ASSUME NEW row \in BatchRow
  PROVE  /\ row.vessel \in Opt(VesselId) /\ row.start \in Nat /\ row.entered \in Nat
         /\ row.moves \in SUBSET Move
BY DEF BatchRow

LEMMA PresentType == ASSUME TypeOK, NEW v \in VesselId
                     PROVE  Present(v) <=> vessels[v] \in Vessel
BY NullIsNothing DEF TypeOK, Present, Vessel

-----------------------------------------------------------------------------
(* Initially *)

LEMMA InitIInv == Init => IInv
<1> SUFFICES ASSUME Init PROVE IInv  OBVIOUS
<1>1. TypeOK  BY NoArgType, BoundAssumption DEF Init, TypeOK, Opt
<1>2. NothingDangles  BY DEF Init, NothingDangles, Refers
<1>3. HeldIsRefused  BY DEF Init, HeldIsRefused
<1>4. \A r \in Req : ArgFits(r)  BY NoArgType DEF Init, ArgFits
<1>5. \A b \in Batch : DatesFit(b)  BY DEF Init, DatesFit
<1> QED  BY <1>1, <1>2, <1>3, <1>4, <1>5 DEF IInv

-----------------------------------------------------------------------------
(* Steps of a request *)

\* What a step of r has to show when it leaves the batches alone: that r fits
\* where it arrives, and that no vessel goes that a batch refers to.
LEMMA RequestStep ==
  ASSUME IInv, NEW r \in Req, NEW a \in Arg,
         NEW p \in {"idle", "list", "insert", "update", "count", "delete", "replied"},
         pc' = [pc EXCEPT ![r] = p], arg' = [arg EXCEPT ![r] = a],
         UNCHANGED <<today, batches>>,
         vessels' \in [VesselId -> Vessel \cup {NULL, Gone}],
         \A v \in VesselId : Present(v) /\ Referenced(v) => Present(v)',
         ArgFits(r)',
         p = "replied" /\ a.op = "delete" /\ ~a.fault /\ a.held # {} => a.status = 409
  PROVE  IInv'
<1>0. TypeOK  BY DEF IInv
<1>1. TypeOK'  BY <1>0 DEF TypeOK
<1>2. /\ pc'[r] = p /\ arg'[r] = a
      /\ \A q \in Req \ {r} : pc'[q] = pc[q] /\ arg'[q] = arg[q]
  BY <1>0 DEF TypeOK
<1>3. NothingDangles'
  <2>1. SUFFICES ASSUME NEW b \in Batch, NEW v \in VesselId, Refers(batches[b], v)
                 PROVE  Present(v)'
    BY DEF NothingDangles, Refers
  <2>2. Present(v)  BY <2>1 DEF IInv, NothingDangles
  <2> QED  BY <2>1, <2>2 DEF Referenced
<1>4. HeldIsRefused'  BY <1>2 DEF IInv, HeldIsRefused
<1>5. ASSUME NEW q \in Req PROVE ArgFits(q)'
  <2>1. CASE q = r  BY <2>1
  <2>2. CASE q # r
    <3>1. ArgFits(q)  BY DEF IInv
    <3>2. \A v : Occupants(v)' = Occupants(v)  BY DEF Occupants, ActiveIn
    <3> QED  BY <1>2, <2>2, <3>1, <3>2 DEF ArgFits
  <2> QED  BY <2>1, <2>2
<1>6. \A b \in Batch : DatesFit(b)'
  <2>1. \A b : Days(batches[b])' = Days(batches[b])  BY DEF Days
  <2> QED  BY <2>1 DEF IInv, DatesFit
<1> QED  BY <1>1, <1>3, <1>4, <1>5, <1>6 DEF IInv

LEMMA StartStep ==
  ASSUME IInv, NEW r \in Req, Start(r)
  PROVE  IInv'
<1>0. TypeOK  BY DEF IInv
<1>1. \A v : Occupants(v)' = Occupants(v) /\ Occupants(v) \subseteq Batch
  BY DEF Occupants, ActiveIn, Start, StartList, StartUnreadable, StartCreate,
         StartUpdate, StartDelete, Begin
<1>2. ASSUME NEW a \in Arg, NEW p \in {"list", "insert", "update", "count", "replied"},
             Begin(r, p, a), ArgFits(r)', a.held # {} => p # "replied"
      PROVE  IInv'
  <2>1. /\ pc' = [pc EXCEPT ![r] = p] /\ arg' = [arg EXCEPT ![r] = a]
        /\ UNCHANGED <<today, vessels, batches>>
    BY <1>2 DEF Begin
  <2>2. vessels' \in [VesselId -> Vessel \cup {NULL, Gone}]  BY <1>0, <2>1 DEF TypeOK
  <2>3. \A v \in VesselId : Present(v) => Present(v)'  BY <2>1 DEF Present
  <2>4. \A v \in VesselId : Present(v) /\ Referenced(v) => Present(v)'  BY <2>3
  <2>5. /\ p \in {"idle", "list", "insert", "update", "count", "delete", "replied"}
        /\ p = "replied" /\ a.op = "delete" /\ ~a.fault /\ a.held # {} => a.status = 409
    BY <1>2
  <2>6. UNCHANGED <<today, batches>>  BY <2>1
  <2> QED  BY <1>2, <2>1, <2>2, <2>4, <2>5, <2>6, RequestStep
<1>3. ASSUME NEW a, NEW p, Begin(r, p, a) PROVE pc'[r] = p /\ arg'[r] = a
  BY <1>0, <1>3 DEF Begin, TypeOK
<1>4. "list" \in Op /\ "create" \in Op /\ "update" \in Op /\ "delete" \in Op
  BY DEF Op
<1>5. NULL \in Opt(VesselId) /\ NULL \in Opt(Form)  BY DEF Opt
<1>6. CASE StartList(r)
  <2> DEFINE a == Sent("list", NULL, NULL, {})
  <2>1. a \in Arg /\ a.op = "list" /\ a.held = {} /\ a.status = 0 /\ ~a.fault /\ a.rows = {}
    BY <1>4, <1>5, SentType
  <2> HIDE DEF a
  <2>2. Begin(r, "list", a)  BY <1>6 DEF StartList, a
  <2> QED  BY <1>2, <1>3, <2>1, <2>2 DEF ArgFits
<1>7. CASE StartUnreadable(r)
  <2>1. PICK s \in {413, 422}, op \in {"create", "update"} :
          Begin(r, "replied", [Sent(op, NULL, NULL, {}) EXCEPT !.status = s])
    BY <1>7 DEF StartUnreadable
  <2> DEFINE c == Sent(op, NULL, NULL, {})
             a == [c EXCEPT !.status = s]
  <2>2. c \in Arg /\ c.op = op /\ c.held = {}
    <3>1. op \in Op /\ {} \in SUBSET Batch  BY <1>4
    <3> QED  BY <1>5, <3>1, SentType
  <2>4. Begin(r, "replied", a)  BY <2>1
  <2> HIDE DEF c
  <2>3. a \in Arg /\ a.op = op /\ a.held = {}  BY <2>2 DEF Arg
  <2> HIDE DEF a
  <2> QED  BY <1>2, <1>3, <2>3, <2>4 DEF ArgFits
<1>8. ASSUME NEW f \in Form, StartCreate(r, f) PROVE IInv'
  <2> DEFINE a == Sent("create", NULL, f, {})
  <2>1. a \in Arg /\ a.op = "create" /\ a.form = f /\ a.held = {}
        /\ a.status = 0 /\ ~a.fault /\ a.rows = {}
    BY <1>4, <1>5, SentType DEF Opt
  <2> HIDE DEF a
  <2>2. Begin(r, "insert", a)  BY <1>8 DEF StartCreate, a
  <2>3. f # NULL  BY NullIsNothing
  <2> QED  BY <1>2, <1>3, <2>1, <2>2, <2>3 DEF ArgFits
<1>9. ASSUME NEW f \in Form, NEW v \in VesselId, StartUpdate(r, v, f) PROVE IInv'
  <2> DEFINE a == Sent("update", v, f, {})
  <2>1. a \in Arg /\ a.op = "update" /\ a.form = f /\ a.id = v /\ a.held = {}
        /\ a.status = 0 /\ ~a.fault /\ a.rows = {}
    BY <1>4, <1>5, SentType DEF Opt
  <2> HIDE DEF a
  <2>2. Begin(r, "update", a)  BY <1>9 DEF StartUpdate, a
  <2>3. f # NULL /\ v # NULL  BY NullIsNothing
  <2> QED  BY <1>2, <1>3, <2>1, <2>2, <2>3 DEF ArgFits
<1>10. ASSUME NEW v \in VesselId, StartDelete(r, v) PROVE IInv'
  <2> DEFINE a == Sent("delete", v, NULL, Occupants(v))
  <2>1. a \in Arg /\ a.op = "delete" /\ a.id = v /\ a.held = Occupants(v)
        /\ a.status = 0 /\ ~a.fault /\ a.rows = {}
    BY <1>1, <1>4, <1>5, SentType DEF Opt
  <2> HIDE DEF a
  <2>2. Begin(r, "count", a)  BY <1>10 DEF StartDelete, a
  <2>3. v # NULL  BY NullIsNothing
  <2> QED  BY <1>1, <1>2, <1>3, <2>1, <2>2, <2>3 DEF ArgFits
<1> QED  BY <1>6, <1>7, <1>8, <1>9, <1>10 DEF Start

\* The day a listing gives is the day the batch came where it is.
LEMMA SinceEntered ==
  ASSUME IInv, NEW b \in Batch, batches[b] # NULL, batches[b].vessel # NULL
  PROVE  Since(batches[b]) = batches[b].entered
<1> DEFINE row == batches[b]
           days == Days(row)
<1>1. DatesFit(b) /\ row \in BatchRow  BY DEF IInv, TypeOK, Opt
<1>2. days \subseteq Nat  BY <1>1, RowFields DEF Move, Days
<1>3. row.entered \in Nat  BY <1>1, RowFields
<1>4. IF days = {} THEN row.entered = row.start
      ELSE row.entered \in days /\ \A d \in days : d <= row.entered
  BY <1>1 DEF DatesFit
<1>5. Since(row) = IF days = {} THEN row.start ELSE CHOOSE d \in days : \A e \in days : e <= d
  BY DEF Since
<1> HIDE DEF row, days
<1>6. CASE days = {}  BY <1>4, <1>5, <1>6 DEF row
<1>7. CASE days # {}
  <2> DEFINE m == CHOOSE d \in days : \A e \in days : e <= d
  <2>1. m \in days /\ \A e \in days : e <= m  BY <1>4, <1>7
  <2>2. m \in Nat /\ m <= row.entered /\ row.entered <= m  BY <1>2, <1>4, <1>7, <2>1
  <2> HIDE DEF m
  <2>3. m = row.entered  BY <1>3, <2>2
  <2> QED  BY <1>5, <1>7, <2>3 DEF row, m
<1> QED  BY <1>6, <1>7

LEMMA OccupantFields ==
  ASSUME TypeOK, NEW v \in VesselId, NEW b \in Occupants(v)
  PROVE  /\ b \in Batch /\ b # NULL /\ batches[b] # NULL /\ batches[b] \in BatchRow
         /\ batches[b].vessel = v /\ batches[b].vessel # NULL
BY NullIsNothing DEF Occupants, ActiveIn, TypeOK, Opt

\* What a listing is made of.
LEMMA ListingRows ==
  ASSUME IInv, NEW row \in Listing
  PROVE  \E v \in VesselId :
           /\ Present(v) /\ row.vessel = v /\ row.form = vessels[v]
           /\ \/ /\ Occupants(v) = {} /\ row.batch = NULL
                 /\ row = [vessel |-> v, form |-> vessels[v], batch |-> NULL, since |-> NULL]
              \/ /\ row.batch \in Occupants(v) /\ row.since = batches[row.batch].entered
                 /\ row = [vessel |-> v, form |-> vessels[v], batch |-> row.batch,
                           since |-> row.since]
<1>1. PICK v \in VesselId : Present(v) /\ row \in RowsOf(v)  BY DEF Listing
<1>2. CASE Occupants(v) = {}
  <2>1. row = [vessel |-> v, form |-> vessels[v], batch |-> NULL, since |-> NULL]
    BY <1>1, <1>2 DEF RowsOf
  <2> QED  BY <1>1, <1>2, <2>1
<1>3. CASE Occupants(v) # {}
  <2>1. PICK b \in Occupants(v) :
          row = [vessel |-> v, form |-> vessels[v], batch |-> b, since |-> Since(batches[b])]
    BY <1>1, <1>3 DEF RowsOf
  <2>2. Since(batches[b]) = batches[b].entered
    BY SinceEntered, OccupantFields DEF IInv
  <2>3. /\ row.vessel = v /\ row.form = vessels[v] /\ row.batch = b
        /\ row.since = Since(batches[b])
    BY <2>1
  <2> QED  BY <1>1, <2>1, <2>2, <2>3
<1> QED  BY <1>2, <1>3

LEMMA ListingType == ASSUME IInv PROVE Listing \in SUBSET Row
<1> SUFFICES ASSUME NEW row \in Listing PROVE row \in Row  OBVIOUS
<1>0. TypeOK  BY DEF IInv
<1>1. PICK v \in VesselId :
        /\ Present(v) /\ row.vessel = v /\ row.form = vessels[v]
        /\ \/ /\ Occupants(v) = {} /\ row.batch = NULL
              /\ row = [vessel |-> v, form |-> vessels[v], batch |-> NULL, since |-> NULL]
           \/ /\ row.batch \in Occupants(v) /\ row.since = batches[row.batch].entered
              /\ row = [vessel |-> v, form |-> vessels[v], batch |-> row.batch,
                        since |-> row.since]
  BY ListingRows
<1>2. vessels[v] \in Vessel  BY <1>0, <1>1, PresentType
<1>3. CASE row.batch = NULL /\ row = [vessel |-> v, form |-> vessels[v], batch |-> NULL, since |-> NULL]
  BY <1>2, <1>3 DEF Row, Opt
<1>4. CASE /\ row.batch \in Occupants(v) /\ row.since = batches[row.batch].entered
           /\ row = [vessel |-> v, form |-> vessels[v], batch |-> row.batch, since |-> row.since]
  <2>1. row.batch \in Batch /\ batches[row.batch] \in BatchRow
    BY <1>0, <1>4, OccupantFields
  <2>2. row.since \in Nat  BY <1>4, <2>1, RowFields
  <2> QED  BY <1>2, <1>4, <2>1, <2>2 DEF Row, Opt
<1> QED  BY <1>1, <1>3, <1>4

\* What a statement is run with.
LEMMA ArgOf ==
  ASSUME IInv, NEW r \in Req
  PROVE  /\ arg[r] \in Arg /\ ArgFits(r)
         /\ arg[r].held \subseteq Batch
         /\ pc[r] \in {"count", "delete", "update"} => arg[r].id \in VesselId
         /\ pc[r] \in {"insert", "update"} => arg[r].form \in Form
<1>1. arg[r] \in Arg  BY DEF IInv, TypeOK
<1>2. ArgFits(r)  BY DEF IInv
<1> QED  BY <1>1, <1>2, ArgFields DEF ArgFits, Opt

\* A step that answers.
LEMMA AnswerStep ==
  ASSUME IInv, NEW r \in Req, NEW a \in Arg, Answer(r, a), UNCHANGED <<today, batches>>,
         pc[r] # "replied", a.op = arg[r].op, a.held = arg[r].held,
         a.op = "delete" => a.id = arg[r].id,
         vessels' \in [VesselId -> Vessel \cup {NULL, Gone}],
         \A v \in VesselId : Present(v) /\ Referenced(v) => Present(v)',
         a.op = "delete" /\ ~a.fault /\ a.held # {} => a.status = 409,
         pc[r] # "idle"
  PROVE  IInv'
<1>1. pc' = [pc EXCEPT ![r] = "replied"] /\ arg' = [arg EXCEPT ![r] = a]  BY DEF Answer
<1>2. pc'[r] = "replied" /\ arg'[r] = a  BY <1>1 DEF IInv, TypeOK
<1>3. \A v : Occupants(v)' = Occupants(v)  BY DEF Occupants, ActiveIn
<1>4. ArgFits(r)  BY DEF IInv
<1>5. ArgFits(r)'
  <2>1. a.held # {} => a.op = "delete" /\ a.held \subseteq Occupants(a.id)
    BY <1>4 DEF ArgFits
  <2>2. a.op = "delete" => a.id # NULL  BY <1>4 DEF ArgFits, IInv, TypeOK
  <2> QED  BY <1>2, <1>3, <2>1, <2>2 DEF ArgFits
<1> QED  BY <1>1, <1>5, RequestStep

LEMMA ServeStep ==
  ASSUME IInv, NEW r \in Req, Serve(r) \/ Fail(r)
  PROVE  IInv'
<1> DEFINE v == arg[r].id
<1>0. TypeOK  BY DEF IInv
<1>1. /\ arg[r] \in Arg /\ ArgFits(r)
      /\ pc[r] \in {"count", "delete", "update"} => v \in VesselId
      /\ pc[r] \in {"insert", "update"} => arg[r].form \in Form
  BY ArgOf
<1>2. UNCHANGED vessels =>
        /\ vessels' \in [VesselId -> Vessel \cup {NULL, Gone}]
        /\ \A w \in VesselId : Present(w) => Present(w)'
  BY <1>0 DEF TypeOK, Present
<1>3. ASSUME NEW f \in Form, Storable(f), NEW w \in VesselId,
             vessels' = [vessels EXCEPT ![w] = f]
      PROVE  /\ vessels' \in [VesselId -> Vessel \cup {NULL, Gone}]
             /\ \A x \in VesselId : Present(x) => Present(x)'
  <2>1. f \in Vessel /\ f \notin {NULL, Gone}  BY <1>3, NullIsNothing DEF Storable, Vessel
  <2> QED  BY <1>0, <1>3, <2>1 DEF TypeOK, Present
<1>4. ASSUME NEW s \in {200, 201, 204, 404, 409, 413, 422, 500}, Reply(r, s), UNCHANGED <<today, batches>>,
             pc[r] \notin {"idle", "replied"},
             vessels' \in [VesselId -> Vessel \cup {NULL, Gone}],
             \A w \in VesselId : Present(w) /\ Referenced(w) => Present(w)',
             arg[r].op = "delete" => s = 409 \/ arg[r].held = {}
      PROVE  IInv'
  <2> DEFINE a == [arg[r] EXCEPT !.status = s]
  <2>1. /\ a \in Arg /\ a.status = s /\ a.op = arg[r].op /\ a.id = v /\ a.held = arg[r].held
    BY <1>1 DEF Arg
  <2>2. Answer(r, a)  BY <1>4 DEF Reply
  <2> HIDE DEF a
  <2> QED  BY <1>4, <2>1, <2>2, AnswerStep
<1>5. CASE ListVessels(r)
  <2> DEFINE a == Listed(arg[r], Listing)
  <2>1. Listing \in SUBSET Row  BY ListingType
  <2>2. a \in Arg /\ a.op = arg[r].op /\ a.held = arg[r].held  BY <1>1, <2>1, RowsType
  <2>3. Answer(r, a) /\ pc[r] = "list"  BY <1>5 DEF ListVessels, Listed
  <2>4. arg[r].op = "list"  BY <1>1, <2>3 DEF ArgFits
  <2>5. UNCHANGED <<today, batches, vessels>>  BY <1>5 DEF ListVessels
  <2> HIDE DEF a
  <2> QED  BY <1>2, <2>2, <2>3, <2>4, <2>5, AnswerStep
<1>6. CASE CreateVessel(r)
  <2>1. arg[r].op = "create" /\ arg[r].form \in Form /\ pc[r] = "insert"
    BY <1>1, <1>6 DEF CreateVessel, ArgFits
  <2>2. UNCHANGED <<today, batches>>  BY <1>6 DEF CreateVessel
  <2>3. CASE Reply(r, 500) /\ UNCHANGED vessels  BY <1>2, <1>4, <2>1, <2>2, <2>3
  <2>4. ASSUME NEW w \in VesselId, Storable(arg[r].form),
               vessels' = [vessels EXCEPT ![w] = arg[r].form],
               Answer(r, [arg[r] EXCEPT !.id = w, !.status = 201])
        PROVE  IInv'
    <3> DEFINE a == Added(arg[r], w)
    <3>1. a \in Arg /\ a.op = arg[r].op /\ a.held = arg[r].held  BY <1>1, AddedType
    <3>2. Answer(r, a)  BY <2>4 DEF Added
    <3> HIDE DEF a
    <3>3. /\ vessels' \in [VesselId -> Vessel \cup {NULL, Gone}]
          /\ \A x \in VesselId : Present(x) => Present(x)'
      BY <1>3, <2>1, <2>4
    <3> QED  BY <2>1, <2>2, <3>1, <3>2, <3>3, AnswerStep
  <2> QED  BY <1>6, <2>3, <2>4 DEF CreateVessel
<1>7. CASE UpdateVessel(r)
  <2>1. arg[r].op = "update" /\ arg[r].form \in Form /\ pc[r] = "update" /\ v \in VesselId
    BY <1>1, <1>7 DEF UpdateVessel, ArgFits
  <2>2. UNCHANGED <<today, batches>>  BY <1>7 DEF UpdateVessel
  <2>3. CASE (Reply(r, 500) \/ Reply(r, 404)) /\ UNCHANGED vessels
    BY <1>2, <1>4, <2>1, <2>2, <2>3
  <2>4. CASE Storable(arg[r].form) /\ vessels' = [vessels EXCEPT ![v] = arg[r].form] /\ Reply(r, 200)
    <3>1. /\ vessels' \in [VesselId -> Vessel \cup {NULL, Gone}]
          /\ \A x \in VesselId : Present(x) => Present(x)'
      BY <1>3, <2>1, <2>4
    <3> QED  BY <1>4, <2>1, <2>2, <2>4, <3>1
  <2> QED  BY <1>7, <2>3, <2>4 DEF UpdateVessel
<1>8. CASE CountActiveBatches(r)
  <2>1. arg[r].op = "delete" /\ pc[r] = "count" /\ v \in VesselId /\ v # NULL
        /\ (arg[r].held # {} => arg[r].held \subseteq Occupants(v))
    BY <1>1, <1>8, NullIsNothing DEF CountActiveBatches, ArgFits
  <2>2. UNCHANGED <<today, batches, vessels>>  BY <1>8 DEF CountActiveBatches
  <2>3. CASE Reply(r, 409)  BY <1>2, <1>4, <2>1, <2>2, <2>3
  <2>4. CASE Counted(v) = {} /\ pc' = [pc EXCEPT ![r] = "delete"] /\ UNCHANGED arg
    <3>1. arg[r].held = {}  BY <2>1, <2>4 DEF Counted
    <3>2. arg' = [arg EXCEPT ![r] = arg[r]]  BY <1>0, <2>4 DEF TypeOK
    <3>3. pc'[r] = "delete" /\ arg'[r] = arg[r]  BY <1>0, <2>4 DEF TypeOK
    <3>4. arg[r].status = 0 /\ ~arg[r].fault /\ arg[r].rows = {}  BY <1>1, <2>1 DEF ArgFits
    <3>5. ArgFits(r)'  BY <2>1, <3>1, <3>3, <3>4 DEF ArgFits
    <3> QED  BY <1>1, <1>2, <2>2, <2>4, <3>2, <3>5, RequestStep
  <2> QED  BY <1>8, <2>3, <2>4 DEF CountActiveBatches
<1>9. CASE DeleteVessel(r)
  <2>1. arg[r].op = "delete" /\ pc[r] = "delete" /\ v \in VesselId /\ arg[r].held = {}
    BY <1>1, <1>9 DEF DeleteVessel, ArgFits
  <2>2. UNCHANGED <<today, batches>>  BY <1>9 DEF DeleteVessel
  <2>3. CASE Reply(r, 500) /\ UNCHANGED vessels  BY <1>2, <1>4, <2>1, <2>2, <2>3
  <2>4. CASE /\ ~Referenced(v) /\ Reply(r, 204)
             /\ vessels' = IF Present(v) THEN [vessels EXCEPT ![v] = Gone] ELSE vessels
    <3>1. vessels' \in [VesselId -> Vessel \cup {NULL, Gone}]
      BY <1>0, <2>4 DEF TypeOK
    <3>2. \A w \in VesselId \ {v} : vessels'[w] = vessels[w]  BY <1>0, <2>1, <2>4 DEF TypeOK
    <3>3. \A w \in VesselId : Present(w) /\ Referenced(w) => Present(w)'
      BY <2>4, <3>2 DEF Present
    <3> QED  BY <1>4, <2>1, <2>2, <2>4, <3>1, <3>3
  <2> QED  BY <1>9, <2>3, <2>4 DEF DeleteVessel
<1>10. CASE Fail(r)
  <2> DEFINE a == Faulted(arg[r])
  <2>1. a \in Arg /\ a.op = arg[r].op /\ a.held = arg[r].held /\ a.id = arg[r].id /\ a.fault
    BY <1>1, FaultType
  <2>2. Answer(r, a) /\ pc[r] \notin {"idle", "replied"} /\ UNCHANGED <<today, vessels, batches>>
    BY <1>10 DEF Fail, Faulted
  <2> HIDE DEF a
  <2> QED  BY <1>2, <2>1, <2>2, AnswerStep
<1> QED  BY <1>5, <1>6, <1>7, <1>8, <1>9, <1>10 DEF Serve

LEMMA ReturnStep ==
  ASSUME IInv, NEW r \in Req, Return(r)
  PROVE  IInv'
<1>1. /\ pc' = [pc EXCEPT ![r] = "idle"] /\ arg' = [arg EXCEPT ![r] = NoArg]
      /\ UNCHANGED <<today, vessels, batches>>
  BY DEF Return
<1>2. pc'[r] = "idle" /\ arg'[r] = NoArg  BY <1>1 DEF IInv, TypeOK
<1>3. ArgFits(r)'  BY <1>2, NoArgType DEF ArgFits
<1>4. vessels' \in [VesselId -> Vessel \cup {NULL, Gone}]  BY <1>1 DEF IInv, TypeOK
<1>5. \A v \in VesselId : Present(v) => Present(v)'  BY <1>1 DEF Present
<1> QED  BY <1>1, <1>3, <1>4, <1>5, NoArgType, RequestStep

LEMMA CrashStep ==
  ASSUME IInv, Crash
  PROVE  IInv'
<1>1. /\ pc' = [r \in Req |-> "idle"] /\ arg' = [r \in Req |-> NoArg]
      /\ UNCHANGED <<today, vessels, batches>>
  BY DEF Crash
<1>2. TypeOK'  BY <1>1, NoArgType DEF IInv, TypeOK
<1>3. NothingDangles'  BY <1>1 DEF IInv, NothingDangles, Refers, Present
<1>4. HeldIsRefused'  BY <1>1 DEF HeldIsRefused
<1>5. ASSUME NEW r \in Req PROVE ArgFits(r)'
  <2>1. pc'[r] = "idle" /\ arg'[r] = NoArg  BY <1>1
  <2> QED  BY <2>1, NoArgType DEF ArgFits
<1>6. ASSUME NEW b \in Batch PROVE DatesFit(b)'
  <2>1. DatesFit(b)  BY DEF IInv
  <2>2. Days(batches[b])' = Days(batches[b])  BY <1>1 DEF Days
  <2> QED  BY <1>1, <2>1, <2>2 DEF DatesFit
<1> QED  BY <1>2, <1>3, <1>4, <1>5, <1>6 DEF IInv

-----------------------------------------------------------------------------
(* Steps of batches and of the calendar *)

\* What watches a batch changes nothing but what it watches.
LEMMA WatchStep ==
  ASSUME IInv, NEW b \in Batch, NEW row \in BatchRow, Changed(b, row), NEW r \in Req
  PROVE  /\ pc'[r] = pc[r] /\ arg'[r] \in Arg
         /\ arg'[r].held = {c \in arg[r].held : c = b => ActiveIn(row, arg[r].id)}
         /\ arg'[r].op = arg[r].op /\ arg'[r].id = arg[r].id /\ arg'[r].form = arg[r].form
         /\ arg'[r].status = arg[r].status /\ arg'[r].fault = arg[r].fault
         /\ arg'[r].rows = arg[r].rows
         /\ arg[r].held = {} => arg'[r] = arg[r]
<1> DEFINE held == {c \in arg[r].held : c = b => ActiveIn(row, arg[r].id)}
<1>1. arg[r] \in Arg  BY ArgOf
<1>2. held \in SUBSET Batch  BY <1>1, ArgFields
<1>3. arg'[r] = [arg[r] EXCEPT !.held = held]  BY DEF Changed
<1>4. arg[r].held = {} => held = arg[r].held  OBVIOUS
<1>5. pc' = pc  BY DEF Changed
<1> HIDE DEF held
<1>6. arg[r].held = {} => [arg[r] EXCEPT !.held = held] = arg[r]  BY <1>1, <1>4 DEF Arg
<1>7. /\ arg'[r] \in Arg /\ arg'[r].held = held
      /\ arg'[r].op = arg[r].op /\ arg'[r].id = arg[r].id /\ arg'[r].form = arg[r].form
      /\ arg'[r].status = arg[r].status /\ arg'[r].fault = arg[r].fault
      /\ arg'[r].rows = arg[r].rows
  BY <1>1, <1>2, <1>3 DEF Arg
<1> QED  BY <1>3, <1>5, <1>6, <1>7 DEF held

LEMMA ChangedStep ==
  ASSUME IInv, NEW b \in Batch, NEW row \in BatchRow, Changed(b, row),
         \A v \in VesselId : Refers(row, v) => Present(v),
         DatesFit(b)'
  PROVE  IInv'
<1>0. TypeOK  BY DEF IInv
<1>1. /\ UNCHANGED <<today, vessels, pc>> /\ batches' = [batches EXCEPT ![b] = row]
      /\ arg' = [r \in Req |-> arg'[r]]
  BY DEF Changed
<1>2. batches'[b] = row /\ \A c \in Batch \ {b} : batches'[c] = batches[c]
  BY <1>0, <1>1 DEF TypeOK
<1>3. TypeOK'
  <2>1. arg' \in [Req -> Arg]  BY <1>1, WatchStep
  <2>2. batches' \in [Batch -> Opt(BatchRow)]  BY <1>0, <1>1 DEF TypeOK, Opt
  <2> QED  BY <1>0, <1>1, <2>1, <2>2 DEF TypeOK
<1>4. NothingDangles'
  <2> SUFFICES ASSUME NEW c \in Batch, NEW v \in VesselId, Refers(batches'[c], v)
               PROVE  Present(v)'
    BY DEF NothingDangles, Refers
  <2>1. Present(v)  BY <1>2 DEF IInv, NothingDangles
  <2> QED  BY <1>1, <2>1 DEF Present
<1>5. HeldIsRefused'
  <2> SUFFICES ASSUME NEW r \in Req, pc'[r] = "replied", arg'[r].op = "delete",
                      ~arg'[r].fault, arg'[r].held # {}
               PROVE  arg'[r].status = 409
    BY DEF HeldIsRefused
  <2>1. /\ pc[r] = "replied" /\ arg[r].op = "delete" /\ ~arg[r].fault /\ arg[r].held # {}
        /\ arg'[r].status = arg[r].status
    BY WatchStep
  <2> QED  BY <2>1 DEF IInv, HeldIsRefused
<1>6. ASSUME NEW r \in Req PROVE ArgFits(r)'
  <2>1. ArgFits(r)  BY DEF IInv
  <2>2. /\ pc'[r] = pc[r]
        /\ arg'[r].held = {c \in arg[r].held : c = b => ActiveIn(row, arg[r].id)}
        /\ arg'[r].op = arg[r].op /\ arg'[r].id = arg[r].id /\ arg'[r].form = arg[r].form
        /\ arg'[r].status = arg[r].status /\ arg'[r].fault = arg[r].fault
        /\ arg'[r].rows = arg[r].rows
        /\ arg[r].held = {} => arg'[r] = arg[r]
    BY WatchStep
  <2>3. arg'[r].held \subseteq arg[r].held  BY <2>2
  <2>4. arg'[r].held # {} => arg'[r].op = "delete" /\ arg'[r].held \subseteq Occupants(arg[r].id)'
    <3> SUFFICES ASSUME arg'[r].held # {}
                 PROVE  arg'[r].op = "delete" /\ arg'[r].held \subseteq Occupants(arg[r].id)'
      OBVIOUS
    <3>1. arg[r].op = "delete" /\ arg[r].held \subseteq Occupants(arg[r].id)
      BY <2>1, <2>3 DEF ArgFits
    <3>2. ASSUME NEW c \in arg'[r].held PROVE c \in Occupants(arg[r].id)'
      <4>1. c \in arg[r].held /\ (c = b => ActiveIn(row, arg[r].id))  BY <2>2
      <4>2. c \in Batch /\ ActiveIn(batches[c], arg[r].id)  BY <3>1, <4>1 DEF Occupants
      <4>3. ActiveIn(batches'[c], arg[r].id)  BY <1>2, <4>1, <4>2
      <4> QED  BY <2>2, <4>2, <4>3 DEF Occupants, ActiveIn
    <3> QED  BY <2>2, <3>1, <3>2
  <2>5. arg[r] = NoArg => arg'[r] = arg[r]  BY <2>2, NoArgType
  <2> QED  BY <2>1, <2>2, <2>3, <2>4, <2>5 DEF ArgFits
<1>7. ASSUME NEW c \in Batch PROVE DatesFit(c)'
  <2>1. CASE c = b  BY <2>1
  <2>2. CASE c # b
    <3>1. DatesFit(c) /\ batches'[c] = batches[c] /\ today' = today
      BY <1>1, <1>2, <2>2 DEF IInv
    <3>2. Days(batches[c])' = Days(batches[c])  BY <3>1 DEF Days
    <3> QED  BY <3>1, <3>2 DEF DatesFit
  <2> QED  BY <2>1, <2>2
<1> QED  BY <1>3, <1>4, <1>5, <1>6, <1>7 DEF IInv

\* Whatever a batch does, its new row names only vessels that are there, and is
\* dated by its last racking.
BatchStep(b) ==
  \E row \in BatchRow :
    /\ Changed(b, row)
    /\ \A v \in VesselId : Refers(row, v) => Present(v)
    /\ DatesFit(b)'

LEMMA StartBatchStep ==
  ASSUME IInv, NEW b \in Batch, NEW v \in Opt(VesselId), StartBatch(b, v)
  PROVE  BatchStep(b)
<1>0. TypeOK /\ today \in Nat  BY BoundAssumption DEF IInv, TypeOK
<1>1. PICK s \in {"planned", "fermenting"} :
        Changed(b, [status |-> s, vessel |-> v, start |-> today, moves |-> {}, entered |-> today])
  BY DEF StartBatch
<1> DEFINE row == [status |-> s, vessel |-> v, start |-> today, moves |-> {}, entered |-> today]
<1>2. row \in BatchRow  BY <1>0 DEF BatchRow
<1>3. row.vessel = v /\ row.moves = {} /\ row.entered = today /\ row.start = today  OBVIOUS
<1>4. Changed(b, row)  BY <1>1
<1> HIDE DEF row
<1>5. \A w \in VesselId : Refers(row, w) => Present(w)
  BY <1>3, NullIsNothing DEF Refers, StartBatch
<1>6. batches'[b] = row /\ today' = today  BY <1>0, <1>4 DEF Changed, TypeOK
<1>7. Days(row) = {}  BY <1>3 DEF Days
<1>8. DatesFit(b)'  BY <1>0, <1>3, <1>6, <1>7 DEF DatesFit, Days
<1> QED  BY <1>2, <1>4, <1>5, <1>8 DEF BatchStep

LEMMA RackStep ==
  ASSUME IInv, NEW b \in Batch, NEW v \in VesselId, Rack(b, v)
  PROVE  BatchStep(b)
<1> DEFINE old == batches[b]
           m == [from |-> old.vessel, to |-> v, day |-> today]
           row == [old EXCEPT !.vessel = v, !.entered = today, !.moves = old.moves \cup {m}]
<1>0. TypeOK /\ today \in Nat  BY BoundAssumption DEF IInv, TypeOK
<1>1. old # NULL /\ old \in BatchRow /\ DatesFit(b) /\ Present(v)
  BY <1>0 DEF Rack, TypeOK, Opt, IInv
<1>2. Changed(b, row)  BY DEF Rack
<1>3. m \in Move  BY <1>0, <1>1, RowFields DEF Move
<1>4. m.from = old.vessel /\ m.to = v /\ m.day = today  OBVIOUS
<1> DEFINE moves == old.moves \cup {m}
<1>5. moves \in SUBSET Move  BY <1>1, <1>3, RowFields
<1>6. /\ row \in BatchRow /\ row.vessel = v /\ row.moves = moves
      /\ row.entered = today
  <2> HIDE DEF m, moves
  <2> DEFINE c == [old EXCEPT !.vessel = v]
             d == [c EXCEPT !.entered = today]
             e == [d EXCEPT !.moves = moves]
  <2>1. v \in Opt(VesselId)  BY DEF Opt
  <2>2. c \in BatchRow /\ c.vessel = v  BY <1>1, <2>1 DEF BatchRow
  <2>3. e = row  BY DEF moves
  <2> HIDE DEF c, row
  <2>4. d \in BatchRow /\ d.vessel = v /\ d.entered = today  BY <1>0, <2>2 DEF BatchRow
  <2> HIDE DEF d
  <2>5. e \in BatchRow /\ e.vessel = v /\ e.entered = today /\ e.moves = moves
    BY <1>5, <2>4 DEF BatchRow
  <2> QED  BY <2>3, <2>5
<1> HIDE DEF m, moves, row
<1>11. ASSUME NEW w \in VesselId, Refers(row, w) PROVE Present(w)
  <2>1. CASE w = v  BY <1>1, <2>1
  <2>2. CASE w # v
    <3>1. PICK n \in moves : w \in {n.from, n.to}  BY <1>6, <1>11, <2>2 DEF Refers
    <3>2. Refers(old, w)  BY <1>1, <1>4, <2>2, <3>1 DEF Refers, moves
    <3> QED  BY <3>2 DEF IInv, NothingDangles
  <2> QED  BY <2>1, <2>2
<1>12. batches'[b] = row /\ today' = today  BY <1>0, <1>2 DEF Changed, TypeOK
<1>13. \A n \in moves : n.day <= today  BY <1>0, <1>1, <1>4 DEF DatesFit, moves
<1>14. Days(row) = {n.day : n \in {n \in moves : n.to = v}}  BY <1>6 DEF Days
<1>15. today \in Days(row)  BY <1>4, <1>14 DEF moves
<1>16. \A d \in Days(row) : d <= today  BY <1>13, <1>14
<1>17. Days(batches[b])' = Days(row)  BY <1>12 DEF Days
<1>18. DatesFit(b)'  BY <1>0, <1>6, <1>12, <1>13, <1>15, <1>16, <1>17 DEF DatesFit
<1> QED  BY <1>2, <1>6, <1>11, <1>18 DEF BatchStep

LEMMA ProgressStep ==
  ASSUME IInv, NEW b \in Batch, Progress(b)
  PROVE  BatchStep(b)
<1> DEFINE old == batches[b]
<1>0. TypeOK /\ today \in Nat  BY BoundAssumption DEF IInv, TypeOK
<1>1. old # NULL /\ old \in BatchRow /\ DatesFit(b)
  BY <1>0 DEF Progress, TypeOK, Opt, IInv
<1>2. PICK s \in Becomes[old.status], v \in {old.vessel, NULL} :
        Changed(b, [old EXCEPT !.status = s, !.vessel = v])
  BY DEF Progress
<1> DEFINE row == [old EXCEPT !.status = s, !.vessel = v]
<1>3. s \in {"planned", "fermenting", "conditioning", "bottled", "archived"}
  <2>1. old.status \in {"planned", "fermenting", "conditioning", "bottled", "archived"}
    BY <1>1 DEF BatchRow
  <2> QED  BY <1>2, <2>1 DEF Becomes
<1>4. v \in Opt(VesselId)  BY <1>1, <1>2, RowFields DEF Opt
<1>6. Changed(b, row)  BY <1>2
<1>8. /\ row.vessel = v /\ row.moves = old.moves /\ row.entered = old.entered
      /\ row.start = old.start /\ row \in BatchRow
  <2> DEFINE c == [old EXCEPT !.status = s]
             d == [c EXCEPT !.vessel = v]
  <2>1. /\ c \in BatchRow /\ c.start = old.start /\ c.entered = old.entered
        /\ c.moves = old.moves
    BY <1>1, <1>3 DEF BatchRow
  <2>2. d = row  OBVIOUS
  <2> HIDE DEF c, row
  <2>3. /\ d \in BatchRow /\ d.vessel = v /\ d.start = old.start
        /\ d.entered = old.entered /\ d.moves = old.moves
    BY <1>4, <2>1 DEF BatchRow
  <2> QED  BY <2>2, <2>3
<1> HIDE DEF row
<1>9. ASSUME NEW w \in VesselId, Refers(row, w) PROVE Present(w)
  <2>1. Refers(old, w)  BY <1>1, <1>2, <1>8, <1>9, NullIsNothing DEF Refers
  <2> QED  BY <2>1 DEF IInv, NothingDangles
<1>10. batches'[b] = row /\ today' = today  BY <1>0, <1>6 DEF Changed, TypeOK
<1>11. row.vessel # NULL => Days(row) = Days(old) /\ old.vessel # NULL
  BY <1>2, <1>8 DEF Days
<1>12. Days(batches[b])' = Days(row)  BY <1>10 DEF Days
<1>13. DatesFit(b)'  BY <1>1, <1>8, <1>10, <1>11, <1>12 DEF DatesFit
<1> QED  BY <1>6, <1>8, <1>9, <1>13 DEF BatchStep

LEMMA NextDayStep ==
  ASSUME IInv, NextDay
  PROVE  IInv'
<1>0. TypeOK  BY DEF IInv
<1>1. today' = today + 1 /\ today < MaxDay /\ UNCHANGED <<vessels, batches, pc, arg>>
  BY DEF NextDay
<1>2. TypeOK'  BY <1>0, <1>1, BoundAssumption DEF TypeOK
<1>3. NothingDangles'  BY <1>1 DEF IInv, NothingDangles, Refers, Present
<1>4. HeldIsRefused'  BY <1>1 DEF IInv, HeldIsRefused
<1>5. ASSUME NEW r \in Req PROVE ArgFits(r)'
  <2>1. ArgFits(r)  BY DEF IInv
  <2>2. \A v : Occupants(v)' = Occupants(v)  BY <1>1 DEF Occupants, ActiveIn
  <2>3. pc'[r] = pc[r] /\ arg'[r] = arg[r]  BY <1>1
  <2> QED  BY <2>1, <2>2, <2>3 DEF ArgFits
<1>6. ASSUME NEW b \in Batch PROVE DatesFit(b)'
  <2>1. DatesFit(b)  BY DEF IInv
  <2>2. Days(batches[b])' = Days(batches[b])  BY <1>1 DEF Days
  <2>3. batches[b] # NULL =>
          batches[b].entered \in Nat /\ \A m \in batches[b].moves : m.day \in Nat
    BY <1>0, RowFields DEF TypeOK, Opt, Move
  <2>4. today \in Nat  BY <1>0 DEF TypeOK
  <2>5. \A n \in Nat : n <= today => n <= today'  BY <1>1, <2>4
  <2> QED  BY <1>1, <2>1, <2>2, <2>3, <2>5 DEF DatesFit
<1> QED  BY <1>2, <1>3, <1>4, <1>5, <1>6 DEF IInv

LEMMA BatchSteps ==
  ASSUME IInv, NEW b \in Batch,
         Progress(b) \/ (\E v \in VesselId : Rack(b, v)) \/ (\E v \in Opt(VesselId) : StartBatch(b, v))
  PROVE  BatchStep(b)
BY ProgressStep, RackStep, StartBatchStep

LEMMA IInvStep == IInv /\ [Next]_vars => IInv'
<1> SUFFICES ASSUME IInv, [Next]_vars PROVE IInv'  OBVIOUS
<1>1. ASSUME NEW r \in Req, Start(r) \/ Serve(r) \/ Fail(r) \/ Return(r) PROVE IInv'
  BY <1>1, StartStep, ServeStep, ReturnStep
<1>2. ASSUME NEW b \in Batch, BatchStep(b) PROVE IInv'
  BY <1>2, ChangedStep DEF BatchStep
<1>3. CASE UNCHANGED vars
  <2>1. UNCHANGED <<today, vessels, batches, pc, arg>>  BY <1>3 DEF vars
  <2>2. TypeOK' /\ NothingDangles' /\ HeldIsRefused'
    BY <2>1 DEF IInv, TypeOK, NothingDangles, HeldIsRefused, Refers, Present
  <2>3. ASSUME NEW r \in Req PROVE ArgFits(r)'
    <3>1. \A v : Occupants(v)' = Occupants(v)  BY <2>1 DEF Occupants, ActiveIn
    <3> QED  BY <2>1, <3>1 DEF IInv, ArgFits
  <2>4. ASSUME NEW b \in Batch PROVE DatesFit(b)'
    <3>1. Days(batches[b])' = Days(batches[b])  BY <2>1 DEF Days
    <3> QED  BY <2>1, <3>1 DEF IInv, DatesFit
  <2> QED  BY <2>2, <2>3, <2>4 DEF IInv
<1> QED  BY <1>1, <1>2, <1>3, BatchSteps, CrashStep, NextDayStep DEF Next

-----------------------------------------------------------------------------
(* What follows *)

\* In every reachable state batches refer only to vessels that are there, what a
\* delete saw in its vessel is still in it, and each batch is dated by its last
\* racking (Vessels, the foreign keys of batches and batch_events).
THEOREM Invariance == Spec => []IInv
<1>1. Init => IInv  BY InitIInv
<1>2. IInv /\ [Next]_vars => IInv'  BY IInvStep
<1> QED  BY <1>1, <1>2, PTL DEF Spec

\* The variables have their types; in particular no vessel is stored with a kind
\* the database does not have (Vessels.Create, Vessels.Update).
THEOREM TypeCorrect == Spec => []TypeOK
<1>1. IInv => TypeOK  BY DEF IInv
<1> QED  BY <1>1, Invariance, PTL

\* No batch ever names a vessel that is not there, whatever moves between the
\* count and the delete (Vessels.Delete).
THEOREM NeverDangles == Spec => []NothingDangles
<1>1. IInv => NothingDangles  BY DEF IInv
<1> QED  BY <1>1, Invariance, PTL

\* A delete of a vessel that holds an active batch throughout is answered 409
\* (Vessels.Delete).
THEOREM HeldRefused == Spec => []HeldIsRefused
<1>1. IInv => HeldIsRefused  BY DEF IInv
<1> QED  BY <1>1, Invariance, PTL

\* Only the statement of a list answers a list with 200.
LEMMA OnlyLists ==
  ASSUME IInv, [Next]_vars, NEW r \in Req, pc[r] = "list", arg'[r].status = 200
  PROVE  ListVessels(r)
<1>0. TypeOK /\ arg[r] \in Arg /\ arg[r].status = 0  BY ArgOf DEF IInv, ArgFits
<1>1. ASSUME arg'[r].status = arg[r].status PROVE FALSE  BY <1>0, <1>1
<1>2. ASSUME NEW q \in Req \ {r}, Start(q) \/ Serve(q) \/ Fail(q) \/ Return(q) PROVE FALSE
  <2>1. CASE Start(q)
    <3>1. PICK p, a : Begin(q, p, a)
      BY <2>1 DEF Start, StartList, StartUnreadable, StartCreate, StartUpdate, StartDelete
    <3>2. arg'[r] = arg[r]  BY <1>0, <3>1 DEF Begin, TypeOK
    <3> QED  BY <1>1, <3>2
  <2>2. CASE Serve(q) \/ Fail(q) \/ Return(q)
    <3>1. ASSUME NEW a, arg' = [arg EXCEPT ![q] = a] PROVE arg'[r] = arg[r]
      BY <1>0, <3>1 DEF TypeOK
    <3>2. ASSUME NEW a, Answer(q, a) PROVE arg'[r] = arg[r]  BY <3>1, <3>2 DEF Answer
    <3>3. ASSUME NEW s, Reply(q, s) PROVE arg'[r] = arg[r]  BY <3>2, <3>3 DEF Reply
    <3>4. Serve(q) => arg'[r] = arg[r]
      <4>1. ListVessels(q) \/ CreateVessel(q) => arg'[r] = arg[r]
        BY <3>2, <3>3 DEF ListVessels, CreateVessel
      <4>2. UpdateVessel(q) \/ CountActiveBatches(q) \/ DeleteVessel(q) => arg'[r] = arg[r]
        BY <3>3 DEF UpdateVessel, CountActiveBatches, DeleteVessel
      <4> QED  BY <4>1, <4>2 DEF Serve
    <3>5. Fail(q) \/ Return(q) => arg'[r] = arg[r]  BY <3>1, <3>2 DEF Fail, Return
    <3> QED  BY <1>1, <2>2, <3>4, <3>5
  <2> QED  BY <1>2, <2>1, <2>2
<1>3. CASE Start(r)
  BY <1>3 DEF Start, StartList, StartUnreadable, StartCreate, StartUpdate, StartDelete, Begin
<1>4. CASE Serve(r)
  BY <1>4 DEF Serve, CreateVessel, UpdateVessel, CountActiveBatches, DeleteVessel
<1>5. CASE Fail(r)
  <2>0. Answer(r, Faulted(arg[r]))  BY <1>5 DEF Fail, Faulted
  <2>1. arg'[r] = Faulted(arg[r])  BY <1>0, <2>0 DEF Answer, TypeOK
  <2>2. arg'[r].status = 500  BY <1>0, <2>1, FaultType
  <2> QED  BY <2>2
<1>6. CASE Return(r)  BY <1>6 DEF Return
<1>7. CASE Crash  BY <1>7, NoArgType DEF Crash
<1>8. ASSUME NEW b \in Batch, BatchStep(b) PROVE FALSE
  BY <1>1, <1>8, WatchStep DEF BatchStep
<1>9. CASE NextDay \/ UNCHANGED vars  BY <1>1, <1>9 DEF NextDay, vars
<1> QED  BY <1>2, <1>3, <1>4, <1>5, <1>6, <1>7, <1>8, <1>9, BatchSteps DEF Next

\* A listing names every active batch with the vessel it is in, and dates it
\* from the day it last came there, however often it was racked (Vessels.List).
THEOREM OccupantsDated == Spec => OccupancyDated
<1> DEFINE A == \A r \in Req : pc[r] = "list" /\ arg'[r].status = 200 =>
                  /\ \A row \in arg'[r].rows :
                       row.batch # NULL => row.since = batches[row.batch].entered
                  /\ \A b \in Batch :
                       batches[b] # NULL /\ batches[b].status \in {"fermenting", "conditioning"}
                           /\ batches[b].vessel # NULL
                       => \E row \in arg'[r].rows :
                            row.batch = b /\ row.vessel = batches[b].vessel
<1>1. IInv /\ [Next]_vars => A
  <2> SUFFICES ASSUME IInv, [Next]_vars, NEW r \in Req, pc[r] = "list", arg'[r].status = 200
               PROVE  /\ \A row \in arg'[r].rows :
                           row.batch # NULL => row.since = batches[row.batch].entered
                      /\ \A b \in Batch :
                           batches[b] # NULL /\ batches[b].status \in {"fermenting", "conditioning"}
                               /\ batches[b].vessel # NULL
                           => \E row \in arg'[r].rows :
                                row.batch = b /\ row.vessel = batches[b].vessel
    OBVIOUS
  <2>0. ListVessels(r) /\ arg \in [Req -> Arg]  BY OnlyLists DEF IInv, TypeOK
  <2>1. arg'[r] = Listed(arg[r], Listing)
    BY <2>0 DEF ListVessels, Answer, Listed
  <2>2. arg[r] \in Arg /\ Listing \in SUBSET Row  BY ArgOf, ListingType
  <2>3. arg'[r].rows = Listing  BY <2>1, <2>2, RowsType
  <2>4. ASSUME NEW row \in Listing, row.batch # NULL
        PROVE  row.since = batches[row.batch].entered
    BY <2>4, ListingRows
  <2>5. ASSUME NEW b \in Batch, batches[b] # NULL,
               batches[b].status \in {"fermenting", "conditioning"}, batches[b].vessel # NULL
        PROVE  \E row \in Listing : row.batch = b /\ row.vessel = batches[b].vessel
    <3> DEFINE v == batches[b].vessel
               row == [vessel |-> v, form |-> vessels[v], batch |-> b,
                       since |-> Since(batches[b])]
    <3>1. v \in VesselId  BY <2>5, RowFields DEF IInv, TypeOK, Opt
    <3>2. Present(v)  BY <2>5, <3>1 DEF IInv, NothingDangles, Refers
    <3>3. b \in Occupants(v)  BY <2>5, <3>1 DEF Occupants, ActiveIn, ActiveStatus
    <3>4. row \in RowsOf(v)  BY <3>3 DEF RowsOf
    <3>5. row \in Listing  BY <3>1, <3>2, <3>4 DEF Listing
    <3> QED  BY <3>5
  <2> QED  BY <2>3, <2>4, <2>5
<1>2. IInv /\ [Next]_vars => [A]_vars  BY <1>1
<1> QED  BY <1>2, Invariance, PTL DEF Spec, OccupancyDated

-----------------------------------------------------------------------------
(* Vessels implements Shelf: each answer is a step of the contract, taken by *)
(* the statement it comes from, and every move of a batch is its Live.       *)

LEMMA Words ==
  ASSUME NEW a
  PROVE  /\ a.status = 201 => Word(a) = <<"added", a.id>>
         /\ a.status = 200 /\ a.op = "update" => Word(a) = <<"changed", a.id>>
         /\ a.status = 200 /\ a.op = "list" =>
              Word(a) = <<"listed", {<<row.vessel, row.batch>> : row \in a.rows}>>
         /\ a.status = 404 => Word(a) = <<"missing", a.id>>
         /\ a.status = 204 => Word(a) = <<"removed", a.id>>
         /\ a.status = 409 => Word(a) = <<"refused", a.id>>
         /\ a.status = 500 /\ a.op = "delete" => Word(a) = <<"failed", a.id>>
         /\ a.status = 500 /\ a.op # "delete" => Word(a) = <<"rejected", NULL>>
         /\ a.status \in {413, 422} => Word(a) = <<"rejected", NULL>>
<1>1. a.status = 201 => Word(a) = <<"added", a.id>>
  BY DEF Word
<1>2. a.status = 200 /\ a.op = "update" => Word(a) = <<"changed", a.id>>
  BY DEF Word
<1>3. a.status = 200 /\ a.op = "list" =>
        Word(a) = <<"listed", {<<row.vessel, row.batch>> : row \in a.rows}>>
  BY DEF Word
<1>4. a.status = 404 => Word(a) = <<"missing", a.id>>
  BY DEF Word
<1>5. a.status = 204 => Word(a) = <<"removed", a.id>>
  BY DEF Word
<1>6. a.status = 409 => Word(a) = <<"refused", a.id>>
  BY DEF Word
<1>7. a.status = 500 /\ a.op = "delete" => Word(a) = <<"failed", a.id>>
  BY DEF Word
<1>8. a.status = 500 /\ a.op # "delete" => Word(a) = <<"rejected", NULL>>
  BY DEF Word
<1>9. a.status \in {413, 422} => Word(a) = <<"rejected", NULL>>
  BY DEF Word
<1> QED
  BY <1>1, <1>2, <1>3, <1>4, <1>5, <1>6, <1>7, <1>8, <1>9

LEMMA ShelfIs ==
  ASSUME TypeOK
  PROVE  Contract!OnShelf = {v \in VesselId : Present(v)}
BY PresentType DEF Contract!OnShelf

\* The home of a batch is the vessel it occupies.
LEMMA HomeIs ==
  ASSUME NEW v \in VesselId, NEW b \in Batch
  PROVE  Home(batches[b]) = v <=> b \in Occupants(v)
BY NullIsNothing DEF Home, Occupants, ActiveIn, ActiveStatus

\* What the callers of Vessels have been told.
Told == [q \in Req |-> IF pc[q] = "replied" THEN Word(arg[q]) ELSE NULL]
Says(r, word) == Told[r] = NULL /\ Told' = [Told EXCEPT ![r] = word]

LEMMA Tells ==
  ASSUME IInv, NEW r \in Req, pc[r] # "replied", NEW a, Answer(r, a)
  PROVE  Says(r, Word(a))
<1>1. /\ pc'[r] = "replied" /\ arg'[r] = a
      /\ \A q \in Req \ {r} : pc'[q] = pc[q] /\ arg'[q] = arg[q]
  BY DEF IInv, TypeOK, Answer
<1> DEFINE next == [q \in Req |-> IF pc'[q] = "replied" THEN Word(arg'[q]) ELSE NULL]
<1>2. Told' = next  BY DEF Told, Word
<1>3. next = [Told EXCEPT ![r] = Word(a)]
  <2>1. Told \in [Req -> {Told[q] : q \in Req}]  BY DEF Told
  <2>2. next[r] = Word(a)  BY <1>1
  <2>3. \A q \in Req \ {r} : next[q] = Told[q]  BY <1>1 DEF Told
  <2>4. next = [q \in Req |-> next[q]]  OBVIOUS
  <2> HIDE DEF next
  <2> QED  BY <2>1, <2>2, <2>3, <2>4
<1>4. Told[r] = NULL  BY DEF Told
<1> HIDE DEF next
<1> QED  BY <1>2, <1>3, <1>4 DEF Says

\* Requests do not move batches, and the shelf changes with the vessels.
LEMMA Standing ==
  ASSUME batches' = batches
  PROVE  /\ UNCHANGED [b \in Batch |-> Home(batches[b])]
         /\ UNCHANGED [b \in Batch |-> {v \in VesselId : Refers(batches[b], v)}]
         /\ vessels' = vessels => Contract!Unmoved
BY DEF Contract!Unmoved, Home, Refers

LEMMA ListShows ==
  ASSUME IInv, NEW r \in Req, ListVessels(r)
  PROVE  Contract!Show(r)
<1> DEFINE a == Listed(arg[r], Listing)
           home == [b \in Batch |-> Home(batches[b])]
           Pairs == {<<row.vessel, row.batch>> : row \in Listing}
           Shown == {x \in Contract!OnShelf \X (Batch \cup {NULL}) :
                       IF x[2] = NULL THEN \A b \in Batch : home[b] # x[1] ELSE home[x[2]] = x[1]}
<1>0. TypeOK  BY DEF IInv
<1>1. pc[r] = "list" /\ UNCHANGED <<today, vessels, batches>> /\ Answer(r, a)
  BY DEF ListVessels, Listed
<1>2. a.status = 200 /\ a.op = "list" /\ a.rows = Listing
  <2>1. arg[r] \in Arg /\ ArgFits(r) /\ Listing \in SUBSET Row  BY ArgOf, ListingType
  <2>2. arg[r].op = "list"  BY <1>1, <2>1 DEF ArgFits
  <2> QED  BY <2>1, <2>2, RowsType
<1> HIDE DEF a
<1>3. Word(a) = <<"listed", Pairs>>  BY <1>2, Words
<1>4. ASSUME NEW x \in Pairs PROVE x \in Shown
  <2>1. PICK row \in Listing : x = <<row.vessel, row.batch>>  OBVIOUS
  <2>2. PICK v \in VesselId :
          /\ Present(v) /\ row.vessel = v
          /\ \/ Occupants(v) = {} /\ row.batch = NULL
             \/ row.batch \in Occupants(v)
    BY ListingRows
  <2>3. v \in Contract!OnShelf  BY <1>0, <2>2, ShelfIs
  <2>4. CASE Occupants(v) = {} /\ row.batch = NULL
    <3>1. \A b \in Batch : home[b] # v  BY <2>4, HomeIs
    <3> QED  BY <2>1, <2>2, <2>3, <2>4, <3>1
  <2>5. CASE row.batch \in Occupants(v)
    <3>1. row.batch \in Batch /\ row.batch # NULL  BY <2>5, NullIsNothing DEF Occupants
    <3>2. home[row.batch] = v  BY <2>5, <3>1, HomeIs
    <3> QED  BY <2>1, <2>2, <2>3, <3>1, <3>2
  <2> QED  BY <2>2, <2>4, <2>5
<1>5. ASSUME NEW x \in Shown PROVE x \in Pairs
  <2>1. PICK v \in Contract!OnShelf, b \in Batch \cup {NULL} : x = <<v, b>>  OBVIOUS
  <2>2. v \in VesselId /\ Present(v)  BY <1>0, <2>1, ShelfIs
  <2>3. IF b = NULL THEN \A c \in Batch : home[c] # v ELSE home[b] = v  BY <2>1
  <2>4. SUFFICES \E row \in Listing : row.vessel = v /\ row.batch = b  BY <2>1
  <2>5. RowsOf(v) \subseteq Listing  BY <2>2 DEF Listing
  <2>6. CASE b = NULL
    <3>1. Occupants(v) = {}  BY <2>2, <2>3, <2>6, HomeIs DEF Occupants
    <3>2. [vessel |-> v, form |-> vessels[v], batch |-> NULL, since |-> NULL] \in RowsOf(v)
      BY <3>1 DEF RowsOf
    <3> QED  BY <2>5, <2>6, <3>2
  <2>7. CASE b # NULL
    <3>1. b \in Occupants(v)  BY <2>1, <2>2, <2>3, <2>7, HomeIs
    <3>2. [vessel |-> v, form |-> vessels[v], batch |-> b, since |-> Since(batches[b])] \in RowsOf(v)
      BY <3>1 DEF RowsOf
    <3> QED  BY <2>5, <3>2
  <2> QED  BY <2>6, <2>7
<1>6. Pairs = Shown  BY <1>4, <1>5
<1>7. Says(r, <<"listed", Shown>>)
  <2>1. Says(r, Word(a))  BY <1>1, Tells
  <2> HIDE DEF Pairs, Shown
  <2> QED  BY <1>3, <1>6, <2>1
<1>8. Contract!Unmoved  BY <1>1, Standing
<1> QED  BY <1>7, <1>8 DEF Contract!Show, Contract!Tell, Says, Told

\* What a reply with status s tells.
LEMMA ReplyTells ==
  ASSUME IInv, NEW r \in Req, pc[r] # "replied", NEW s, Reply(r, s)
  PROVE  LET v == arg[r].id IN
         /\ s = 200 /\ arg[r].op = "update" => Says(r, <<"changed", v>>)
         /\ s = 404 => Says(r, <<"missing", v>>)
         /\ s = 204 => Says(r, <<"removed", v>>)
         /\ s = 409 => Says(r, <<"refused", v>>)
         /\ s = 500 /\ arg[r].op = "delete" => Says(r, <<"failed", v>>)
         /\ s = 500 /\ arg[r].op # "delete" => Says(r, <<"rejected", NULL>>)
<1> DEFINE a == [arg[r] EXCEPT !.status = s]
<1>1. Answer(r, a)  BY DEF Reply
<1>2. a.status = s /\ a.op = arg[r].op /\ a.id = arg[r].id  BY ArgOf DEF Arg
<1> HIDE DEF a
<1>3. Says(r, Word(a))  BY <1>1, Tells
<1>4. ASSUME NEW word, Word(a) = word PROVE Says(r, word)  BY <1>3, <1>4
<1> QED  BY <1>2, <1>4, Words

LEMMA ServeTells ==
  ASSUME IInv, NEW r \in Req, Serve(r) \/ Fail(r)
  PROVE  Contract!Next \/ UNCHANGED Contract!vars
<1> DEFINE v == arg[r].id
           f == arg[r].form
<1>0. TypeOK  BY DEF IInv
<1>1. /\ arg[r] \in Arg /\ ArgFits(r)
      /\ pc[r] \in {"count", "delete", "update"} => v \in VesselId
      /\ pc[r] \in {"insert", "update"} => f \in Form
  BY ArgOf
<1>2. \A w \in VesselId : Present(w) <=> w \in Contract!OnShelf  BY <1>0, ShelfIs
<1>3. ASSUME NEW w \in VesselId
      PROVE  /\ Referenced(w) <=> \E b \in Batch : w \in {x \in VesselId : Refers(batches[b], x)}
             /\ Occupants(w) # {} <=> \E b \in Batch : Home(batches[b]) = w
  <2>1. Occupants(w) \subseteq Batch  BY DEF Occupants
  <2> QED  BY <2>1, HomeIs DEF Referenced
<1>4. CASE ListVessels(r)  BY <1>4, ListShows DEF Contract!Next
<1>5. ASSUME Reply(r, 500), arg[r].op # "delete", UNCHANGED <<vessels, batches>>,
             pc[r] # "replied"
      PROVE  Contract!Next
  <2>1. Says(r, <<"rejected", NULL>>)  BY <1>5, ReplyTells
  <2>2. Contract!Unmoved  BY <1>5, Standing
  <2> QED  BY <2>1, <2>2 DEF Contract!Reject, Contract!Tell, Says, Told, Contract!Next
<1>6. CASE CreateVessel(r)
  <2>1. /\ pc[r] = "insert" /\ f \in Form /\ arg[r].op = "create"
        /\ UNCHANGED <<today, batches>>
    BY <1>1, <1>6 DEF CreateVessel, ArgFits
  <2>2. CASE Reply(r, 500) /\ UNCHANGED vessels  BY <1>5, <2>1, <2>2
  <2>3. ASSUME Storable(f), NEW w \in VesselId, vessels[w] = NULL,
               vessels' = [vessels EXCEPT ![w] = f],
               Answer(r, [arg[r] EXCEPT !.id = w, !.status = 201])
        PROVE  Contract!Next
    <3> DEFINE a == Added(arg[r], w)
    <3>1. a.status = 201 /\ a.id = w  BY <1>1, AddedType
    <3>2. Answer(r, a)  BY <2>3 DEF Added
    <3> HIDE DEF a
    <3>3. Says(r, <<"added", w>>)
      <4>1. Says(r, Word(a))  BY <2>1, <3>1, <3>2, Tells
      <4>2. Word(a) = <<"added", w>>  BY <3>1, Words
      <4> QED  BY <4>1, <4>2
    <3>4. f \in Vessel  BY <2>1, <2>3 DEF Storable, Vessel
    <3>5. Contract!Add(r, w, f)  BY <2>1, <2>3, <3>3, Standing DEF Contract!Add, Contract!Tell, Says, Told
    <3> QED  BY <3>4, <3>5 DEF Contract!Next
  <2> QED  BY <1>6, <2>2, <2>3 DEF CreateVessel
<1>7. CASE UpdateVessel(r)
  <2>1. /\ pc[r] = "update" /\ v \in VesselId /\ f \in Form /\ arg[r].op = "update"
        /\ UNCHANGED <<today, batches>>
    BY <1>1, <1>7 DEF UpdateVessel, ArgFits
  <2>2. CASE Reply(r, 500) /\ UNCHANGED vessels  BY <1>5, <2>1, <2>2
  <2>3. CASE ~Present(v) /\ Reply(r, 404) /\ UNCHANGED vessels
    <3>1. Says(r, <<"missing", v>>)  BY <2>1, <2>3, ReplyTells
    <3>2. Contract!Unmoved  BY <2>1, <2>3, Standing
    <3>3. Contract!Miss(r, v)  BY <1>2, <2>1, <2>3, <3>1, <3>2 DEF Contract!Miss, Contract!Tell, Says, Told
    <3> QED  BY <2>1, <3>3 DEF Contract!Next
  <2>4. CASE /\ Storable(f) /\ Present(v) /\ Reply(r, 200)
             /\ vessels' = [vessels EXCEPT ![v] = f]
    <3>1. Says(r, <<"changed", v>>)  BY <2>1, <2>4, ReplyTells
    <3>2. f \in Vessel  BY <2>1, <2>4 DEF Storable, Vessel
    <3>3. Contract!Change(r, v, f)
      BY <1>2, <2>1, <2>4, <3>1, Standing DEF Contract!Change, Contract!Tell, Says, Told
    <3> QED  BY <2>1, <3>2, <3>3 DEF Contract!Next
  <2> QED  BY <1>7, <2>2, <2>3, <2>4 DEF UpdateVessel
<1>8. CASE CountActiveBatches(r)
  <2>1. /\ pc[r] = "count" /\ v \in VesselId /\ arg[r].op = "delete"
        /\ UNCHANGED <<today, vessels, batches>>
    BY <1>1, <1>8 DEF CountActiveBatches, ArgFits
  <2>2. CASE Counted(v) # {} /\ Reply(r, 409)
    <3>1. Says(r, <<"refused", v>>)  BY <2>1, <2>2, ReplyTells
    <3>2. Contract!Unmoved  BY <2>1, Standing
    <3>3. \E b \in Batch : Home(batches[b]) = v  BY <1>3, <2>1, <2>2 DEF Counted
    <3>4. Contract!Refuse(r, v)  BY <3>1, <3>2, <3>3 DEF Contract!Refuse, Contract!Tell, Says, Told
    <3> QED  BY <2>1, <3>4 DEF Contract!Next
  <2>3. CASE pc' = [pc EXCEPT ![r] = "delete"] /\ UNCHANGED arg
    <3>1. \A q \in Req : pc'[q] = "replied" <=> pc[q] = "replied"
      BY <1>0, <2>1, <2>3 DEF TypeOK
    <3>2. UNCHANGED [q \in Req |-> IF pc[q] = "replied" THEN Word(arg[q]) ELSE NULL]
      BY <2>3, <3>1 DEF Word
    <3> QED  BY <2>1, <3>2, Standing DEF Contract!vars
  <2> QED  BY <1>8, <2>2, <2>3 DEF CountActiveBatches
<1>9. ASSUME pc[r] # "replied", v \in VesselId, Says(r, <<"failed", v>>),
             UNCHANGED <<vessels, batches>>, Faults \/ Referenced(v)
      PROVE  Contract!Next
  <2>1. Contract!Unmoved  BY <1>9, Standing
  <2>2. Contract!Fail(r, v)  BY <1>3, <1>9, <2>1 DEF Contract!Fail, Contract!Tell, Says, Told
  <2> QED  BY <1>9, <2>2 DEF Contract!Next
<1>10. CASE DeleteVessel(r)
  <2>1. /\ pc[r] = "delete" /\ v \in VesselId /\ arg[r].op = "delete"
        /\ UNCHANGED <<today, batches>>
    BY <1>1, <1>10 DEF DeleteVessel, ArgFits
  <2>2. CASE Referenced(v) /\ Reply(r, 500) /\ UNCHANGED vessels
    <3>1. Says(r, <<"failed", v>>)  BY <2>1, <2>2, ReplyTells
    <3> QED  BY <1>9, <2>1, <2>2, <3>1
  <2>3. CASE /\ ~Referenced(v) /\ Reply(r, 204)
             /\ vessels' = IF Present(v) THEN [vessels EXCEPT ![v] = Gone] ELSE vessels
    <3>1. Says(r, <<"removed", v>>)  BY <2>1, <2>3, ReplyTells
    <3>2. Contract!Remove(r, v)
      BY <1>2, <1>3, <2>1, <2>3, <3>1, Standing DEF Contract!Remove, Contract!Tell, Says, Told
    <3> QED  BY <2>1, <3>2 DEF Contract!Next
  <2> QED  BY <1>10, <2>2, <2>3 DEF DeleteVessel
<1>11. CASE Fail(r)
  <2> DEFINE a == Faulted(arg[r])
  <2>1. a.status = 500 /\ a.op = arg[r].op /\ a.id = v  BY <1>1, FaultType
  <2>2. /\ Faults /\ pc[r] \notin {"idle", "replied"} /\ UNCHANGED <<today, vessels, batches>>
        /\ Answer(r, a)
    BY <1>11 DEF Fail, Faulted
  <2> HIDE DEF a
  <2>3. CASE arg[r].op = "delete"
    <3>1. v \in VesselId  BY <1>0, <1>1, <2>2, <2>3 DEF ArgFits, TypeOK
    <3>2. Says(r, <<"failed", v>>)
      <4>1. Says(r, Word(a))  BY <2>2, Tells
      <4>2. Word(a) = <<"failed", v>>  BY <2>1, <2>3, Words
      <4> QED  BY <4>1, <4>2
    <3> QED  BY <1>9, <2>2, <3>1, <3>2
  <2>4. CASE arg[r].op # "delete"
    <3>1. Says(r, <<"rejected", NULL>>)
      <4>1. Says(r, Word(a))  BY <2>1, <2>2, <2>4, Tells
      <4>2. Word(a) = <<"rejected", NULL>>  BY <2>1, <2>4, Words
      <4> QED  BY <4>1, <4>2
    <3>2. Contract!Unmoved  BY <2>2, Standing
    <3> QED  BY <3>1, <3>2 DEF Contract!Reject, Contract!Tell, Says, Told, Contract!Next
  <2> QED  BY <2>3, <2>4
<1> QED  BY <1>4, <1>6, <1>7, <1>8, <1>10, <1>11 DEF Serve

LEMMA StartTells ==
  ASSUME IInv, NEW r \in Req, Start(r)
  PROVE  Contract!Next \/ UNCHANGED Contract!vars
<1>0. TypeOK  BY DEF IInv
<1>1. ASSUME NEW p, NEW a, Begin(r, p, a), p # "replied"
      PROVE  UNCHANGED Contract!vars
  <2>1. \A q \in Req : /\ pc'[q] = "replied" <=> pc[q] = "replied"
                       /\ pc[q] = "replied" => arg'[q] = arg[q]
    BY <1>0, <1>1 DEF Begin, TypeOK
  <2>2. Told' = Told
    <3> DEFINE next == [q \in Req |-> IF pc'[q] = "replied" THEN Word(arg'[q]) ELSE NULL]
    <3>1. Told' = next  BY DEF Told, Word
    <3>2. next = Told  BY <2>1 DEF Told
    <3> HIDE DEF next
    <3> QED  BY <3>1, <3>2
  <2>3. UNCHANGED <<vessels, batches>>  BY <1>1 DEF Begin
  <2> QED  BY <2>2, <2>3, Standing DEF Contract!vars, Told
<1>2. CASE StartUnreadable(r)
  <2>1. PICK s \in {413, 422}, op \in {"create", "update"} :
          Begin(r, "replied", [Sent(op, NULL, NULL, {}) EXCEPT !.status = s])
    BY <1>2 DEF StartUnreadable
  <2> DEFINE a == [Sent(op, NULL, NULL, {}) EXCEPT !.status = s]
  <2>2. a.status = s  BY DEF Sent
  <2>3. /\ pc[r] # "replied" /\ UNCHANGED <<vessels, batches>> /\ Answer(r, a)
    BY <2>1 DEF Begin, Answer
  <2> HIDE DEF a
  <2>4. Says(r, Word(a))  BY <2>3, Tells
  <2>5. Word(a) = <<"rejected", NULL>>  BY <2>2, Words
  <2>6. Says(r, <<"rejected", NULL>>)  BY <2>4, <2>5
  <2>7. Contract!Unmoved  BY <2>3, Standing
  <2>8. Contract!Reject(r)
    BY <2>6, <2>7 DEF Contract!Reject, Contract!Tell, Says, Told
  <2> QED  BY <2>8 DEF Contract!Next
<1>3. CASE StartList(r)  BY <1>1, <1>3 DEF StartList
<1>4. ASSUME NEW f \in Form, StartCreate(r, f) PROVE UNCHANGED Contract!vars
  BY <1>1, <1>4 DEF StartCreate
<1>5. ASSUME NEW f \in Form, NEW v \in VesselId, StartUpdate(r, v, f)
      PROVE  UNCHANGED Contract!vars
  BY <1>1, <1>5 DEF StartUpdate
<1>6. ASSUME NEW v \in VesselId, StartDelete(r, v) PROVE UNCHANGED Contract!vars
  BY <1>1, <1>6 DEF StartDelete
<1> QED  BY <1>2, <1>3, <1>4, <1>5, <1>6 DEF Start

\* An answer that was read, or lost with the process, is forgotten.
LEMMA Forgets ==
  ASSUME IInv, NEW S \in SUBSET Req, UNCHANGED <<vessels, batches>>,
         \A q \in Req : IF q \in S THEN pc'[q] = "idle"
                        ELSE pc'[q] = pc[q] /\ arg'[q] = arg[q]
  PROVE  Contract!Next
<1> DEFINE next == [q \in Req |-> IF pc'[q] = "replied" THEN Word(arg'[q]) ELSE NULL]
<1>1. Told' = next  BY DEF Told, Word
<1>2. \A q \in Req : next[q] = IF q \in S THEN NULL ELSE Told[q]  BY DEF Told
<1>3. next = [q \in Req |-> next[q]]  OBVIOUS
<1> HIDE DEF next
<1>4. next = [q \in Req |-> IF q \in S THEN NULL ELSE Told[q]]  BY <1>2, <1>3
<1>5. Told' = [q \in Req |-> IF q \in S THEN NULL ELSE Told[q]]  BY <1>1, <1>4
<1>6. Contract!Unmoved  BY Standing
<1>7. Contract!Forget(S)  BY <1>5, <1>6 DEF Contract!Forget, Told
<1> QED  BY <1>7 DEF Contract!Next

LEMMA BatchLives ==
  ASSUME IInv, NEW b \in Batch, BatchStep(b)
  PROVE  Contract!Next
<1> DEFINE home == [c \in Batch |-> Home(batches[c])]
           named == [c \in Batch |-> {v \in VesselId : Refers(batches[c], v)}]
<1>0. TypeOK  BY DEF IInv
<1>1. PICK row \in BatchRow :
        Changed(b, row) /\ \A v \in VesselId : Refers(row, v) => Present(v)
  BY DEF BatchStep
<1>2. /\ batches' = [batches EXCEPT ![b] = row] /\ UNCHANGED <<vessels, pc>>
  BY <1>1 DEF Changed
<1>3. batches'[b] = row /\ \A c \in Batch \ {b} : batches'[c] = batches[c]
  BY <1>0, <1>2 DEF TypeOK
<1> DEFINE S == {v \in VesselId : Refers(row, v)}
           h == Home(row)
<1>4. S \subseteq Contract!OnShelf  BY <1>0, <1>1, ShelfIs
<1>5. h \in S \cup {NULL}
  <2>1. row # NULL /\ row.vessel \in Opt(VesselId)  BY RowFields, NullIsNothing
  <2> QED  BY <2>1 DEF Home, Refers, Opt
<1>6. named' = [named EXCEPT ![b] = S]
  <2> DEFINE next == [c \in Batch |-> {v \in VesselId : Refers(batches'[c], v)}]
  <2>1. named' = next  BY DEF Refers
  <2>2. next = [named EXCEPT ![b] = S]  BY <1>3
  <2> HIDE DEF named, next, S
  <2> QED  BY <2>1, <2>2
<1>7. home' = [home EXCEPT ![b] = h]
  <2> DEFINE next == [c \in Batch |-> Home(batches'[c])]
  <2>1. home' = next  BY DEF Home
  <2>2. next = [home EXCEPT ![b] = h]  BY <1>3
  <2> HIDE DEF home, next, h
  <2> QED  BY <2>1, <2>2
<1>8. Told' = Told
  <2> DEFINE next == [q \in Req |-> IF pc'[q] = "replied" THEN Word(arg'[q]) ELSE NULL]
  <2>1. Told' = next  BY DEF Told, Word
  <2>2. ASSUME NEW q \in Req PROVE pc'[q] = pc[q] /\ Word(arg'[q]) = Word(arg[q])
    <3>1. /\ pc'[q] = pc[q] /\ arg'[q].op = arg[q].op /\ arg'[q].id = arg[q].id
          /\ arg'[q].status = arg[q].status /\ arg'[q].rows = arg[q].rows
      BY <1>1, WatchStep
    <3> QED  BY <3>1 DEF Word
  <2>3. next = Told  BY <2>2 DEF Told
  <2> HIDE DEF next
  <2> QED  BY <2>1, <2>3
<1>9. Contract!Live(b)
  <2> HIDE DEF S, h
  <2>1. S \in SUBSET (named[b] \cup Contract!OnShelf)  BY <1>4
  <2> QED  BY <1>2, <1>5, <1>6, <1>7, <1>8, <2>1 DEF Contract!Live, Told
<1> QED  BY <1>9 DEF Contract!Next

LEMMA InitContract == Init => Contract!Init
BY NullIsNothing DEF Init, Contract!Init, Home, Refers

LEMMA StepContract ==
  ASSUME IInv, [Next]_vars
  PROVE  [Contract!Next]_Contract!vars
<1>0. TypeOK  BY DEF IInv
<1>1. ASSUME NEW r \in Req, Start(r) \/ Serve(r) \/ Fail(r)
      PROVE  Contract!Next \/ UNCHANGED Contract!vars
  BY <1>1, StartTells, ServeTells
<1>2. ASSUME NEW r \in Req, Return(r) PROVE Contract!Next
  <2>1. {r} \in SUBSET Req  OBVIOUS
  <2>2. \A q \in Req : IF q \in {r} THEN pc'[q] = "idle"
                       ELSE pc'[q] = pc[q] /\ arg'[q] = arg[q]
    BY <1>0, <1>2 DEF Return, TypeOK
  <2>3. UNCHANGED <<vessels, batches>>  BY <1>2 DEF Return
  <2> QED  BY <2>1, <2>2, <2>3, Forgets
<1>3. CASE Crash
  <2>1. \A q \in Req : pc'[q] = "idle"  BY <1>3 DEF Crash
  <2>2. UNCHANGED <<vessels, batches>>  BY <1>3 DEF Crash
  <2> QED  BY <2>1, <2>2, Forgets
<1>4. ASSUME NEW b \in Batch, BatchStep(b) PROVE Contract!Next  BY <1>4, BatchLives
<1>5. CASE NextDay \/ UNCHANGED vars
  <2>1. UNCHANGED <<vessels, batches, pc, arg>>  BY <1>5 DEF NextDay, vars
  <2> QED  BY <2>1 DEF Contract!vars, Home, Refers, Word
<1> QED  BY <1>1, <1>2, <1>3, <1>4, <1>5, BatchSteps DEF Next

\* Listing, creating, changing and deleting vessels behave as indivisible
\* operations whose answers are true at one moment of the request, whatever the
\* batches and the other requests do (domain.Vessels and its handlers).
THEOREM Implements == Spec => ImplementsShelf
<1>1. IInv /\ [Next]_vars => [Contract!Next]_Contract!vars  BY StepContract
<1> QED  BY <1>1, InitContract, Invariance, PTL DEF Spec, ImplementsShelf, Contract!Spec
=============================================================================
