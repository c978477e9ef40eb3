------------------------------ MODULE Schedule ------------------------------
(***************************************************************************)
(* The schedule of a batch: StampSchedule dates the steps of a recipe, and *)
(* ShiftAfterCompletion moves what is still to come when a step is done    *)
(* early, late or out of order.                                            *)
(*                                                                         *)
(* A day is an integer; Day.Add is exact.  An event is named by its place  *)
(* in the sequence of events.  No handler of the repository calls the two  *)
(* functions yet: that the events of a batch are the stamped ones, that a  *)
(* completed event is marked done and that every returned change is        *)
(* written back is taken from schedule_test.go.                            *)
(***************************************************************************)
EXTENDS Integers, Sequences, FiniteSets, Optional

CONSTANTS
  Recipe,       \* the step lists a batch may be started from
  Logged,       \* the sequences of freeform events it may have besides
  Day           \* days a step may be done on; a batch starts on day 0

ASSUME DayAssumption == Day \subseteq Int
ASSUME AnchorAssumption == NULL \notin {"start", "previous"}

Step == [sort : Int, anchor : {"start", "previous"}, offset : Int]
Event == [sort : Int, status : {"planned", "done", "skipped"},
          anchor : Opt({"start", "previous"}), offset : Opt(Int),
          scheduled : Opt(Int), completed : Opt(Int)]
Freeform == {e \in Event : e.anchor = NULL}

ASSUME RecipeAssumption == Recipe \subseteq Seq(Step)
ASSUME LoggedAssumption == Logged \subseteq Seq(Freeform)

VARIABLES
  events,       \* the events of the batch, a sequence of Event
  skips         \* history: whether a step was ever skipped

vars == <<events, skips>>

-----------------------------------------------------------------------------
(* The two algorithms.  A definition named after another with a suffix is  *)
(* a regression the mutants put in its place.                              *)

Before(s, i, j) == s[i].sort < s[j].sort \/ (s[i].sort = s[j].sort /\ i < j)

\* sort.SliceStable of the places in S: those that are passed once i is, and the
\* one that comes last.
UpTo(s, S, i) == {j \in S : j = i \/ Before(s, j, i)}
Last(s, S) == CHOOSE i \in S : \A j \in S \ {i} : Before(s, j, i)

\* The variable chain once the loop has passed the steps in S.
StampChain(steps, start) ==
  LET chain[S \in SUBSET DOMAIN steps] ==
        IF S = {} THEN start
        ELSE LET i == Last(steps, S) IN
             steps[i].offset + IF steps[i].anchor = "start" THEN start ELSE chain[S \ {i}]
  IN  chain

StampSchedule(steps, start) ==
  LET place(i) == Cardinality(UpTo(steps, DOMAIN steps, i))
      stamp(i) ==
        [sort |-> steps[i].sort, status |-> "planned", anchor |-> steps[i].anchor,
         offset |-> steps[i].offset,
         scheduled |-> StampChain(steps, start)[UpTo(steps, DOMAIN steps, i)],
         completed |-> NULL]
  IN  [n \in DOMAIN steps |-> stamp(CHOOSE i \in DOMAIN steps : place(i) = n)]

FromSameIndex(evs, k) == {i \in DOMAIN evs : evs[i].sort >= k}
Downstream(evs, k) == {i \in DOMAIN evs : evs[i].sort > k}

OrElse(d, chain) == IF d = NULL THEN chain ELSE d
Moves(e) == e.anchor = "previous" /\ e.status = "planned"

\* The date later events count from, once e is passed.
ChainByPlan(e, chain) ==
  CASE e.anchor = NULL \/ e.status = "skipped" -> chain
    [] Moves(e)                                -> chain + OrElse(e.offset, 0)
    [] OTHER                                   -> OrElse(e.scheduled, chain)
ChainAnySkipped(e, chain) ==
  CASE e.anchor = NULL -> chain
    [] Moves(e) -> chain + OrElse(e.offset, 0)
    [] e.anchor # NULL /\ e.status = "done" ->
         OrElse(e.completed, OrElse(e.scheduled, chain))
    [] OTHER -> OrElse(e.scheduled, chain)
ChainAfter(e, chain) ==
  CASE e.anchor = NULL \/ e.status = "skipped" -> chain
    [] Moves(e) -> chain + OrElse(e.offset, 0)
    [] e.anchor # NULL /\ e.status = "done" ->
         OrElse(e.completed, OrElse(e.scheduled, chain))
    [] OTHER -> OrElse(e.scheduled, chain)

\* The variable chain once the loop has passed the events in S.
ShiftChain(evs, D, from) ==
  LET chain[S \in SUBSET D] ==
        IF S = {} THEN from
        ELSE LET i == Last(evs, S) IN ChainAfter(evs[i], chain[S \ {i}])
  IN  chain

\* A set of [id, date], the new dates of events that move.
ShiftAfterCompletion(evs, k, completedDate) ==
  LET D == Downstream(evs, k)
      next(i) == ShiftChain(evs, D, completedDate)[UpTo(evs, D, i)]
  IN  {[id |-> i, date |-> next(i)] : i \in {j \in D : Moves(evs[j]) /\ evs[j].scheduled # next(j)}}

-----------------------------------------------------------------------------

\* A batch is started on day 0; some of its events may have lost their date.
Init ==
  /\ \E steps \in Recipe, logged \in Logged :
       LET stamped == StampSchedule(steps, 0) IN
       \E undated \in {S \in SUBSET DOMAIN stamped : Cardinality(S) <= 1} :
         events = [i \in DOMAIN stamped |->
                     IF i \in undated THEN [stamped[i] EXCEPT !.scheduled = NULL]
                     ELSE stamped[i]] \o logged
  /\ skips = FALSE

\* Step i is done on day d, and the changes are written back.
Complete(i, d) ==
  /\ events[i].status = "planned" /\ events[i].anchor # NULL
  /\ LET changes == ShiftAfterCompletion(events, events[i].sort, d) IN
     events' = [j \in DOMAIN events |->
       IF j = i THEN [events[i] EXCEPT !.status = "done", !.completed = d]
       ELSE [events[j] EXCEPT !.scheduled =
               IF \E c \in changes : c.id = j
               THEN (CHOOSE c \in changes : c.id = j).date ELSE @]]
  /\ UNCHANGED skips

Skip(i) ==
  /\ events[i].status = "planned"
  /\ events' = [events EXCEPT ![i].status = "skipped"]
  /\ skips' = TRUE

Next == \E i \in DOMAIN events : Skip(i) \/ \E d \in Day : Complete(i, d)

Spec == Init /\ [][Next]_vars

-----------------------------------------------------------------------------
(* What must hold *)

Anchored == {i \in DOMAIN events : events[i].anchor # NULL}
SortsApart == \A i, j \in Anchored : i # j => events[i].sort # events[j].sort

\* When an event took place, or is to.
Date(e) == IF e.status = "done" THEN e.completed ELSE e.scheduled

\* i is the step right before j.
Precedes(i, j) ==
  /\ Before(events, i, j)
  /\ ~\E h \in Anchored : Before(events, i, h) /\ Before(events, h, j)

\* Whatever was done in whatever order, early or late: a step that counts from
\* the one before it is still planned for as many days after that one as the
\* recipe says, counted from the day that one really took place.  So moving the
\* rest after each completion comes to the same as stamping the schedule anew
\* with the days known by then.  Steps sharing a sort index are excepted, though
\* they too stand in the order of their indexes (StampSchedule,
\* ShiftAfterCompletion).
AsIfStampedAnew ==
  /\ \A i, j \in Anchored : i < j => events[i].sort <= events[j].sort
  /\ SortsApart =>
    \A i, j \in Anchored :
      /\ Precedes(i, j) /\ Moves(events[j]) /\ events[i].status # "skipped"
      /\ Date(events[i]) # NULL /\ events[j].scheduled # NULL
      => events[j].scheduled = Date(events[i]) + events[j].offset

\* A step that is done on its day moves nothing that is dated, unless something
\* was skipped or shares a sort index: the two algorithms agree.
OnTimeMovesNothing ==
  [][\A i \in Anchored :
       /\ SortsApart /\ ~skips
       /\ \A j \in Anchored : events[j].scheduled # NULL
       /\ Complete(i, events[i].scheduled)
       => \A j \in DOMAIN events : events'[j].scheduled = events[j].scheduled]_vars

\* The steps after k that the chain runs through: what was skipped or is
\* freeform does not count, nor does what has no date and gets none.
Links(k) ==
  {i \in Downstream(events, k) \cap Anchored :
     events[i].status # "skipped" /\ (Moves(events[i]) \/ Date(events[i]) # NULL)}

\* Every later planned step that counts from its predecessor is dated from the
\* last link before it, or from the day of completion where there is none, and
\* nothing but step i changes.
Reflowed(i, d) ==
  LET L == Links(events[i].sort) IN
  \A j \in DOMAIN events \ {i} :
    IF j \in L /\ Moves(events[j])
    THEN LET before == {h \in L : Before(events, h, j)} IN
         \/ before = {} /\ events'[j].scheduled = d + events[j].offset
         \/ \E h \in before :
              /\ \A g \in before \ {h} : Before(events, g, h)
              /\ events'[j].scheduled = Date(events'[h]) + events[j].offset
    ELSE events'[j] = events[j]

\* ShiftAfterCompletion's promise, whenever a step is done: the rest reflows from
\* what really happened.  Skipped, freeform and undated steps and shared sort
\* indexes included.
ReflowedFromActual ==
  [][\A i \in Anchored, d \in Day : Complete(i, d) => Reflowed(i, d)]_vars

-----------------------------------------------------------------------------
(* The inductive invariant *)

TypeOK == events \in Seq(Event) /\ skips \in BOOLEAN

\* The steps of a recipe have their offsets, and what was done its day.
StepsFit ==
  \A i \in Anchored :
    /\ events[i].offset # NULL
    /\ events[i].status = "done" => events[i].completed # NULL
    /\ events[i].status = "skipped" => skips

IInv == TypeOK /\ StepsFit /\ AsIfStampedAnew
=============================================================================
