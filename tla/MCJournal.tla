----------------------------- MODULE MCJournal -----------------------------
(* Instances of the pure functions of a batch's journal for TLC.  Schedule: *)
(* three steps in any order, some with the same sort index, and a freeform  *)
(* event between them.  EventData: for every type the payloads with each    *)
(* field missing, null, of the wrong type, on and around its bounds.  Each  *)
(* behaviour is of one of the two; the other one stays empty.               *)
EXTENDS Schedule, EventData
LOCAL INSTANCE FiniteSetsExt

Steps == {<<a, b, c>> :
            a \in [sort : {1, 2}, anchor : {"start", "previous"}, offset : {2}],
            b \in [sort : {1, 2}, anchor : {"start", "previous"}, offset : {1, 3}],
            c \in [sort : {0, 3}, anchor : {"start", "previous"}, offset : {2}]}
Logging(sort, scheduled) ==
  [sort |-> sort, status |-> "planned", anchor |-> NULL, offset |-> NULL,
   scheduled |-> scheduled, completed |-> NULL]
Logs == {<<>>, <<Logging(2, 7)>>, <<Logging(1, NULL)>>}

Str(s) == [is |-> "string", val |-> s]
Num(n) == [is |-> "number", val |-> n]
Nil == [is |-> "null", val |-> NULL]
Missing == [is |-> "missing", val |-> NULL]

\* The values tried for a field with the given rule.
Tried(rule) ==
  CASE rule.kind = "string" -> {Missing, Nil, Str("text"), Num(100)}
    [] rule.kind = "day"    -> {Missing, Str("2027-01-01"), Str("text")}
    [] rule.kind = "int"    -> {Missing, Str("text")} \cup {Num(n) : n \in {0, 100, 150, 100 * Wide, 200 * Wide}}
    [] OTHER                -> {Missing, Nil, Str("text")} \cup
                               {Num(n) : n \in {-50, 0, 1, 89, 90, 120, 121}}

\* Every way to fill the fields in S, and the forms without the missing ones.
Forms(rules, S) ==
  LET More(k, forms) == {With(f, k, v) : f \in forms, v \in Tried(rules[k])}
  IN  FoldSet(More, {<<>>}, S)
Filled(form) == [k \in {k \in DOMAIN form : form[k].is # "missing"} |-> form[k]]

Payloads ==
  {[type |-> "noSuchType", data |-> [junk |-> Num(1)]]} \cup
  UNION {{[type |-> t, data |-> Filled(With(form, "junk", j))] :
            form \in Forms(eventRules[t], DOMAIN eventRules[t]), j \in {Missing, Num(1)}} :
         t \in DOMAIN eventRules}

Empty == saturates = FALSE /\ draft = NULL /\ again = FALSE /\ verdict = NULL

JournalInit ==
  \/ Init /\ Empty
  \/ events = <<>> /\ skips = FALSE /\ PayloadInit

JournalNext ==
  \/ draft = NULL /\ Next /\ UNCHANGED <<saturates, draft, again, verdict>>
  \/ draft # NULL /\ PayloadNext /\ UNCHANGED <<events, skips>>

JournalSpec == JournalInit /\ [][JournalNext]_<<events, skips, saturates, draft, again, verdict>>
=============================================================================
