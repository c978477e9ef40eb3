----------------------------- MODULE EventData -----------------------------
(***************************************************************************)
(* The payloads of events: ValidateEventData checks one against the rules  *)
(* of its type and returns a cleaned copy, ParseBottling reads a bottling  *)
(* off such a copy.  No handler calls them yet; here a client drafts a     *)
(* payload, and what was accepted is submitted once more, as an event that *)
(* is edited would be.                                                     *)
(*                                                                         *)
(* Numbers are counted in hundredths: a whole number is a multiple of 100. *)
(* Wide stands for 2^63, the first number an int64 cannot hold; the next   *)
(* double below it is far away, so no payload holds Wide - 1.              *)
(***************************************************************************)
EXTENDS Integers, Sequences, Optional

CONSTANTS
  Draft,        \* payloads a client may send, as [type, data]
  Dates,        \* the strings time.Parse takes for a date
  Wide          \* bound: what 2^63 is in the model

ASSUME WideAssumption == Wide \in Nat /\ Wide > 1

\* Values are tagged with their JSON type.
Value == [is : {"string"}, val : STRING] \cup [is : {"null", "other"}, val : {NULL}]
         \cup [is : {"number"}, val : Int \ {100 * (Wide - 1)}]
IsData(data) == data = [k \in DOMAIN data |-> data[k]] /\ \A k \in DOMAIN data : data[k] \in Value

ASSUME DraftAssumption == \A d \in Draft : d = [type |-> d.type, data |-> d.data] /\ IsData(d.data)

\* What is said of a payload that is not accepted.
Whys == {"unknown", "is required", "must be a string", "must be a date", "must be a number",
         "must be an integer", "must be positive", "must be at most", "panic"}

ASSUME WhyAssumption == NULL \notin Whys

VARIABLES
  saturates,    \* what the build makes of numbers too large for an int64
  draft,        \* the payload at hand
  again,        \* whether it was accepted before
  verdict       \* what became of it, NULL before

payloadVars == <<saturates, draft, again, verdict>>

-----------------------------------------------------------------------------
(* A definition named after another with a suffix is a regression the      *)
(* mutants put in its place.                                               *)

Rule(kind, required, min, max) ==
  [kind |-> kind, required |-> required, min |-> min, max |-> max]
May(kind) == Rule(kind, FALSE, NULL, NULL)
Must(kind, min) == Rule(kind, TRUE, min, NULL)
Within(min, max) == Rule("number", FALSE, min, max)

eventRules ==
  [measurement |-> [label |-> May("string")],
   addition |-> [label |-> May("string"), ingredientId |-> Must("string", NULL),
                 qty |-> Must("number", 0), unit |-> Must("string", NULL)],
   racking |-> [label |-> May("string")],
   stabilize |-> [label |-> May("string"), kmetaG |-> Within(0, NULL),
                  sorbateG |-> Within(0, NULL)],
   sweeten |-> [label |-> May("string"), targetFg |-> Within(90, 120),
                ingredientId |-> May("string"), qty |-> Within(0, NULL)],
   bottling |-> [label |-> May("string"), count |-> Must("int", 100),
                 sizeMl |-> Must("int", 100), drinkFrom |-> May("day"),
                 drinkTo |-> May("day"), location |-> May("string")],
   note |-> [label |-> May("string")]]

\* What sort.Strings makes of the keys.
KeyOrder == <<"count", "drinkFrom", "drinkTo", "ingredientId", "kmetaG", "label",
              "location", "qty", "sizeMl", "sorbateG", "targetFg", "unit">>
Rank(k) == CHOOSE i \in DOMAIN KeyOrder : KeyOrder[i] = k
FirstKey(S) == CHOOSE k \in S : \A j \in S : Rank(k) <= Rank(j)
LastKey(S) == CHOOSE k \in S : \A j \in S : Rank(j) <= Rank(k)

\* int64(n): beyond its range the result depends on the machine, which either
\* goes to the nearest end or to the lowest.
Int64(n) ==
  LET whole == IF n < 0 THEN -((-n) \div 100) ELSE n \div 100 IN
    IF -Wide <= whole /\ whole < Wide THEN whole
    ELSE IF saturates /\ n > 0 THEN Wide - 1 ELSE -Wide

\* float64(int64(n)) in hundredths; the largest int64 is rounded up.
BackToFloat(i) == 100 * (IF i = Wide - 1 THEN Wide ELSE i)

BelowMin(rule, n) == rule.min # NULL /\ (n < rule.min \/ (rule.min = 0 /\ n = 0))
AboveMax(rule, n) == rule.max # NULL /\ n > rule.max

\* What is wrong with a value that is there.
Problem(rule, v) ==
  CASE rule.kind = "string" -> IF v.is = "string" THEN NULL ELSE "must be a string"
    [] rule.kind = "day" ->
         IF v.is # "string" THEN "must be a string"
         ELSE IF v.val \notin Dates THEN "must be a date" ELSE NULL
    [] rule.kind \in {"number", "int"} ->
         IF v.is # "number" THEN "must be a number"
         ELSE IF rule.kind = "int" /\ v.val # BackToFloat(Int64(v.val)) THEN "must be an integer"
         ELSE IF BelowMin(rule, v.val) THEN "must be positive"
         ELSE IF AboveMax(rule, v.val) THEN "must be at most" ELSE NULL

Absent(data, k) == k \notin DOMAIN data \/ data[k].is = "null"
LackingNever(rule) == FALSE
Lacking(rule) == rule.required

With(f, k, v) == [i \in DOMAIN f \cup {k} |-> IF i = k THEN v ELSE f[i]]
Invalid(k, why) == [field |-> k, why |-> why]

Clean(out) == [why |-> NULL, out |-> out]

\* One turn of the loop; what it found wrong, it returns.
Checked(rule, data, k, acc) ==
  IF acc.why # NULL THEN acc
  ELSE IF Absent(data, k) THEN IF Lacking(rule) THEN Invalid(k, "is required") ELSE acc
  ELSE IF Problem(rule, data[k]) # NULL THEN Invalid(k, Problem(rule, data[k]))
  ELSE Clean(With(acc.out, k, data[k]))

\* What the loop has come to once it has passed the keys in S.
Passed(rules, data) ==
  LET after[S \in SUBSET DOMAIN rules] ==
        IF S = {} THEN Clean(<<>>)
        ELSE LET k == LastKey(S) IN Checked(rules[k], data, k, after[S \ {k}])
  IN  after

ValidateEventData(t, data) ==
  IF t \notin DOMAIN eventRules THEN Invalid("type", "unknown")
  ELSE Passed(eventRules[t], data)[DOMAIN eventRules[t]]

\* The assertions .(float64) of count and size panic on anything else; the
\* others leave their field empty.
ParseBottling(data) ==
  LET clean == ValidateEventData("bottling", data)
      IsNumber(k) == k \in DOMAIN clean.out /\ clean.out[k].is = "number"
      OrNone(k) == IF k \in DOMAIN clean.out THEN clean.out[k] ELSE NULL
  IN  IF clean.why # NULL THEN clean
      ELSE IF ~(IsNumber("count") /\ IsNumber("sizeMl")) THEN Invalid("count", "panic")
      ELSE [why |-> NULL,
            Count |-> Int64(clean.out["count"].val), SizeML |-> Int64(clean.out["sizeMl"].val),
            DrinkFrom |-> OrNone("drinkFrom"), DrinkTo |-> OrNone("drinkTo"),
            Location |-> OrNone("location")]

-----------------------------------------------------------------------------

PayloadInit ==
  /\ saturates \in BOOLEAN
  /\ draft \in Draft
  /\ again = FALSE
  /\ verdict = NULL

Decide(v) == verdict = NULL /\ verdict' = v /\ UNCHANGED <<saturates, draft, again>>
Validate == Decide([op |-> "validate", res |-> ValidateEventData(draft.type, draft.data)])
Parse == draft.type = "bottling" /\ Decide([op |-> "parse", res |-> ParseBottling(draft.data)])

Resubmit ==
  /\ verdict # NULL /\ verdict.op = "validate" /\ verdict.res.why = NULL
  /\ draft' = [draft EXCEPT !.data = verdict.res.out]
  /\ again' = TRUE
  /\ verdict' = NULL
  /\ UNCHANGED saturates

PayloadNext == Validate \/ Parse \/ (~again /\ Resubmit)

PayloadSpec == PayloadInit /\ [][PayloadNext]_payloadVars

-----------------------------------------------------------------------------
(* What must hold *)

\* Whether a field is as its rule wants it, said without the order of checks:
\* "a min of 0 means strictly positive", any other bound is inclusive.
FieldFits(rule, data, k) ==
  IF k \notin DOMAIN data \/ data[k].is = "null" THEN ~rule.required
  ELSE CASE rule.kind = "string" -> data[k].is = "string"
         [] rule.kind = "day"    -> data[k].is = "string" /\ data[k].val \in Dates
         [] OTHER ->
              /\ data[k].is = "number"
              /\ rule.kind = "int" =>
                   data[k].val % 100 = 0 /\ data[k].val <= 100 * Wide
              /\ rule.min # NULL => data[k].val >= rule.min
              /\ rule.min = 0 => data[k].val > 0
              /\ rule.max # NULL => data[k].val <= rule.max

\* A payload is accepted just when every field its type declares fits; then the
\* copy has the declared fields that were filled, unchanged, and no others, and
\* submitted again it is accepted as it is, however often an event is edited.
\* Otherwise the field reported is the first one in the order of the keys that
\* does not fit (ValidateEventData).  Whether a count of 2^63 is a whole number
\* depends on the machine.
VerdictAsDeclared ==
  verdict # NULL /\ verdict.op = "validate" =>
    IF draft.type \notin DOMAIN eventRules THEN verdict.res = Invalid("type", "unknown")
    ELSE
      LET rules == eventRules[draft.type]
          Bad == {k \in DOMAIN rules : ~FieldFits(rules[k], draft.data, k)}
          OnEdge == \E k \in DOMAIN rules \cap DOMAIN draft.data :
                      rules[k].kind = "int" /\ draft.data[k] = [is |-> "number", val |-> 100 * Wide]
      IN
      \/ OnEdge /\ ~saturates
      \/ /\ Bad = {} /\ verdict.res.why = NULL
         /\ DOMAIN verdict.res.out =
              {k \in DOMAIN rules \cap DOMAIN draft.data : draft.data[k].is # "null"}
         /\ \A k \in DOMAIN verdict.res.out : verdict.res.out[k] = draft.data[k]
         /\ again => verdict.res.out = draft.data
      \/ /\ Bad # {} /\ ~again /\ verdict.res.why # NULL /\ verdict.res.field \in Bad
         /\ \A k \in Bad : Rank(verdict.res.field) <= Rank(k)

\* Reading a bottling off its payload never panics, and count and size are the
\* numbers sent, of at least one, except for 2^63, which no int holds.
BottlingReads ==
  verdict # NULL /\ verdict.op = "parse" =>
    /\ verdict.res.why # "panic"
    /\ verdict.res.why = NULL =>
         /\ verdict.res.Count >= 1 /\ verdict.res.SizeML >= 1
         /\ draft.data["count"].val \in {100 * verdict.res.Count, 100 * Wide}
         /\ draft.data["sizeMl"].val \in {100 * verdict.res.SizeML, 100 * Wide}
=============================================================================
