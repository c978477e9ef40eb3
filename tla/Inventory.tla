----------------------------- MODULE Inventory -----------------------------
(***************************************************************************)
(* Ingredients and their stock: domain.Inventory and the handlers over it, *)
(* as concurrent transactions on the rows of inventory_items.              *)
(*                                                                         *)
(* A step is one SQL statement or one commit, as in module Accounts.  The  *)
(* caller of DeductForAddition is not written yet; it is taken to run that *)
(* one deduction in a transaction of its own.                              *)
(***************************************************************************)
EXTENDS Amounts

CONSTANTS
  Req,          \* slots for requests the server is handling
  Ingredient,   \* ingredient ids
  Delta,        \* corrections a caller may send
  Qty,          \* amounts an addition may ask for, always positive
  NULL,         \* no row, no value
  MaxLevel,     \* bound: no correction upwards is begun from this level on
  Faults        \* whether statements may fail and the process may crash

ASSUME AmountAssumption ==
  /\ Delta \subseteq Int
  /\ Qty \subseteq Nat \ {0}
  /\ MaxLevel \in Nat
ASSUME NullAssumption == NULL \notin Ingredient \cup Stored
ASSUME FaultsAssumption == Faults \in BOOLEAN

VARIABLES
  listed,       \* ingredients rows
  items,        \* items[i]: quantity of the committed inventory_items row
  pc,           \* pc[r]: the statement request r is about to run
  arg           \* arg[r]: what request r asked, read and computed

vars == <<listed, items, pc, arg>>

Steps == {"create", "ensure", "set", "commit"}
Op == {"none", "create", "adjust", "deduct"}
Item == Ingredient \cup {NULL}
Status == {0, 200, 201, 500}
Arg == [op : Op, item : Item, amount : Int,
        have : Nat,             \* the quantity EnsureInventoryItem returned
        next : Nat,             \* the quantity to write
        out : Int, short : Int, \* what a deduction takes and what it lacks
        status : Status]

\* In particular a level is never negative and always a number of thousandths
\* that a real can hold.
TypeOK ==
  /\ listed \in SUBSET Ingredient
  /\ items \in [Ingredient -> Stored \cup {NULL}]
  /\ pc \in [Req -> Steps \cup {"idle", "replied"}]
  /\ arg \in [Req -> Arg]

Asked(op, i, n) ==
  [op |-> op, item |-> i, amount |-> n,
   have |-> 0, next |-> 0, out |-> 0, short |-> 0, status |-> 0]
NoArg == Asked("none", NULL, 0)

Init ==
  /\ listed = {}
  /\ items = [i \in Ingredient |-> NULL]
  /\ pc = [r \in Req |-> "idle"]
  /\ arg = [r \in Req |-> NoArg]

-----------------------------------------------------------------------------
(* A definition named after another with a suffix is a regression the      *)
(* mutants put in its place.                                               *)

\* coalesce(quantity, 0): an ingredient without a row has no stock.
Level(i) == IF items[i] = NULL THEN 0 ELSE items[i]

\* The insert or its no-op update on conflict keeps the row, or the place of
\* the row in the unique index, locked until the transaction ends.
RowLocked(r) ==
  \E q \in Req \ {r} : pc[q] \in {"set", "commit"} /\ arg[q].item = arg[r].item
RowFreeAlways(r) == TRUE
RowFree(r) == ~RowLocked(r)

\* AdjustStock
AdjustedUnfloored(have, delta) == round3(have + delta)
Adjusted(have, delta) == AtLeast0(round3(have + delta))

\* DeductForAddition
Deducted(have, qty) == round3(Lesser(have, qty))
ShortSwapped(qty, out) == round3(out - qty)
Short(qty, out) == round3(qty - out)

\* What the Go code between the two statements computes.
Computed(r) ==
  LET a == arg[r]
      have == Level(a.item)
      out == Deducted(have, a.amount)
  IN IF a.op = "adjust"
     THEN [a EXCEPT !.have = have, !.next = Adjusted(have, a.amount)]
     ELSE [a EXCEPT !.have = have, !.out = out, !.short = Short(a.amount, out),
                    !.next = IF out > 0 THEN round3(have - out) ELSE have]

-----------------------------------------------------------------------------

Goto(r, p) == pc' = [pc EXCEPT ![r] = p] /\ UNCHANGED arg

Reply(r, s) ==
  /\ pc' = [pc EXCEPT ![r] = "replied"]
  /\ arg' = [arg EXCEPT ![r].status = s]

Begin(r, p, a) ==
  /\ pc[r] = "idle"
  /\ pc' = [pc EXCEPT ![r] = p]
  /\ arg' = [arg EXCEPT ![r] = a]
  /\ UNCHANGED <<listed, items>>

StartCreate(r, i) ==
  /\ i \notin listed
  /\ \A q \in Req : arg[q].op = "create" => arg[q].item # i
  /\ Begin(r, "create", Asked("create", i, 0))

StartAdjust(r, i, d) ==
  /\ d > 0 => Level(i) < MaxLevel
  /\ Begin(r, "ensure", Asked("adjust", i, d))

StartDeduct(r, i, q) == Begin(r, "ensure", Asked("deduct", i, q))

Created(r, s) ==
  /\ pc[r] = "create"
  /\ listed' = listed \cup {arg[r].item}
  /\ Reply(r, s)
  /\ UNCHANGED items

CreateIngredient(r) == Created(r, 201)

\* An id that is not in ingredients violates the foreign key: 500.
EnsureInventoryItem(r) ==
  /\ pc[r] = "ensure"
  /\ RowFree(r)
  /\ \/ /\ arg[r].item \notin listed
        /\ Reply(r, 500)
     \/ /\ arg[r].item \in listed
        /\ arg' = [arg EXCEPT ![r] = Computed(r)]
        /\ pc' = [pc EXCEPT ![r] =
                    IF arg[r].op = "deduct" /\ arg'[r].out <= 0 THEN "commit" ELSE "set"]
  /\ UNCHANGED <<listed, items>>

SetInventoryQuantity(r) ==
  /\ pc[r] = "set"
  /\ Goto(r, "commit")
  /\ UNCHANGED <<listed, items>>

\* Without a write the commit still leaves the row the insert made.
Committed(r, s) ==
  /\ pc[r] = "commit"
  /\ items' = [items EXCEPT ![arg[r].item] = float32(arg[r].next)]
  /\ Reply(r, s)
  /\ UNCHANGED listed

Commit(r) == Committed(r, 200)

-----------------------------------------------------------------------------
(* The environment *)

\* Any statement or commit fails: 500, and the transaction is rolled back.
Fail(r) ==
  /\ Faults
  /\ pc[r] \in Steps
  /\ Reply(r, 500)
  /\ UNCHANGED <<listed, items>>

\* The database has done it and its answer is lost: 500, and the change stands.
Unconfirmed(r) == Faults /\ (Created(r, 500) \/ Committed(r, 500))

Crash ==
  /\ Faults
  /\ \E r \in Req : pc[r] # "idle"
  /\ pc' = [r \in Req |-> "idle"]
  /\ arg' = [r \in Req |-> NoArg]
  /\ UNCHANGED <<listed, items>>

Return(r) ==
  /\ pc[r] = "replied"
  /\ pc' = [pc EXCEPT ![r] = "idle"]
  /\ arg' = [arg EXCEPT ![r] = NoArg]
  /\ UNCHANGED <<listed, items>>

Start(r) ==
  \/ \E i \in Ingredient : StartCreate(r, i)
  \/ \E i \in Ingredient, d \in Delta : StartAdjust(r, i, d)
  \/ \E i \in Ingredient, q \in Qty : StartDeduct(r, i, q)

Serve(r) ==
  CreateIngredient(r) \/ EnsureInventoryItem(r) \/ SetInventoryQuantity(r) \/ Commit(r)

Next ==
  \/ \E r \in Req : Start(r) \/ Serve(r) \/ Fail(r) \/ Unconfirmed(r) \/ Return(r)
  \/ Crash

Spec == Init /\ [][Next]_vars

-----------------------------------------------------------------------------
(* What must hold *)

\* What a deduction takes and what it reports missing make up what was asked,
\* to within a rounding of the last digit, whatever moved the stock between the
\* request and its turn at the row (DeductForAddition).
DeductionAddsUp ==
  \A r \in Req : pc[r] = "replied" /\ arg[r].op = "deduct" /\ arg[r].status = 200 =>
    /\ arg[r].out >= 0
    /\ arg[r].out + arg[r].short \in arg[r].amount - 1 .. arg[r].amount + 1

\* inventory.go:71-72: DeductForAddition reports the shortfall; of an amount
\* that was in stock nothing is short, and never less than nothing.
ShortfallReported ==
  \A r \in Req : pc[r] = "replied" /\ arg[r].op = "deduct" /\ arg[r].status = 200 =>
    arg[r].short >= 0

-----------------------------------------------------------------------------
(* The inductive invariant: a transaction that has its row keeps it alone, *)
(* and what it read there is still the committed level.                    *)

InRow(r) == pc[r] \in {"set", "commit"}

RowExclusive ==
  \A q, r \in Req : InRow(q) /\ InRow(r) /\ arg[q].item = arg[r].item => q = r

ReadStillHolds ==
  \A r \in Req : InRow(r) =>
    /\ arg[r].item \in Ingredient
    /\ arg[r].op \in {"adjust", "deduct"}
    /\ arg[r].have = Level(arg[r].item)

ArgsFit ==
  \A r \in Req :
    /\ pc[r] # "idle" => arg[r].item # NULL
    /\ pc[r] = "create" => arg[r].op = "create"
    /\ pc[r] = "ensure" => arg[r].op \in {"adjust", "deduct"}
    /\ arg[r].op = "adjust" => arg[r].amount \in Delta
    /\ arg[r].op = "deduct" => arg[r].amount \in Qty
    /\ InRow(r) /\ arg[r].op = "adjust" =>
         arg[r].next = Adjusted(arg[r].have, arg[r].amount)
    /\ (InRow(r) \/ arg[r].status = 200) /\ arg[r].op = "deduct" =>
         /\ arg[r].out = Deducted(arg[r].have, arg[r].amount)
         /\ arg[r].short = Short(arg[r].amount, arg[r].out)
    /\ InRow(r) /\ arg[r].op = "deduct" =>
         arg[r].next = IF arg[r].out > 0 THEN round3(arg[r].have - arg[r].out)
                       ELSE arg[r].have

IInv == TypeOK /\ RowExclusive /\ ReadStillHolds /\ ArgsFit /\ DeductionAddsUp

-----------------------------------------------------------------------------
(* Every transaction is one atomic step of Stock *)

AnswerOf(r) ==
  IF pc[r] = "replied" /\ arg[r].status = 200
  THEN [op |-> arg[r].op, item |-> arg[r].item, amount |-> arg[r].amount,
        result |-> IF arg[r].op = "adjust" THEN arg[r].next ELSE arg[r].out]
  ELSE NULL

Contract == INSTANCE Stock WITH
  level <- [i \in Ingredient |-> Level(i)],
  answer <- [r \in Req |-> AnswerOf(r)]

\* Corrections and deductions behave as if each were one indivisible step: no
\* update is lost, and every answer belongs to the change that was made.
ImplementsStock == Contract!Spec
=============================================================================
