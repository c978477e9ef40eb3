-------------------------- MODULE InventoryProofs --------------------------
(***************************************************************************)
(* The invariant of Inventory and its refinement of Stock, for any number  *)
(* of requests and ingredients, any corrections and any positive amounts.  *)
(* An action of request r moves no other request and writes no row but the *)
(* one r has locked, so it owes only its own part of the invariant         *)
(* (StepKeeps); a commit is the atomic step of Stock, and everything else  *)
(* stutters or forgets an answer.                                          *)
(***************************************************************************)
EXTENDS Inventory, TLAPS

(***************************************************************************)
(* What rounding and storing do to an amount, for every amount.            *)
(***************************************************************************)

\* round3 gives whole thousandths and is off by half of one at most.
LEMMA RoundProps ==
  ASSUME NEW n \in Int
  PROVE  /\ round3(n) \in Int
         /\ round3(n) % 2 = 0
         /\ n - 1 <= round3(n) /\ round3(n) <= n + 1
         /\ n % 2 = 0 => round3(n) = n
         /\ n >= 0 => round3(n) >= n
         /\ n < 0 => round3(n) <= n
BY DEF round3

\* Storing a level keeps it a level, is the identity up to Exact and on every
\* level that was stored before.
LEMMA StoreProps ==
  ASSUME NEW n \in Nat, n % 2 = 0
  PROVE  /\ float32(n) \in Stored
         /\ n \in Stored => float32(n) = n
         /\ n <= Exact => float32(n) = n
<1>1. float32(n) \in Nat /\ float32(n) % 2 = 0
  BY ExactAssumption DEF float32
<1>2. float32(float32(n)) = float32(n)
  BY ExactAssumption DEF float32
<1> QED BY <1>1, <1>2, ExactAssumption DEF Stored, float32

LEMMA StoredProps ==
  ASSUME NEW n \in Stored
  PROVE  n \in Nat /\ n % 2 = 0 /\ float32(n) = n
BY DEF Stored

LEMMA ZeroStored == 0 \in Stored
BY ExactAssumption DEF Stored, float32

\* Rounding the lesser of a level and an amount is taking the lesser of the
\* level and the rounded amount: a deduction never exceeds the level.
LEMMA RoundLesser ==
  ASSUME NEW have \in Nat, have % 2 = 0, NEW qty \in Int
  PROVE  /\ round3(Lesser(have, qty)) = Lesser(have, round3(qty))
         /\ Lesser(have, round3(qty)) <= have
BY DEF round3, Lesser

-----------------------------------------------------------------------------

Pc == Steps \cup {"idle", "replied"}

\* What the invariant says of request r.
Fits(r) ==
  /\ pc[r] # "idle" => arg[r].item # NULL
  /\ pc[r] = "create" => arg[r].op = "create"
  /\ pc[r] = "ensure" => arg[r].op \in {"adjust", "deduct"}
  /\ arg[r].op = "adjust" => arg[r].amount \in Delta
  /\ arg[r].op = "deduct" => arg[r].amount \in Qty
  /\ InRow(r) /\ arg[r].op = "adjust" =>
       arg[r].next = Adjusted(arg[r].have, arg[r].amount)
  /\ (InRow(r) \/ arg[r].status = 200) /\ arg[r].op = "deduct" =>
       /\ arg[r].out = Deducted(arg[r].have, arg[r].amount)
       /\ arg[r].short = Short(arg[r].amount, arg[r].out)
  /\ InRow(r) /\ arg[r].op = "deduct" =>
       arg[r].next = IF arg[r].out > 0 THEN round3(arg[r].have - arg[r].out)
                     ELSE arg[r].have

Holds(r) ==
  InRow(r) =>
    /\ arg[r].item \in Ingredient
    /\ arg[r].op \in {"adjust", "deduct"}
    /\ arg[r].have = Level(arg[r].item)

Sums(a) ==
  a.op = "deduct" /\ a.status = 200 =>
    /\ a.out >= 0
    /\ a.out + a.short \in a.amount - 1 .. a.amount + 1

AddsUp(r) == pc[r] = "replied" => Sums(arg[r])

LEMMA Split ==
  IInv <=> TypeOK /\ RowExclusive /\ \A r \in Req : Fits(r) /\ Holds(r) /\ AddsUp(r)
BY DEF IInv, ReadStillHolds, ArgsFit, DeductionAddsUp, Fits, Holds, AddsUp, Sums

LEMMA LevelStored == ASSUME TypeOK, NEW i \in Ingredient PROVE Level(i) \in Stored
BY ZeroStored DEF TypeOK, Level

-----------------------------------------------------------------------------
(* Arithmetic of the two operations *)

LEMMA AdjustedType ==
  ASSUME NEW have \in Stored, NEW d \in Int
  PROVE  Adjusted(have, d) \in Nat /\ Adjusted(have, d) % 2 = 0
<1>1. have \in Nat BY StoredProps
<1>2. have + d \in Int BY <1>1
<1>3. round3(have + d) \in Int /\ round3(have + d) % 2 = 0 BY <1>2, RoundProps
<1> QED BY <1>3 DEF Adjusted, AtLeast0

LEMMA DeductedType ==
  ASSUME NEW have \in Stored, NEW q \in Qty
  PROVE  /\ Deducted(have, q) \in Nat /\ Deducted(have, q) % 2 = 0
         /\ Deducted(have, q) = Lesser(have, round3(q))
         /\ Deducted(have, q) <= have
         /\ round3(have - Deducted(have, q)) = have - Deducted(have, q)
         /\ have - Deducted(have, q) \in Nat
         /\ (have - Deducted(have, q)) % 2 = 0
<1>1. have \in Nat /\ have % 2 = 0 /\ q \in Nat /\ q \in Int
  BY StoredProps, AmountAssumption
<1>2. Deducted(have, q) = Lesser(have, round3(q)) /\ Deducted(have, q) <= have
  BY <1>1, RoundLesser DEF Deducted
<1>3. round3(q) \in Int /\ round3(q) % 2 = 0 /\ round3(q) >= q
  BY <1>1, RoundProps
<1>4. Deducted(have, q) \in Nat /\ Deducted(have, q) % 2 = 0
  BY <1>1, <1>2, <1>3 DEF Lesser
<1>5. have - Deducted(have, q) \in Nat /\ (have - Deducted(have, q)) % 2 = 0
  BY <1>1, <1>2, <1>4
<1>6. round3(have - Deducted(have, q)) = have - Deducted(have, q)
  BY <1>5, RoundProps
<1> QED BY <1>2, <1>4, <1>5, <1>6

LEMMA ShortType ==
  ASSUME NEW q \in Int, NEW out \in Int
  PROVE  Short(q, out) \in Int /\ out + Short(q, out) \in q - 1 .. q + 1
<1>1. q - out \in Int OBVIOUS
<1>2. /\ round3(q - out) \in Int
      /\ (q - out) - 1 <= round3(q - out) /\ round3(q - out) <= (q - out) + 1
  BY <1>1, RoundProps
<1> QED BY <1>2 DEF Short

-----------------------------------------------------------------------------
(* One step keeps the invariant *)

Moves(r) ==
  /\ pc' \in [Req -> Pc] /\ arg' \in [Req -> Arg]
  /\ \A q \in Req : q # r => pc'[q] = pc[q] /\ arg'[q] = arg[q]

\* The rows stay, or r writes the one it has locked.
Writes(r) ==
  \/ items' = items
  \/ /\ InRow(r)
     /\ \A i \in Ingredient : i # arg[r].item => items'[i] = items[i]

\* r enters a row only when it is free, and then keeps to it.
Enters(r) ==
  InRow(r)' => arg'[r].item = arg[r].item /\ (InRow(r) \/ RowFree(r))

LEMMA StepKeeps ==
  ASSUME IInv, NEW r \in Req, Moves(r), Writes(r), Enters(r), TypeOK',
         Fits(r)', Holds(r)', AddsUp(r)'
  PROVE  IInv'
<1>1. TypeOK /\ RowExclusive /\ \A q \in Req : Fits(q) /\ Holds(q) /\ AddsUp(q)
  BY Split
<1>2. RowExclusive'
  <2> SUFFICES ASSUME NEW p \in Req, NEW q \in Req, InRow(p)', InRow(q)',
                      arg'[p].item = arg'[q].item
               PROVE  p = q
    BY DEF RowExclusive
  <2>1. \A s \in Req : InRow(s)' /\ s # r => InRow(s) /\ arg'[s] = arg[s]
    BY DEF Moves, InRow
  <2>2. \A s \in Req : InRow(r)' /\ InRow(s)' /\ s # r => arg'[s].item # arg'[r].item
    <3> SUFFICES ASSUME NEW s \in Req, InRow(r)', InRow(s)', s # r
                 PROVE  arg'[s].item # arg'[r].item
      OBVIOUS
    <3>1. InRow(s) /\ arg'[s] = arg[s] BY <2>1
    <3>2. CASE InRow(r) BY <1>1, <3>1, <3>2 DEF RowExclusive, Enters
    <3>3. CASE RowFree(r) BY <3>1, <3>3 DEF RowFree, RowLocked, Enters, InRow
    <3> QED BY <3>2, <3>3 DEF Enters
  <2> QED BY <1>1, <2>1, <2>2 DEF RowExclusive
<1>3. ASSUME NEW q \in Req, q # r PROVE Fits(q)' /\ Holds(q)' /\ AddsUp(q)'
  <2>1. pc'[q] = pc[q] /\ arg'[q] = arg[q] BY <1>3 DEF Moves
  <2>2. InRow(q)' <=> InRow(q) BY <2>1 DEF InRow
  <2>3. Fits(q)' BY <1>1, <2>1, <2>2 DEF Fits
  <2>4. AddsUp(q)' BY <1>1, <2>1 DEF AddsUp
  <2>5. InRow(q) => Level(arg[q].item)' = Level(arg[q].item)
    <3>1. InRow(q) => arg[q].item \in Ingredient BY <1>1 DEF Holds
    <3>2. InRow(q) => items'[arg[q].item] = items[arg[q].item]
      BY <1>1, <1>3, <3>1 DEF Writes, RowExclusive
    <3> QED BY <2>1, <3>2 DEF Level
  <2>6. Holds(q)' BY <1>1, <2>1, <2>2, <2>5 DEF Holds
  <2> QED BY <2>3, <2>4, <2>6
<1>4. \A q \in Req : Fits(q)' /\ Holds(q)' /\ AddsUp(q)'
  BY <1>3
<1> QED BY <1>2, <1>4, Split DEF IInv, ReadStillHolds, ArgsFit, DeductionAddsUp, Fits, Holds, AddsUp, Sums

-----------------------------------------------------------------------------
(* The actions *)

LEMMA AskedType ==
  ASSUME NEW op \in Op, NEW i \in Item, NEW n \in Int
  PROVE  Asked(op, i, n) \in Arg
BY DEF Asked, Arg, Status

LEMMA BeginKeeps ==
  ASSUME IInv, NEW r \in Req, NEW p \in {"create", "ensure"}, NEW op \in Op,
         NEW i \in Ingredient, NEW n \in Int, Begin(r, p, Asked(op, i, n)),
         p = "create" => op = "create",
         p = "ensure" => op \in {"adjust", "deduct"},
         op = "adjust" => n \in Delta, op = "deduct" => n \in Qty
  PROVE  IInv'
<1>1. TypeOK BY DEF IInv
<1>2. Asked(op, i, n) \in Arg BY AskedType DEF Item
<1>3. pc'[r] = p /\ arg'[r] = Asked(op, i, n) /\ Moves(r)
  BY <1>1, <1>2 DEF Begin, TypeOK, Moves, Pc, Steps
<1>4. TypeOK' BY <1>1, <1>3 DEF TypeOK, Begin, Moves, Pc
<1>5. ~InRow(r)' BY <1>3 DEF InRow
<1>6. /\ arg'[r].op = op /\ arg'[r].item = i /\ arg'[r].amount = n
      /\ arg'[r].status = 0 /\ i # NULL
  BY <1>3, NullAssumption DEF Asked
<1>7. Fits(r)' BY <1>3, <1>5, <1>6 DEF Fits
<1>8. Holds(r)' /\ AddsUp(r)' BY <1>3, <1>5 DEF Holds, AddsUp
<1>9. Writes(r) /\ Enters(r) BY <1>5 DEF Writes, Enters, Begin
<1> QED BY <1>3, <1>4, <1>7, <1>8, <1>9, StepKeeps

LEMMA StartKeeps ==
  ASSUME IInv, NEW r \in Req, Start(r)
  PROVE  IInv'
<1> USE AmountAssumption DEF Op
<1>1. ASSUME NEW i \in Ingredient, StartCreate(r, i) PROVE IInv'
  <2>1. Begin(r, "create", Asked("create", i, 0)) BY <1>1 DEF StartCreate
  <2> QED BY <2>1, BeginKeeps
<1>2. ASSUME NEW i \in Ingredient, NEW d \in Delta, StartAdjust(r, i, d) PROVE IInv'
  <2>1. Begin(r, "ensure", Asked("adjust", i, d)) /\ d \in Int BY <1>2 DEF StartAdjust
  <2> QED BY <2>1, BeginKeeps
<1>3. ASSUME NEW i \in Ingredient, NEW q \in Qty, StartDeduct(r, i, q) PROVE IInv'
  <2>1. Begin(r, "ensure", Asked("deduct", i, q)) /\ q \in Int BY <1>3 DEF StartDeduct
  <2> QED BY <2>1, BeginKeeps
<1> QED BY <1>1, <1>2, <1>3 DEF Start

\* A refusal: whatever r was doing, it is answered and has written nothing.
LEMMA RefuseKeeps ==
  ASSUME IInv, NEW r \in Req, pc[r] \in Steps, Reply(r, 500), listed' = listed,
         items' = items
  PROVE  IInv'
<1>1. TypeOK /\ Fits(r) BY Split
<1> DEFINE a == [arg[r] EXCEPT !.status = 500]
<1>2. a \in Arg /\ a.op = arg[r].op /\ a.item = arg[r].item /\ a.status = 500
      /\ a.amount = arg[r].amount
  BY <1>1 DEF TypeOK, Arg, Status
<1>3. pc'[r] = "replied" /\ arg'[r] = a BY <1>1 DEF Reply, TypeOK
<1>4. Moves(r)
  BY <1>1, <1>2, <1>3 DEF Reply, TypeOK, Moves, Pc
<1>5. TypeOK' BY <1>1, <1>4 DEF TypeOK, Moves, Pc
<1>6. ~InRow(r)' BY <1>3 DEF InRow
<1>7. pc[r] # "idle" BY DEF Steps
<1> HIDE DEF a
<1>8. Fits(r)' BY <1>1, <1>2, <1>3, <1>6, <1>7 DEF Fits
<1>9. Holds(r)' /\ AddsUp(r)' BY <1>2, <1>3, <1>6 DEF Holds, AddsUp, Sums
<1>10. Writes(r) /\ Enters(r) BY <1>6 DEF Writes, Enters
<1> QED BY <1>4, <1>5, <1>8, <1>9, <1>10, StepKeeps

LEMMA CreateKeeps ==
  ASSUME IInv, NEW r \in Req, NEW s \in {201, 500}, Created(r, s)
  PROVE  IInv'
<1>1. TypeOK /\ Fits(r) BY Split
<1> DEFINE a == [arg[r] EXCEPT !.status = s]
<1>2. a \in Arg /\ a.op = "create" /\ a.item = arg[r].item /\ a.status = s
      /\ a.item \in Ingredient
  BY <1>1 DEF TypeOK, Arg, Status, Fits, Created, Item
<1>3. pc'[r] = "replied" /\ arg'[r] = a BY <1>1 DEF Reply, TypeOK, Created
<1>4. Moves(r)
  BY <1>1, <1>2, <1>3 DEF Reply, TypeOK, Moves, Pc, Created
<1>5. listed' \in SUBSET Ingredient BY <1>1, <1>2 DEF Created, TypeOK
<1>6. TypeOK' BY <1>1, <1>4, <1>5 DEF TypeOK, Moves, Pc, Created
<1>7. ~InRow(r)' BY <1>3 DEF InRow
<1>8. a.item # NULL BY <1>2, NullAssumption
<1> HIDE DEF a
<1>9. Fits(r)' BY <1>2, <1>3, <1>7, <1>8 DEF Fits
<1>10. Holds(r)' /\ AddsUp(r)' BY <1>2, <1>3, <1>7 DEF Holds, AddsUp, Sums
<1>11. Writes(r) /\ Enters(r) BY <1>7 DEF Writes, Enters, Created
<1> QED BY <1>4, <1>6, <1>9, <1>10, <1>11, StepKeeps

LEMMA Into ==
  ASSUME NEW a \in Arg, NEW n \in Nat, NEW k \in Int
  PROVE  /\ [a EXCEPT !.have = n] \in Arg
         /\ [a EXCEPT !.next = n] \in Arg
         /\ [a EXCEPT !.out = k] \in Arg
         /\ [a EXCEPT !.short = k] \in Arg
BY DEF Arg

\* Reading the row, alone: what is computed there has its type and is what the
\* two operations promise.
LEMMA ComputedType ==
  ASSUME TypeOK, NEW r \in Req, Fits(r), pc[r] = "ensure", arg[r].item \in Ingredient
  PROVE  /\ Computed(r) \in Arg
         /\ Computed(r).item = arg[r].item /\ Computed(r).op = arg[r].op
         /\ Computed(r).amount = arg[r].amount /\ Computed(r).status = arg[r].status
         /\ Computed(r).have = Level(arg[r].item)
         /\ arg[r].op = "adjust" =>
              Computed(r).next = Adjusted(Computed(r).have, arg[r].amount)
         /\ arg[r].op = "deduct" =>
              /\ Computed(r).out = Deducted(Computed(r).have, arg[r].amount)
              /\ Computed(r).short = Short(arg[r].amount, Computed(r).out)
              /\ Computed(r).next =
                   IF Computed(r).out > 0 THEN round3(Computed(r).have - Computed(r).out)
                   ELSE Computed(r).have
<1> DEFINE have == Level(arg[r].item)
           n == arg[r].amount
<1>1. have \in Stored /\ have \in Nat BY LevelStored, StoredProps
<1>2. arg[r] \in Arg /\ arg[r].op \in {"adjust", "deduct"} BY DEF TypeOK, Fits
<1>3. n \in Int BY <1>2 DEF Arg
<1> HIDE DEF have, n
<1>4. CASE arg[r].op = "adjust"
  <2>1. Computed(r) = [arg[r] EXCEPT !.have = have, !.next = Adjusted(have, n)]
    BY <1>4 DEF Computed, have, n
  <2>2. Adjusted(have, n) \in Nat BY <1>1, <1>3, AdjustedType
  <2>3. Computed(r) \in Arg BY <1>1, <1>2, <2>1, <2>2 DEF Arg
  <2> QED BY <1>2, <1>4, <2>1, <2>3 DEF Arg, have, n
<1>5. CASE arg[r].op = "deduct"
  <2> DEFINE out == Deducted(have, n)
             short == Short(n, out)
             next == IF out > 0 THEN round3(have - out) ELSE have
  <2>1. Computed(r) = [arg[r] EXCEPT !.have = have, !.out = out, !.short = short,
                                     !.next = next]
    BY <1>5 DEF Computed, have, n
  <2>2. n \in Qty BY <1>5 DEF Fits, n
  <2>3. out \in Nat /\ out \in Int /\ next \in Nat BY <1>1, <2>2, DeductedType
  <2> HIDE DEF out, next
  <2>4. short \in Int BY <1>3, <2>3, ShortType
  <2> HIDE DEF short
  <2>5. Computed(r) \in Arg
    <3>1. [arg[r] EXCEPT !.have = have] \in Arg BY <1>1, <1>2 DEF Arg
    <3>2. [[arg[r] EXCEPT !.have = have] EXCEPT !.out = out] \in Arg
      BY <2>3, <3>1, Into
    <3>3. [[[arg[r] EXCEPT !.have = have] EXCEPT !.out = out] EXCEPT !.short = short] \in Arg
      BY <2>4, <3>2, Into
    <3>4. [[[[arg[r] EXCEPT !.have = have] EXCEPT !.out = out] EXCEPT !.short = short]
             EXCEPT !.next = next] \in Arg
      BY <2>3, <3>3, Into
    <3> QED BY <1>2, <2>1, <3>4 DEF Arg
  <2>6. /\ Computed(r).item = arg[r].item /\ Computed(r).op = arg[r].op
        /\ Computed(r).amount = arg[r].amount /\ Computed(r).status = arg[r].status
        /\ Computed(r).have = have /\ Computed(r).out = out
        /\ Computed(r).short = short /\ Computed(r).next = next
    BY <1>2, <2>1 DEF Arg
  <2> QED BY <1>5, <2>5, <2>6 DEF out, short, next, have, n
<1> QED BY <1>2, <1>4, <1>5

LEMMA EnsureKeeps ==
  ASSUME IInv, NEW r \in Req, EnsureInventoryItem(r)
  PROVE  IInv'
<1>1. TypeOK /\ Fits(r) /\ pc[r] = "ensure" BY Split DEF EnsureInventoryItem
<1>2. CASE arg[r].item \notin listed
  <2>1. Reply(r, 500) /\ listed' = listed /\ items' = items
    BY <1>2 DEF EnsureInventoryItem
  <2> QED BY <1>1, <2>1, RefuseKeeps DEF Steps
<1>3. CASE arg[r].item \in listed
  <2>1. arg[r].item \in Ingredient BY <1>1, <1>3 DEF TypeOK
  <2> DEFINE a == Computed(r)
  <2>2. /\ a \in Arg /\ a.item = arg[r].item /\ a.op = arg[r].op
        /\ a.amount = arg[r].amount /\ a.have = Level(arg[r].item)
        /\ arg[r].op = "adjust" => a.next = Adjusted(a.have, arg[r].amount)
        /\ arg[r].op = "deduct" =>
             /\ a.out = Deducted(a.have, arg[r].amount)
             /\ a.short = Short(arg[r].amount, a.out)
             /\ a.next = IF a.out > 0 THEN round3(a.have - a.out) ELSE a.have
    BY <1>1, <2>1, ComputedType
  <2>3. /\ arg' = [arg EXCEPT ![r] = a]
        /\ \/ pc' = [pc EXCEPT ![r] = "commit"]
           \/ pc' = [pc EXCEPT ![r] = "set"]
        /\ listed' = listed /\ items' = items /\ RowFree(r)
    BY <1>3 DEF EnsureInventoryItem
  <2> HIDE DEF a
  <2>4. arg'[r] = a /\ pc'[r] \in {"set", "commit"} BY <1>1, <2>3 DEF TypeOK
  <2>5. Moves(r) BY <1>1, <2>2, <2>3 DEF TypeOK, Moves, Pc, Steps
  <2>6. TypeOK' BY <1>1, <2>3, <2>5 DEF TypeOK, Moves, Pc
  <2>7. arg[r].op \in {"adjust", "deduct"} /\ arg[r].item # NULL BY <1>1 DEF Fits
  <2>8. Fits(r)' BY <1>1, <2>2, <2>4, <2>7 DEF Fits, InRow
  <2>9. Holds(r)'
    <3>1. \A i \in Ingredient : Level(i)' = Level(i) BY <2>3 DEF Level
    <3> QED BY <2>1, <2>2, <2>4, <2>7, <3>1 DEF Holds
  <2>10. AddsUp(r)' BY <2>4 DEF AddsUp
  <2>11. Writes(r) /\ Enters(r) BY <2>2, <2>3, <2>4 DEF Writes, Enters
  <2> QED BY <2>5, <2>6, <2>8, <2>9, <2>10, <2>11, StepKeeps
<1> QED BY <1>2, <1>3

LEMMA SetKeeps ==
  ASSUME IInv, NEW r \in Req, SetInventoryQuantity(r)
  PROVE  IInv'
<1>1. TypeOK /\ Fits(r) /\ Holds(r) /\ InRow(r)
  BY Split DEF SetInventoryQuantity, InRow
<1>2. pc'[r] = "commit" /\ arg' = arg /\ Moves(r) /\ items' = items /\ listed' = listed
  BY <1>1 DEF SetInventoryQuantity, Goto, TypeOK, Moves, Pc, Steps
<1>3. TypeOK' BY <1>1, <1>2 DEF TypeOK, Moves, Pc
<1>4. InRow(r)' BY <1>2 DEF InRow
<1>5. Fits(r)' BY <1>1, <1>2, <1>4 DEF Fits, SetInventoryQuantity
<1>6. Holds(r)' BY <1>1, <1>2 DEF Holds, Level
<1>7. AddsUp(r)' BY <1>2 DEF AddsUp
<1>8. Writes(r) /\ Enters(r) BY <1>1, <1>2 DEF Writes, Enters
<1> QED BY <1>2, <1>3, <1>5, <1>6, <1>7, <1>8, StepKeeps

\* What a commit writes, and the level it replaces.
LEMMA CommitWrites ==
  ASSUME IInv, NEW r \in Req, pc[r] = "commit"
  PROVE  /\ arg[r].item \in Ingredient /\ arg[r].op \in {"adjust", "deduct"}
         /\ arg[r].have = Level(arg[r].item) /\ arg[r].have \in Stored
         /\ arg[r].op = "adjust" =>
              /\ arg[r].amount \in Delta /\ arg[r].amount \in Int
              /\ arg[r].next = Adjusted(arg[r].have, arg[r].amount)
         /\ arg[r].op = "deduct" =>
              /\ arg[r].amount \in Qty /\ arg[r].amount \in Int
              /\ arg[r].out = Lesser(arg[r].have, round3(arg[r].amount))
              /\ arg[r].out \in Nat
              /\ arg[r].next = arg[r].have - arg[r].out
         /\ float32(arg[r].next) \in Stored
<1>1. TypeOK /\ Fits(r) /\ Holds(r) /\ InRow(r) BY Split DEF InRow
<1>2. /\ arg[r].item \in Ingredient /\ arg[r].op \in {"adjust", "deduct"}
      /\ arg[r].have = Level(arg[r].item) /\ arg[r].have \in Stored
  BY <1>1, LevelStored DEF Holds
<1>3. ASSUME arg[r].op = "adjust"
      PROVE  /\ arg[r].amount \in Delta /\ arg[r].amount \in Int
             /\ arg[r].next = Adjusted(arg[r].have, arg[r].amount)
             /\ arg[r].next \in Nat /\ arg[r].next % 2 = 0
  BY <1>1, <1>2, <1>3, AdjustedType, AmountAssumption DEF Fits
<1>4. ASSUME arg[r].op = "deduct"
      PROVE  /\ arg[r].amount \in Qty /\ arg[r].amount \in Int
             /\ arg[r].out = Lesser(arg[r].have, round3(arg[r].amount))
             /\ arg[r].out \in Nat
             /\ arg[r].next = arg[r].have - arg[r].out
             /\ arg[r].next \in Nat /\ arg[r].next % 2 = 0
  <2>1. /\ arg[r].amount \in Qty /\ arg[r].out = Deducted(arg[r].have, arg[r].amount)
        /\ arg[r].next = IF arg[r].out > 0 THEN round3(arg[r].have - arg[r].out)
                         ELSE arg[r].have
    BY <1>1, <1>4 DEF Fits
  <2>2. /\ arg[r].out = Lesser(arg[r].have, round3(arg[r].amount))
        /\ arg[r].out \in Nat
        /\ round3(arg[r].have - arg[r].out) = arg[r].have - arg[r].out
        /\ arg[r].have - arg[r].out \in Nat /\ (arg[r].have - arg[r].out) % 2 = 0
    BY <1>2, <2>1, DeductedType
  <2>3. arg[r].have \in Nat BY <1>2, StoredProps
  <2>4. arg[r].next = arg[r].have - arg[r].out BY <2>1, <2>2, <2>3
  <2>5. arg[r].next \in Nat BY <2>2, <2>4
  <2>6. arg[r].next % 2 = 0 BY <2>2, <2>4, Zenon
  <2>7. \A q \in Qty : q \in Int BY AmountAssumption
  <2> QED BY <2>1, <2>2, <2>4, <2>5, <2>6, <2>7, Zenon
<1>5. float32(arg[r].next) \in Stored BY <1>2, <1>3, <1>4, StoreProps
<1> QED BY <1>2, <1>3, <1>4, <1>5

LEMMA CommitKeeps ==
  ASSUME IInv, NEW r \in Req, NEW s \in {200, 500}, Committed(r, s)
  PROVE  IInv'
<1>1. TypeOK /\ Fits(r) /\ InRow(r) BY Split DEF Committed, InRow
<1> DEFINE a == [arg[r] EXCEPT !.status = s]
<1>2. /\ a \in Arg /\ a.op = arg[r].op /\ a.item = arg[r].item /\ a.status = s
      /\ a.amount = arg[r].amount /\ a.out = arg[r].out /\ a.short = arg[r].short
      /\ a.have = arg[r].have
  BY <1>1 DEF TypeOK, Arg, Status
<1>3. pc'[r] = "replied" /\ arg'[r] = a BY <1>1 DEF Reply, TypeOK, Committed
<1>4. Moves(r) BY <1>1, <1>2, <1>3 DEF Reply, TypeOK, Moves, Pc, Committed
<1>5. items' \in [Ingredient -> Stored \cup {NULL}]
  BY <1>1, CommitWrites DEF Committed, TypeOK
<1>6. TypeOK' BY <1>1, <1>4, <1>5 DEF TypeOK, Moves, Pc, Committed
<1>7. ~InRow(r)' BY <1>3 DEF InRow
<1> HIDE DEF a
<1>8. Fits(r)' BY <1>1, <1>2, <1>3, <1>7 DEF Fits, InRow
<1>9. AddsUp(r)'
  <2>1. arg[r].op = "deduct" =>
          /\ arg[r].out \in Nat /\ arg[r].amount \in Int
          /\ arg[r].short = Short(arg[r].amount, arg[r].out)
    BY <1>1, CommitWrites DEF Fits, Committed
  <2>2. ASSUME arg[r].op = "deduct"
        PROVE  /\ arg[r].out >= 0
               /\ arg[r].out + arg[r].short \in arg[r].amount - 1 .. arg[r].amount + 1
    <3>1. PICK q \in Int, o \in Int : q = arg[r].amount /\ o = arg[r].out
      BY <2>1, <2>2
    <3>2. o + Short(q, o) \in q - 1 .. q + 1 BY ShortType
    <3>3. arg[r].out >= 0 BY <2>1, <2>2
    <3> QED BY <2>1, <2>2, <3>1, <3>2, <3>3, Zenon
  <2>3. arg[r].op = "deduct" =>
          a.out >= 0 /\ a.out + a.short \in a.amount - 1 .. a.amount + 1
    BY <1>2, <2>2, Zenon
  <2>4. Sums(a) BY <1>2, <2>3, Zenon DEF Sums
  <2> QED BY <1>3, <2>4 DEF AddsUp
<1>10. Holds(r)' BY <1>7 DEF Holds
<1>11. Writes(r) BY <1>1 DEF Writes, Committed, TypeOK
<1>12. Enters(r) BY <1>7 DEF Enters
<1> QED BY <1>4, <1>6, <1>8, <1>9, <1>10, <1>11, <1>12, StepKeeps

LEMMA NoArgType == NoArg \in Arg
BY AskedType DEF NoArg, Op, Item

\* An idle slot owes nothing.
LEMMA IdleFits ==
  ASSUME NEW r \in Req, pc[r] = "idle", arg[r] = NoArg
  PROVE  Fits(r) /\ Holds(r) /\ AddsUp(r)
BY DEF Fits, Holds, AddsUp, InRow, NoArg, Asked

LEMMA ReturnKeeps ==
  ASSUME IInv, NEW r \in Req, Return(r)
  PROVE  IInv'
<1>1. TypeOK BY DEF IInv
<1>2. pc'[r] = "idle" /\ arg'[r] = NoArg /\ Moves(r) /\ listed' = listed /\ items' = items
  BY <1>1, NoArgType DEF Return, TypeOK, Moves, Pc
<1>3. TypeOK' BY <1>1, <1>2 DEF TypeOK, Moves, Pc
<1>4. ~InRow(r)' BY <1>2 DEF InRow
<1>5. Fits(r)' /\ Holds(r)' /\ AddsUp(r)'
  BY <1>2 DEF Fits, Holds, AddsUp, InRow, NoArg, Asked
<1>6. Writes(r) /\ Enters(r) BY <1>2, <1>4 DEF Writes, Enters
<1> QED BY <1>2, <1>3, <1>5, <1>6, StepKeeps

LEMMA AllIdle ==
  ASSUME TypeOK, \A r \in Req : pc[r] = "idle" /\ arg[r] = NoArg
  PROVE  IInv
<1>1. RowExclusive BY DEF RowExclusive, InRow
<1> QED BY <1>1, IdleFits, Split

LEMMA InitHolds == Init => IInv
<1> SUFFICES ASSUME Init PROVE IInv OBVIOUS
<1>1. TypeOK BY NoArgType DEF Init, TypeOK
<1>2. \A r \in Req : pc[r] = "idle" /\ arg[r] = NoArg BY DEF Init
<1> QED BY <1>1, <1>2, AllIdle

LEMMA CrashKeeps ==
  ASSUME IInv, Crash
  PROVE  IInv'
<1>1. TypeOK BY DEF IInv
<1>2. TypeOK' BY <1>1, NoArgType DEF Crash, TypeOK
<1>3. \A r \in Req : pc'[r] = "idle" /\ arg'[r] = NoArg BY DEF Crash
<1>4. RowExclusive' BY <1>3 DEF RowExclusive, InRow
<1>5. \A r \in Req : Fits(r)' /\ Holds(r)' /\ AddsUp(r)'
  BY <1>3 DEF Fits, Holds, AddsUp, InRow, NoArg, Asked
<1> QED BY <1>2, <1>4, <1>5 DEF IInv, ReadStillHolds, ArgsFit, DeductionAddsUp,
        Fits, Holds, AddsUp, Sums

LEMMA NextKeeps == IInv /\ [Next]_vars => IInv'
<1> SUFFICES ASSUME IInv, [Next]_vars PROVE IInv' OBVIOUS
<1>1. ASSUME NEW r \in Req, Serve(r) PROVE IInv'
  BY <1>1, CreateKeeps, EnsureKeeps, SetKeeps, CommitKeeps DEF Serve, CreateIngredient, Commit
<1>2. ASSUME NEW r \in Req, Fail(r) \/ Unconfirmed(r) PROVE IInv'
  BY <1>2, RefuseKeeps, CreateKeeps, CommitKeeps DEF Fail, Unconfirmed
<1>3. CASE UNCHANGED vars
  BY <1>3 DEF vars, IInv, TypeOK, RowExclusive, ReadStillHolds, ArgsFit,
              DeductionAddsUp, InRow, Level
<1> QED BY <1>1, <1>2, <1>3, StartKeeps, ReturnKeeps, CrashKeeps DEF Next

\* A transaction that has its row keeps it alone and works on its current level.
THEOREM Invariance == Spec => []IInv
BY InitHolds, NextKeeps, PTL DEF Spec

\* Types; in particular no stock is ever negative, and every level is a number
\* of thousandths a real can hold.
THEOREM TypeCorrect == Spec => []TypeOK
<1>1. IInv => TypeOK BY DEF IInv
<1> QED BY <1>1, Invariance, PTL

\* What a deduction takes and what it reports missing make up what was asked,
\* for all amounts, to within half a thousandth.
THEOREM DeductionsAddUp == Spec => []DeductionAddsUp
<1>1. IInv => DeductionAddsUp BY DEF IInv
<1> QED BY <1>1, Invariance, PTL

-----------------------------------------------------------------------------
(* Inventory implements Stock *)

LEMMA InitContract == Init => Contract!Init
BY DEF Init, Contract!Init, Level, AnswerOf

\* The contract sees the levels and the answers given.
LEMMA Stutter ==
  ASSUME items' = items, \A q \in Req : AnswerOf(q)' = AnswerOf(q)
  PROVE  UNCHANGED Contract!vars
BY DEF Contract!vars, Level

\* Before a request is answered with success the contract has not heard of it.
LEMMA Unanswered ==
  ASSUME TypeOK, NEW r \in Req, items' = items, pc[r] # "replied",
         \A q \in Req : q # r => pc'[q] = pc[q] /\ arg'[q] = arg[q],
         pc'[r] = "replied" => arg'[r].status # 200
  PROVE  UNCHANGED Contract!vars
<1>1. \A q \in Req : AnswerOf(q)' = AnswerOf(q) BY DEF AnswerOf
<1> QED BY <1>1, Stutter

LEMMA ReturnForgets ==
  ASSUME NEW r \in Req, Return(r), TypeOK
  PROVE  Contract!Forget({r})
<1>1. \A q \in Req : AnswerOf(q)' = IF q \in {r} THEN NULL ELSE AnswerOf(q)
  BY DEF Return, AnswerOf, TypeOK
<1>2. items' = items BY DEF Return
<1> QED BY <1>1, <1>2 DEF Contract!Forget, Level

LEMMA CrashForgets ==
  ASSUME Crash
  PROVE  Contract!Forget(Req)
<1>1. \A q \in Req : AnswerOf(q)' = NULL BY DEF Crash, AnswerOf
<1>2. items' = items BY DEF Crash
<1> QED BY <1>1, <1>2 DEF Contract!Forget, Level

\* The rows and the answers after a commit, confirmed or not.
LEMMA CommitEffect ==
  ASSUME IInv, NEW r \in Req, NEW s, Committed(r, s)
  PROVE  /\ [i \in Ingredient |-> Level(i)]' =
              [[i \in Ingredient |-> Level(i)] EXCEPT ![arg[r].item] = float32(arg[r].next)]
         /\ AnswerOf(r) = NULL
         /\ \/ [q \in Req |-> AnswerOf(q)]' = [q \in Req |-> AnswerOf(q)]
            \/ [q \in Req |-> AnswerOf(q)]' =
                 [[q \in Req |-> AnswerOf(q)] EXCEPT ![r] =
                    [op |-> arg[r].op, item |-> arg[r].item, amount |-> arg[r].amount,
                     result |-> IF arg[r].op = "adjust" THEN arg[r].next ELSE arg[r].out]]
<1>1. TypeOK /\ pc[r] = "commit" BY DEF IInv, Committed
<1>2. float32(arg[r].next) \in Stored /\ arg[r].item \in Ingredient BY <1>1, CommitWrites
<1>3. float32(arg[r].next) # NULL BY <1>2, NullAssumption
<1>4. \A i \in Ingredient :
        Level(i)' = IF i = arg[r].item THEN float32(arg[r].next) ELSE Level(i)
  BY <1>1, <1>3 DEF Committed, Level, TypeOK
<1>5. AnswerOf(r) = NULL BY <1>1 DEF AnswerOf
<1>6. \A q \in Req : q # r => AnswerOf(q)' = AnswerOf(q)
  BY <1>1 DEF Committed, Reply, AnswerOf, TypeOK
<1>7. [i \in Ingredient |-> Level(i)]' =
        [[i \in Ingredient |-> Level(i)] EXCEPT ![arg[r].item] = float32(arg[r].next)]
  BY <1>2, <1>4
<1>8. CASE s # 200
  <2>1. AnswerOf(r)' = NULL BY <1>1, <1>8 DEF Committed, Reply, AnswerOf, TypeOK, Arg
  <2>2. \A q \in Req : AnswerOf(q)' = AnswerOf(q) BY <1>5, <1>6, <2>1
  <2>3. [q \in Req |-> AnswerOf(q)]' = [q \in Req |-> AnswerOf(q)] BY <2>2
  <2> QED BY <1>5, <1>7, <2>3
<1>9. CASE s = 200
  <2>1. AnswerOf(r)' =
          [op |-> arg[r].op, item |-> arg[r].item, amount |-> arg[r].amount,
           result |-> IF arg[r].op = "adjust" THEN arg[r].next ELSE arg[r].out]
    BY <1>1, <1>9 DEF Committed, Reply, AnswerOf, TypeOK, Arg
  <2>2. [q \in Req |-> AnswerOf(q)]' =
          [[q \in Req |-> AnswerOf(q)] EXCEPT ![r] =
             [op |-> arg[r].op, item |-> arg[r].item, amount |-> arg[r].amount,
              result |-> IF arg[r].op = "adjust" THEN arg[r].next ELSE arg[r].out]]
    BY <1>6, <2>1
  <2> QED BY <1>5, <1>7, <2>2
<1> QED BY <1>8, <1>9

\* The contract calculates as the code does.
LEMMA SameArithmetic ==
  /\ \A n : Contract!round3(n) = round3(n)
  /\ \A n : Contract!AtLeast0(n) = AtLeast0(n)
  /\ \A m, n : Contract!Lesser(m, n) = Lesser(m, n)
  /\ \A n : Contract!float32(n) = float32(n)
<1>1. \A n : Contract!round3(n) = round3(n) BY Zenon DEF Contract!round3, round3
<1>2. \A n : Contract!AtLeast0(n) = AtLeast0(n) BY Zenon DEF Contract!AtLeast0, AtLeast0
<1>3. \A m, n : Contract!Lesser(m, n) = Lesser(m, n) BY Zenon DEF Contract!Lesser, Lesser
<1>4. \A n : Contract!float32(n) = float32(n) BY Zenon DEF Contract!float32, float32
<1> QED BY <1>1, <1>2, <1>3, <1>4

LEMMA CommitIsAtomic ==
  ASSUME IInv, NEW r \in Req, NEW s, Committed(r, s)
  PROVE  Contract!Next
<1> DEFINE i == arg[r].item
           n == arg[r].amount
           lev == [j \in Ingredient |-> Level(j)]
           answers == [q \in Req |-> AnswerOf(q)]
<1>0. /\ lev' = [lev EXCEPT ![i] = float32(arg[r].next)]
      /\ answers[r] = NULL
      /\ \/ answers' = answers
         \/ answers' = [answers EXCEPT ![r] =
                         [op |-> arg[r].op, item |-> i, amount |-> n,
                          result |-> IF arg[r].op = "adjust" THEN arg[r].next ELSE arg[r].out]]
      /\ pc[r] = "commit"
  BY CommitEffect DEF Committed
<1>1. /\ i \in Ingredient /\ arg[r].op \in {"adjust", "deduct"}
      /\ arg[r].have = lev[i] /\ arg[r].have \in Stored
  BY <1>0, CommitWrites
<1>2. CASE arg[r].op = "adjust"
  <2>1. n \in Delta /\ arg[r].next = AtLeast0(round3(lev[i] + n))
    BY <1>0, <1>1, <1>2, CommitWrites DEF Adjusted
  <2> HIDE DEF n
  <2>2. Contract!Adjust(r, i, n)
    <3> DEFINE new == AtLeast0(round3(lev[i] + n))
    <3>1. /\ lev' = [lev EXCEPT ![i] = float32(new)]
          /\ \/ answers' = answers
             \/ answers' = [answers EXCEPT ![r] =
                             [op |-> "adjust", item |-> i, amount |-> n, result |-> new]]
      BY <1>0, <1>2, <2>1
    <3> HIDE DEF new
    <3>2. new = AtLeast0(round3(lev[i] + n)) BY DEF new
    <3> QED BY <1>0, <3>1, <3>2, SameArithmetic, Zenon DEF Contract!Adjust, Contract!Answer, Contract!Told
  <2> QED BY <1>1, <2>1, <2>2 DEF Contract!Next
<1>3. CASE arg[r].op = "deduct"
  <2>1. /\ n \in Qty /\ arg[r].out = Lesser(lev[i], round3(n))
        /\ arg[r].next = lev[i] - arg[r].out
    BY <1>0, <1>1, <1>3, CommitWrites
  <2> HIDE DEF n
  <2>2. Contract!Deduct(r, i, n)
    <3> DEFINE out == Lesser(lev[i], round3(n))
    <3>1. /\ lev' = [lev EXCEPT ![i] = float32(lev[i] - out)]
          /\ \/ answers' = answers
             \/ answers' = [answers EXCEPT ![r] =
                             [op |-> "deduct", item |-> i, amount |-> n, result |-> out]]
      BY <1>0, <1>3, <2>1
    <3> HIDE DEF out
    <3>2. out = Lesser(lev[i], round3(n)) BY DEF out
    <3> QED BY <1>0, <3>1, <3>2, SameArithmetic, Zenon DEF Contract!Deduct, Contract!Answer, Contract!Told
  <2> QED BY <1>1, <2>1, <2>2 DEF Contract!Next
<1> QED BY <1>1, <1>2, <1>3

LEMMA StepContract ==
  ASSUME IInv, [Next]_vars
  PROVE  [Contract!Next]_Contract!vars
<1>0. TypeOK /\ \A r \in Req : Fits(r) BY Split
<1>1. ASSUME NEW r \in Req, Start(r) PROVE UNCHANGED Contract!vars
  <2>1. PICK p \in {"create", "ensure"} :
          /\ pc[r] = "idle" /\ items' = items /\ pc' = [pc EXCEPT ![r] = p]
          /\ \A q \in Req : q # r => arg'[q] = arg[q]
    BY <1>0, <1>1 DEF Start, StartCreate, StartAdjust, StartDeduct, Begin, TypeOK
  <2>2. pc'[r] # "replied" /\ \A q \in Req : q # r => pc'[q] = pc[q]
    BY <1>0, <2>1 DEF TypeOK
  <2> QED BY <1>0, <2>1, <2>2, Unanswered
<1>2. ASSUME NEW r \in Req, pc[r] \in Steps, items' = items, NEW s \in {201, 500},
             Reply(r, s)
      PROVE  UNCHANGED Contract!vars
  <2>1. \A q \in Req : q # r => pc'[q] = pc[q] /\ arg'[q] = arg[q]
    BY <1>0, <1>2 DEF Reply, TypeOK
  <2>2. arg'[r].status # 200 BY <1>0, <1>2 DEF Reply, TypeOK, Arg
  <2> QED BY <1>0, <1>2, <2>1, <2>2, Unanswered DEF Steps
<1>3. ASSUME NEW r \in Req, NEW s \in {201, 500}, Created(r, s)
      PROVE  UNCHANGED Contract!vars
  BY <1>2, <1>3 DEF Created, Steps
<1>4. ASSUME NEW r \in Req, EnsureInventoryItem(r) PROVE UNCHANGED Contract!vars
  <2>1. CASE arg[r].item \notin listed
    BY <1>2, <1>4, <2>1 DEF EnsureInventoryItem, Steps
  <2>2. CASE arg[r].item \in listed
    <3>1. /\ pc'[r] # "replied" /\ pc[r] # "replied" /\ items' = items
          /\ \A q \in Req : q # r => pc'[q] = pc[q] /\ arg'[q] = arg[q]
      BY <1>0, <1>4, <2>2 DEF EnsureInventoryItem, TypeOK
    <3> QED BY <1>0, <3>1, Unanswered
  <2> QED BY <2>1, <2>2
<1>5. ASSUME NEW r \in Req, SetInventoryQuantity(r) PROVE UNCHANGED Contract!vars
  <2>1. /\ pc'[r] # "replied" /\ pc[r] # "replied" /\ items' = items
        /\ \A q \in Req : q # r => pc'[q] = pc[q] /\ arg'[q] = arg[q]
    BY <1>0, <1>5 DEF SetInventoryQuantity, Goto, TypeOK
  <2> QED BY <1>0, <2>1, Unanswered
<1>6. ASSUME NEW r \in Req, Fail(r) PROVE UNCHANGED Contract!vars
  BY <1>2, <1>6 DEF Fail
<1>7. ASSUME NEW r \in Req, Return(r) PROVE Contract!Next
  <2>1. {r} \in SUBSET Req OBVIOUS
  <2> QED BY <1>0, <1>7, <2>1, ReturnForgets DEF Contract!Next
<1>8. CASE Crash
  BY <1>8, CrashForgets DEF Contract!Next
<1>9. CASE UNCHANGED vars
  BY <1>9, Stutter DEF vars, AnswerOf
<1>10. ASSUME NEW r \in Req, CreateIngredient(r) \/ Commit(r) \/ Unconfirmed(r)
       PROVE  [Contract!Next]_Contract!vars
  BY <1>3, <1>10, CommitIsAtomic DEF CreateIngredient, Commit, Unconfirmed
<1> QED BY <1>1, <1>4, <1>5, <1>6, <1>7, <1>8, <1>9, <1>10 DEF Next, Serve

\* Corrections and deductions, each three statements on a shared row, behave as
\* the indivisible operations of Stock: no update is lost.
THEOREM Implements == Spec => ImplementsStock
<1>1. IInv /\ [Next]_vars => [Contract!Next]_Contract!vars BY StepContract
<1> QED BY <1>1, InitContract, Invariance, PTL DEF Spec, ImplementsStock, Contract!Spec
=============================================================================
