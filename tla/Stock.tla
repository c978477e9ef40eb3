------------------------------- MODULE Stock -------------------------------
(***************************************************************************)
(* What the inventory promises, with every change of stock a single atomic *)
(* step: the answer to a change and the level it leaves both follow from   *)
(* the level the change found, and nothing else moves a level.             *)
(* Inventory.tla is the transactional implementation of this contract.     *)
(***************************************************************************)
EXTENDS Amounts

CONSTANTS
  Req,          \* requests that may be answered at one time
  Ingredient,   \* ingredients
  Delta,        \* corrections of the stock
  Qty,          \* amounts an addition asks for
  NULL          \* no answer

VARIABLES
  level,        \* level[i]: stock of ingredient i
  answer        \* answer[r]: what r was told, until it has read it

vars == <<level, answer>>

Init ==
  /\ level = [i \in Ingredient |-> 0]
  /\ answer = [r \in Req |-> NULL]

Answer(op, i, n, result) ==
  [op |-> op, item |-> i, amount |-> n, result |-> result]

\* Who asked is told, or is not: the answer may be lost and the change stands.
Told(r, a) == answer' \in {answer, [answer EXCEPT ![r] = a]}

\* A correction never takes the level below zero.
Adjust(r, i, d) ==
  LET new == AtLeast0(round3(level[i] + d)) IN
    /\ answer[r] = NULL
    /\ level' = [level EXCEPT ![i] = float32(new)]
    /\ Told(r, Answer("adjust", i, d, new))

\* An addition gets what it asked for or, if that is less, all there is.
Deduct(r, i, q) ==
  LET out == Lesser(level[i], round3(q)) IN
    /\ answer[r] = NULL
    /\ level' = [level EXCEPT ![i] = float32(level[i] - out)]
    /\ Told(r, Answer("deduct", i, q, out))

Forget(S) ==
  /\ answer' = [r \in Req |-> IF r \in S THEN NULL ELSE answer[r]]
  /\ UNCHANGED level

Next ==
  \/ \E r \in Req, i \in Ingredient, d \in Delta : Adjust(r, i, d)
  \/ \E r \in Req, i \in Ingredient, q \in Qty : Deduct(r, i, q)
  \/ \E S \in SUBSET Req : Forget(S)

Spec == Init /\ [][Next]_vars
=============================================================================
