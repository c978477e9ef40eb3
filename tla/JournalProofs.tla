--------------------------- MODULE JournalProofs ----------------------------
(***************************************************************************)
(* Proofs about Schedule for any recipe, any freeform events and any days, *)
(* and about EventData for any payloads.  Their loops are recursive        *)
(* functions on finite sets of places and of keys; what they compute is    *)
(* proved by looking at a least set where it would fail.                   *)
(***************************************************************************)
EXTENDS Schedule, EventData, FiniteSetTheorems, SequenceTheorems, WellFoundedInduction, TLAPS

-----------------------------------------------------------------------------
(* Induction on finite sets, with sets for predicates *)

LEMMA LeastSet ==
  ASSUME NEW D, IsFiniteSet(D), NEW F, F \subseteq SUBSET D, F # {}
  PROVE  \E T \in F : \A U \in F : U \subseteq T => U = T
<1>1. F \subseteq FiniteSubsetsOf(D) BY FS_Subset DEF FiniteSubsetsOf
<1>2. IsWellFoundedOn(StrictSubsetOrdering(D), FiniteSubsetsOf(D))
  BY FS_StrictSubsetOrderingWellFounded
<1>3. PICK T \in F : \A U \in F : <<U, T>> \notin StrictSubsetOrdering(D)
  BY <1>1, <1>2, WFMin
<1>4. ASSUME NEW U \in F, U \subseteq T PROVE U = T
  <2>1. U \in SUBSET D /\ T \in SUBSET D OBVIOUS
  <2>2. U # T => <<U, T>> \in StrictSubsetOrdering(D)
    BY <1>4, <2>1 DEF StrictSubsetOrdering
  <2> QED BY <1>3, <2>2
<1> QED BY <1>4

Picks(last, D) == \A S \in SUBSET D : S # {} => last[S] \in S

Folds(h, D, A, base, step, last) ==
  /\ h \in [SUBSET D -> A]
  /\ \A S \in SUBSET D :
       h[S] = IF S = {} THEN base ELSE step[last[S]][h[S \ {last[S]}]]

\* A function that is given by its values on smaller sets exists.
LEMMA FoldExists ==
  ASSUME NEW D, IsFiniteSet(D), NEW A, NEW base, base \in A,
         NEW step, step \in [D -> [A -> A]], NEW last, Picks(last, D)
  PROVE  \E h : Folds(h, D, A, base, step, last)
<1>0. \A S \in SUBSET D : S # {} => last[S] \in S BY DEF Picks
<1> DEFINE Eq(h, S) == h[S] = IF S = {} THEN base ELSE step[last[S]][h[S \ {last[S]}]]
           Good(T, h) == h \in [SUBSET T -> A] /\ \A S \in SUBSET T : Eq(h, S)
<1>1. ASSUME NEW T \in SUBSET D, NEW U \in SUBSET D, NEW g, NEW h, Good(T, g), Good(U, h),
             NEW S \in SUBSET T, S \in SUBSET U
      PROVE  g[S] = h[S]
  <2> DEFINE F == {V \in SUBSET D : V \subseteq T /\ V \subseteq U /\ g[V] # h[V]}
  <2>1. SUFFICES ASSUME F # {} PROVE FALSE BY <1>1
  <2>0. F \subseteq SUBSET D OBVIOUS
  <2> HIDE DEF F
  <2>2. PICK V \in F : \A W \in F : W \subseteq V => W = V BY <2>0, <2>1, LeastSet
  <2> USE DEF F
  <2>3. V # {} BY <1>1, <2>2
  <2>4. V \ {last[V]} \notin F /\ last[V] \in V BY <1>0, <2>2, <2>3
  <2>5. g[V \ {last[V]}] = h[V \ {last[V]}] BY <2>4
  <2> QED BY <1>1, <2>2, <2>3, <2>5
<1> DEFINE F == {T \in SUBSET D : ~\E h : Good(T, h)}
           v(S) == (CHOOSE h : Good(S, h))[S]
<1>2. ASSUME NEW T \in SUBSET D, \A U \in SUBSET T : U # T => \E h : Good(U, h)
      PROVE  \E h : Good(T, h)
  <2> DEFINE g == [S \in SUBSET T |-> IF S = {} THEN base ELSE step[last[S]][v(S \ {last[S]})]]
  <2> HIDE DEF Good
  <2>1. \A U \in SUBSET T : U # T => Good(U, CHOOSE h : Good(U, h)) BY <1>2
  <2> USE DEF Good
  <2>2. ASSUME NEW U \in SUBSET T, U # T PROVE v(U) \in A
    <3> DEFINE h == CHOOSE h : Good(U, h)
    <3>1. h \in [SUBSET U -> A] BY <2>1, <2>2
    <3>2. h[U] \in A BY <3>1
    <3> QED BY <3>2
  <2>3. \A S \in SUBSET T : S # {} => last[S] \in S /\ S \ {last[S]} \in SUBSET T /\ S \ {last[S]} # T
    <3>0. T \subseteq D OBVIOUS
    <3>1. ASSUME NEW S \in SUBSET T PROVE S \in SUBSET D BY <3>0
    <3>2. \A S \in SUBSET T : S # {} => last[S] \in S BY <1>0, <3>1
    <3>3. ASSUME NEW S \in SUBSET T, S # {}
          PROVE  last[S] \in S /\ S \ {last[S]} \in SUBSET T /\ S \ {last[S]} # T
      <4>1. last[S] \in S BY <3>2, <3>3
      <4> HIDE DEF g
      <4> QED BY <4>1
    <3> QED BY <3>3
  <2>4. ASSUME NEW S \in SUBSET T PROVE g[S] \in A
    <3>1. CASE S = {} BY <3>1
    <3>2. CASE S # {}
      <4>1. v(S \ {last[S]}) \in A /\ last[S] \in D BY <2>2, <2>3, <3>2
      <4> HIDE DEF v
      <4> QED BY <3>2, <4>1
    <3> QED BY <3>1, <3>2
  <2>5. ASSUME NEW W \in SUBSET T, W # T PROVE g[W] = v(W)
    <3> DEFINE h == CHOOSE h : Good(W, h)
    <3>1. Good(W, h) BY <2>1, <2>5
    <3>2. CASE W = {} BY <3>1, <3>2
    <3>3. CASE W # {}
      <4> DEFINE U == W \ {last[W]}
                 k == CHOOSE k : Good(U, k)
      <4>1. U \in SUBSET W /\ U \in SUBSET T /\ U # T /\ last[W] \in W BY <2>3, <3>3
      <4>2. Good(U, k) BY <2>1, <4>1
      <4> HIDE DEF h, k, Good
      <4>3. h[U] = k[U] BY <1>1, <3>1, <4>1, <4>2
      <4> USE DEF Good
      <4>4. h[W] = step[last[W]][h[U]] BY <3>1, <3>3
      <4>5. v(W) = h[W] /\ v(U) = k[U] BY DEF h, k
      <4> HIDE DEF v
      <4> QED BY <3>3, <4>3, <4>4, <4>5
    <3> QED BY <3>2, <3>3
  <2> HIDE DEF v
  <2>6. ASSUME NEW S \in SUBSET T PROVE Eq(g, S)
    <3>1. CASE S = {} BY <3>1
    <3>2. CASE S # {}
      <4>1. g[S \ {last[S]}] = v(S \ {last[S]}) BY <2>3, <2>5, <3>2
      <4>2. g[S] = step[last[S]][v(S \ {last[S]})] BY <3>2
      <4> HIDE DEF g
      <4> QED BY <3>2, <4>1, <4>2
    <3> QED BY <3>1, <3>2
  <2>7. g = [S \in SUBSET T |-> g[S]] OBVIOUS
  <2> HIDE DEF g
  <2> QED BY <2>4, <2>6, <2>7
<1> HIDE DEF Good
<1>3. F = {}
  <2>1. SUFFICES ASSUME F # {} PROVE FALSE OBVIOUS
  <2>0. F \subseteq SUBSET D OBVIOUS
  <2> HIDE DEF F
  <2>2. PICK T \in F : \A U \in F : U \subseteq T => U = T BY <2>0, <2>1, LeastSet
  <2> USE DEF F
  <2>3. \A U \in SUBSET T : U # T => \E h : Good(U, h) BY <2>2
  <2> QED BY <1>2, <2>2, <2>3
<1>4. PICK h : Good(D, h) BY <1>3
<1> USE DEF Good
<1>5. Folds(h, D, A, base, step, last) BY <1>4 DEF Folds
<1> QED BY <1>5

LEMMA FoldTyped ==
  ASSUME NEW D, IsFiniteSet(D), NEW A, NEW last, Picks(last, D), NEW h, h[{}] \in A,
         \A S \in SUBSET D : S # {} /\ h[S \ {last[S]}] \in A => h[S] \in A
  PROVE  \A S \in SUBSET D : h[S] \in A
<1> DEFINE F == {S \in SUBSET D : h[S] \notin A}
<1>1. SUFFICES ASSUME F # {} PROVE FALSE OBVIOUS
<1>2. F \subseteq SUBSET D OBVIOUS
<1> HIDE DEF F
<1>3. PICK T \in F : \A U \in F : U \subseteq T => U = T BY <1>1, <1>2, LeastSet
<1> USE DEF F
<1>4. T # {} BY <1>3
<1>5. last[T] \in T BY <1>3, <1>4 DEF Picks
<1>6. T \ {last[T]} \notin F /\ T \ {last[T]} \in SUBSET D BY <1>3, <1>5
<1> QED BY <1>3, <1>4, <1>6

-----------------------------------------------------------------------------
(* The order of sort.SliceStable *)

Sortable(s, D) == \A i \in D : i \in Int /\ s[i].sort \in Int

LEMMA BeforeOrders ==
  ASSUME NEW s, NEW D, Sortable(s, D)
  PROVE  /\ \A i \in D : ~Before(s, i, i)
         /\ \A i, j \in D : Before(s, i, j) \/ i = j \/ Before(s, j, i)
         /\ \A i, j, k \in D : Before(s, i, j) /\ Before(s, j, k) => Before(s, i, k)
         /\ \A i, j \in D : Before(s, i, j) => ~Before(s, j, i)
BY DEF Sortable, Before

\* Whatever places are left, one of them is the last.
LEMMA LastIsLast ==
  ASSUME NEW s, NEW S, Sortable(s, S), IsFiniteSet(S), S # {}
  PROVE  Last(s, S) \in S /\ \A j \in S \ {Last(s, S)} : Before(s, j, Last(s, S))
<1> DEFINE Behind(j) == {i \in S : Before(s, j, i)}
           F == {Behind(j) : j \in S}
<1>1. F \subseteq SUBSET S /\ F # {} OBVIOUS
<1> HIDE DEF F
<1>2. PICK T \in F : \A U \in F : U \subseteq T => U = T BY <1>1, LeastSet
<1> USE DEF F
<1>3. PICK j \in S : T = Behind(j) BY <1>2
<1>4. \A i \in S : ~Before(s, j, i)
  <2>1. SUFFICES ASSUME NEW i \in S, Before(s, j, i) PROVE FALSE OBVIOUS
  <2>2. Behind(i) \subseteq Behind(j) BY <2>1, BeforeOrders
  <2>3. i \in Behind(j) /\ i \notin Behind(i) BY <2>1, BeforeOrders
  <2> QED BY <1>2, <1>3, <2>2, <2>3
<1>5. \A i \in S \ {j} : Before(s, i, j) BY <1>4, BeforeOrders
<1> QED BY <1>5 DEF Last

Ahead(s, S, i) == {j \in S : Before(s, j, i)}

LEMMA Prefixes ==
  ASSUME NEW s, NEW S, Sortable(s, S), IsFiniteSet(S), NEW i \in S
  PROVE  /\ UpTo(s, S, i) \in SUBSET S /\ UpTo(s, S, i) # {}
         /\ Ahead(s, S, i) \in SUBSET S
         /\ Last(s, UpTo(s, S, i)) = i
         /\ UpTo(s, S, i) \ {i} = Ahead(s, S, i)
         /\ Ahead(s, S, i) # {} =>
              /\ Last(s, Ahead(s, S, i)) \in Ahead(s, S, i)
              /\ Ahead(s, S, i) = UpTo(s, S, Last(s, Ahead(s, S, i)))
<1> DEFINE U == UpTo(s, S, i)
           A == Ahead(s, S, i)
<1>1. U \in SUBSET S /\ i \in U /\ A \in SUBSET S BY DEF UpTo, Ahead
<1>2. IsFiniteSet(U) /\ IsFiniteSet(A) /\ Sortable(s, U) /\ Sortable(s, A)
  BY <1>1, FS_Subset DEF Sortable
<1>3. U \ {i} = A BY BeforeOrders DEF UpTo, Ahead
<1>4. Last(s, U) = i
  <2>1. Last(s, U) \in U /\ \A j \in U \ {Last(s, U)} : Before(s, j, Last(s, U))
    BY <1>1, <1>2, LastIsLast
  <2>2. ~Before(s, i, Last(s, U)) BY <1>1, <2>1, BeforeOrders DEF UpTo
  <2> QED BY <1>1, <2>1, <2>2
<1>5. ASSUME A # {} PROVE Last(s, A) \in A /\ A = UpTo(s, S, Last(s, A))
  <2> DEFINE l == Last(s, A)
  <2>1. l \in A /\ \A j \in A \ {l} : Before(s, j, l) BY <1>2, <1>5, LastIsLast
  <2> HIDE DEF l
  <2>2. l \in S /\ Before(s, l, i) BY <2>1 DEF Ahead
  <2>3. \A j \in S : Before(s, j, l) => Before(s, j, i) BY <2>2, BeforeOrders
  <2>4. A = UpTo(s, S, l) BY <2>1, <2>2, <2>3 DEF UpTo, Ahead
  <2> QED BY <2>1, <2>4 DEF l
<1> QED BY <1>1, <1>3, <1>4, <1>5

-----------------------------------------------------------------------------
(* What the two loops compute *)

Dated(e) ==
  /\ e.sort \in Int /\ e.status \in {"planned", "done", "skipped"}
  /\ e.anchor \in {"start", "previous", NULL}
  /\ e.offset \in Int \cup {NULL}
  /\ e.scheduled \in Int \cup {NULL} /\ e.completed \in Int \cup {NULL}

LEMMA ChainInt ==
  ASSUME NEW e, Dated(e), NEW c \in Int
  PROVE  ChainAfter(e, c) \in Int
<1>1. OrElse(e.offset, 0) \in Int /\ OrElse(e.scheduled, c) \in Int
      /\ OrElse(e.completed, OrElse(e.scheduled, c)) \in Int
  BY DEF Dated, OrElse
<1> QED BY <1>1 DEF ChainAfter

\* D are places of datable events.
Shiftable(evs, D) ==
  /\ IsFiniteSet(D) /\ Sortable(evs, D)
  /\ \A i \in D : /\ Dated(evs[i])
                  /\ evs[i].anchor # NULL /\ evs[i].status = "done" => evs[i].completed # NULL

ShiftsAlong(chain, evs, D, from) ==
  /\ chain \in [SUBSET D -> Int]
  /\ \A S \in SUBSET D :
       chain[S] = IF S = {} THEN from
                  ELSE ChainAfter(evs[Last(evs, S)], chain[S \ {Last(evs, S)}])

LEMMA ShiftChainIs ==
  ASSUME NEW evs, NEW D, Shiftable(evs, D), NEW from, from \in Int
  PROVE  ShiftsAlong(ShiftChain(evs, D, from), evs, D, from)
<1> USE DEF Shiftable
<1> DEFINE last == [S \in SUBSET D |-> Last(evs, S)]
           step == [i \in D |-> [c \in Int |-> ChainAfter(evs[i], c)]]
           body(f, S) == IF S = {} THEN from
                         ELSE ChainAfter(evs[Last(evs, S)], f[S \ {Last(evs, S)}])
           chain == ShiftChain(evs, D, from)
<1>1. ASSUME NEW S \in SUBSET D, S # {} PROVE last[S] = Last(evs, S) /\ last[S] \in S
  <2>1. IsFiniteSet(S) /\ Sortable(evs, S) BY FS_Subset DEF Sortable
  <2> QED BY <1>1, <2>1, LastIsLast
<1>2. step \in [D -> [Int -> Int]] BY ChainInt
<1>3. \A i \in D, c \in Int : step[i][c] = ChainAfter(evs[i], c) OBVIOUS
<1> HIDE DEF last, step
<1>4. PICK h : Folds(h, D, Int, from, step, last)
  <2>1. Picks(last, D) BY <1>1 DEF Picks
  <2> HIDE DEF body, chain
  <2> QED BY <1>2, <2>1, FoldExists
<1>5. ASSUME NEW S \in SUBSET D PROVE h[S] = body(h, S)
  <2>1. CASE S = {} BY <1>4, <2>1 DEF Folds
  <2>2. CASE S # {}
    <3>1. last[S] \in D /\ last[S] = Last(evs, S) BY <1>1, <2>2
    <3>2. h[S \ {last[S]}] \in Int BY <1>4 DEF Folds
    <3>3. h[S] = step[last[S]][h[S \ {last[S]}]] BY <1>4, <2>2 DEF Folds
    <3>4. PICK c \in Int : c = h[S \ {last[S]}] BY <3>2
    <3>5. step[last[S]][c] = body(h, S) BY <1>3, <2>2, <3>1, <3>4
    <3> QED BY <3>3, <3>4, <3>5
  <2> QED BY <2>1, <2>2
<1>6. h = [S \in SUBSET D |-> body(h, S)] BY <1>4, <1>5 DEF Folds
<1>7. chain = CHOOSE f : f = [S \in SUBSET D |-> body(f, S)] BY DEF ShiftChain
<1> HIDE DEF body
<1>8. chain = [S \in SUBSET D |-> body(chain, S)]
  <2> HIDE DEF chain
  <2> QED BY <1>6, <1>7
<1> HIDE DEF chain
<1> USE DEF body
<1>9. \A S \in SUBSET D : chain[S] = body(chain, S) BY <1>8
<1>10. \A S \in SUBSET D : chain[S] \in Int
  <2>1. ASSUME NEW S \in SUBSET D, S # {}, chain[S \ {last[S]}] \in Int PROVE chain[S] \in Int
    <3>1. chain[S] = ChainAfter(evs[last[S]], chain[S \ {last[S]}]) BY <1>1, <1>9, <2>1
    <3>2. last[S] \in D BY <1>1, <2>1
    <3> QED BY <2>1, <3>1, <3>2, ChainInt
  <2>2. chain[{}] \in Int BY <1>9
  <2>3. Picks(last, D) BY <1>1 DEF Picks
  <2> HIDE DEF body
  <2> QED BY <2>1, <2>2, <2>3, FoldTyped
<1>11. chain \in [SUBSET D -> Int] BY <1>8, <1>10
<1> QED BY <1>9, <1>11 DEF chain, ShiftsAlong

Stampable(e) ==
  e.sort \in Int /\ e.anchor \in {"start", "previous"} /\ e.offset \in Int

LEMMA StampChainIs ==
  ASSUME NEW steps, NEW start \in Int, IsFiniteSet(DOMAIN steps),
         Sortable(steps, DOMAIN steps), \A i \in DOMAIN steps : Stampable(steps[i])
  PROVE  /\ StampChain(steps, start) \in [SUBSET DOMAIN steps -> Int]
         /\ \A S \in SUBSET DOMAIN steps : S # {} =>
              StampChain(steps, start)[S] =
                steps[Last(steps, S)].offset +
                  IF steps[Last(steps, S)].anchor = "start" THEN start
                  ELSE StampChain(steps, start)[S \ {Last(steps, S)}]
<1> DEFINE D == DOMAIN steps
           last == [S \in SUBSET D |-> Last(steps, S)]
           step == [i \in D |-> [c \in Int |->
                      steps[i].offset + IF steps[i].anchor = "start" THEN start ELSE c]]
           body(f, S) == IF S = {} THEN start
                         ELSE steps[Last(steps, S)].offset +
                                IF steps[Last(steps, S)].anchor = "start" THEN start
                                ELSE f[S \ {Last(steps, S)}]
           chain == StampChain(steps, start)
<1>1. ASSUME NEW S \in SUBSET D, S # {} PROVE last[S] = Last(steps, S) /\ last[S] \in S
  <2>1. IsFiniteSet(S) /\ Sortable(steps, S) BY FS_Subset DEF Sortable
  <2> QED BY <1>1, <2>1, LastIsLast
<1>2. step \in [D -> [Int -> Int]] BY DEF Stampable
<1>3. \A i \in D, c \in Int :
        step[i][c] = steps[i].offset + IF steps[i].anchor = "start" THEN start ELSE c
  OBVIOUS
<1>7. chain = CHOOSE f : f = [S \in SUBSET D |-> body(f, S)] BY DEF StampChain
<1>a. IsFiniteSet(D) /\ \A i \in D : steps[i].offset \in Int BY DEF Stampable
<1> HIDE DEF last, step, D
<1>4. PICK h : Folds(h, D, Int, start, step, last)
  <2>1. Picks(last, D) BY <1>1 DEF Picks
  <2> HIDE DEF body, chain
  <2> QED BY <1>2, <1>a, <2>1, FoldExists
<1>5. ASSUME NEW S \in SUBSET D PROVE h[S] = body(h, S)
  <2>1. CASE S = {} BY <1>4, <2>1 DEF Folds
  <2>2. CASE S # {}
    <3>1. last[S] \in D /\ last[S] = Last(steps, S) BY <1>1, <2>2
    <3>2. h[S \ {last[S]}] \in Int BY <1>4 DEF Folds
    <3>3. h[S] = step[last[S]][h[S \ {last[S]}]] BY <1>4, <2>2 DEF Folds
    <3>4. PICK c \in Int : c = h[S \ {last[S]}] BY <3>2
    <3>5. step[last[S]][c] = body(h, S) BY <1>3, <2>2, <3>1, <3>4
    <3> QED BY <3>3, <3>4, <3>5
  <2> QED BY <2>1, <2>2
<1>6. h = [S \in SUBSET D |-> body(h, S)] BY <1>4, <1>5 DEF Folds
<1> HIDE DEF body
<1>8. chain = [S \in SUBSET D |-> body(chain, S)]
  <2> HIDE DEF chain
  <2> QED BY <1>6, <1>7
<1> HIDE DEF chain
<1> USE DEF body
<1>9. \A S \in SUBSET D : chain[S] = body(chain, S) BY <1>8
<1>10. \A S \in SUBSET D : chain[S] \in Int
  <2>1. ASSUME NEW S \in SUBSET D, S # {}, chain[S \ {last[S]}] \in Int PROVE chain[S] \in Int
    <3>1. last[S] \in D BY <1>1, <2>1
    <3>2. chain[S] = steps[last[S]].offset + IF steps[last[S]].anchor = "start" THEN start
                     ELSE chain[S \ {last[S]}]
      BY <1>1, <1>9, <2>1
    <3>3. steps[last[S]].offset \in Int BY <1>a, <3>1
    <3> HIDE DEF body
    <3> QED BY <2>1, <3>2, <3>3
  <2>2. chain[{}] \in Int BY <1>9
  <2>3. Picks(last, D) BY <1>1 DEF Picks
  <2> HIDE DEF body
  <2> QED BY <1>a, <2>1, <2>2, <2>3, FoldTyped
<1>11. chain \in [SUBSET D -> Int] BY <1>8, <1>10
<1> QED BY <1>9, <1>11 DEF chain, D

\* A set of places that holds with each one all that come before it.
Closed(s, D, T) == T \in SUBSET D /\ \A i \in T, j \in D : Before(s, j, i) => j \in T

Link(e) ==
  e.anchor # NULL /\ e.status # "skipped" /\ (Moves(e) \/ Date(e) # NULL)

\* What is no link hands the chain on; what is one and does not move, sets it.
LEMMA ChainByLink ==
  ASSUME NEW e, Dated(e), NEW c \in Int,
         e.anchor # NULL /\ e.status = "done" => e.completed # NULL
  PROVE  /\ ~Link(e) => ChainAfter(e, c) = c
         /\ Link(e) /\ ~Moves(e) => ChainAfter(e, c) = Date(e)
         /\ Link(e) /\ Moves(e) => ChainAfter(e, c) = c + OrElse(e.offset, 0)
<1>0. /\ Moves(e) => e.anchor = "previous" /\ e.status = "planned"
      /\ NULL # "previous"
  BY AnchorAssumption DEF Moves
<1>1. CASE e.anchor = NULL \/ e.status = "skipped" BY <1>0, <1>1 DEF ChainAfter, Link
<1>2. CASE e.anchor # NULL /\ e.status # "skipped" /\ Moves(e)
  BY <1>0, <1>2 DEF ChainAfter, Link
<1>3. CASE e.anchor # NULL /\ e.status = "done"
  <2>1. ~Moves(e) /\ e.completed # NULL BY <1>3 DEF Moves
  <2> QED BY <1>3, <2>1 DEF ChainAfter, Link, Date, OrElse
<1>4. CASE e.anchor # NULL /\ e.status = "planned" /\ ~Moves(e)
  BY <1>4 DEF ChainAfter, Link, Date, OrElse
<1> QED BY <1>1, <1>2, <1>3, <1>4 DEF Dated

\* So the chain at any place is the chain at the last link before it.
LEMMA ThroughLinks ==
  ASSUME NEW evs, NEW D, Shiftable(evs, D), NEW from, NEW chain,
         ShiftsAlong(chain, evs, D, from), NEW T, Closed(evs, D, T)
  PROVE  LET L == {i \in T : Link(evs[i])}
         IN  /\ L = {} => chain[T] = from
             /\ \A h \in L : (\A g \in L \ {h} : Before(evs, g, h)) =>
                  chain[T] = chain[UpTo(evs, D, h)]
<1> USE DEF Shiftable
<1> DEFINE L(U) == {i \in U : Link(evs[i])}
           Good(U) == /\ L(U) = {} => chain[U] = from
                      /\ \A h \in L(U) : (\A g \in L(U) \ {h} : Before(evs, g, h)) =>
                           chain[U] = chain[UpTo(evs, D, h)]
           F == {U \in SUBSET D : Closed(evs, D, U) /\ ~Good(U)}
<1>0. /\ chain[{}] = from
      /\ \A S \in SUBSET D : chain[S] \in Int
      /\ \A S \in SUBSET D : S # {} =>
           chain[S] = ChainAfter(evs[Last(evs, S)], chain[S \ {Last(evs, S)}])
  BY DEF ShiftsAlong
<1>1. SUFFICES ASSUME F # {} PROVE FALSE BY DEF Closed
<1>2. F \subseteq SUBSET D OBVIOUS
<1> HIDE DEF F
<1>3. PICK U \in F : \A V \in F : V \subseteq U => V = U BY <1>1, <1>2, LeastSet
<1> USE DEF F
<1>4. U # {} BY <1>0, <1>3
<1> DEFINE l == Last(evs, U)
           V == U \ {l}
<1>5. l \in U /\ \A j \in V : Before(evs, j, l)
  <2>1. IsFiniteSet(U) /\ Sortable(evs, U) BY <1>3, FS_Subset DEF Sortable
  <2> QED BY <1>4, <2>1, LastIsLast
<1>6. chain[U] = ChainAfter(evs[l], chain[V]) /\ V \in SUBSET D /\ l \in D
  BY <1>0, <1>3, <1>4, <1>5
<1> HIDE DEF l
<1>7. Closed(evs, D, V)
  <2>1. \A j \in U : ~Before(evs, l, j)
    BY <1>3, <1>5, <1>6, BeforeOrders
  <2> QED BY <1>3, <1>6, <2>1 DEF Closed
<1>8. U = UpTo(evs, D, l) BY <1>3, <1>5 DEF Closed, UpTo
<1>9. CASE Link(evs[l])
  <2>1. \A h \in L(U) : (\A g \in L(U) \ {h} : Before(evs, g, h)) => h = l
    <3>1. ASSUME NEW h \in L(U), \A g \in L(U) \ {h} : Before(evs, g, h), h # l PROVE FALSE
      <4>1. Before(evs, l, h) /\ Before(evs, h, l) BY <1>5, <1>9, <3>1
      <4>2. h \in D BY <1>3
      <4> QED BY <1>6, <4>1, <4>2, BeforeOrders
    <3> QED BY <3>1
  <2> QED BY <1>3, <1>5, <1>8, <1>9, <2>1
<1>10. CASE ~Link(evs[l])
  <2>1. L(U) = L(V) BY <1>10
  <2>2. chain[U] = chain[V] BY <1>0, <1>6, <1>10, ChainByLink
  <2>3. V \notin F BY <1>3, <1>5
  <2>4. Good(V) BY <1>6, <1>7, <2>3
  <2>5. Good(U) BY <2>1, <2>2, <2>4
  <2> QED BY <1>3, <2>5
<1> QED BY <1>9, <1>10

-----------------------------------------------------------------------------
(* One completion *)

LEMMA Places ==
  ASSUME TypeOK, StepsFit, NEW k
  PROVE  /\ Shiftable(events, Downstream(events, k))
         /\ IsFiniteSet(DOMAIN events) /\ Sortable(events, DOMAIN events)
         /\ \A i \in DOMAIN events : i \in Int /\ events[i] \in Event
<1>1. DOMAIN events = 1 .. Len(events) /\ Len(events) \in Nat
      /\ \A i \in DOMAIN events : events[i] \in Event
  BY DEF TypeOK
<1>2. IsFiniteSet(DOMAIN events) /\ \A i \in DOMAIN events : i \in Int
  BY <1>1, FS_Interval
<1>3. Downstream(events, k) \subseteq DOMAIN events BY DEF Downstream
<1>4. \A i \in DOMAIN events : Dated(events[i]) /\ events[i].sort \in Int
  BY <1>1 DEF Event, Opt, Dated
<1>5. Sortable(events, DOMAIN events) BY <1>2, <1>4 DEF Sortable
<1>6. IsFiniteSet(Downstream(events, k)) /\ Sortable(events, Downstream(events, k))
  BY <1>2, <1>3, <1>5, FS_Subset DEF Sortable
<1>7. \A i \in DOMAIN events :
        events[i].anchor # NULL /\ events[i].status = "done" => events[i].completed # NULL
  BY DEF StepsFit, Anchored
<1> QED BY <1>1, <1>2, <1>3, <1>4, <1>5, <1>6, <1>7 DEF Shiftable

\* The chain at a place that moves: what was ahead of it, passed on by it.
LEMMA ChainAtPlace ==
  ASSUME NEW evs, NEW D, Shiftable(evs, D), NEW from, NEW chain,
         ShiftsAlong(chain, evs, D, from), NEW i \in D
  PROVE  /\ chain[UpTo(evs, D, i)] = ChainAfter(evs[i], chain[Ahead(evs, D, i)])
         /\ chain[UpTo(evs, D, i)] \in Int /\ chain[Ahead(evs, D, i)] \in Int
         /\ Closed(evs, D, Ahead(evs, D, i))
<1>1. /\ UpTo(evs, D, i) \in SUBSET D /\ UpTo(evs, D, i) # {}
      /\ Ahead(evs, D, i) \in SUBSET D
      /\ Last(evs, UpTo(evs, D, i)) = i
      /\ UpTo(evs, D, i) \ {i} = Ahead(evs, D, i)
  BY Prefixes DEF Shiftable
<1>2. Closed(evs, D, Ahead(evs, D, i)) BY BeforeOrders DEF Shiftable, Closed, Ahead
<1> QED BY <1>1, <1>2 DEF ShiftsAlong

MovedTo(i, d) == ShiftChain(events, Downstream(events, events[i].sort), d)

LEMMA CompleteMoves ==
  ASSUME TypeOK, StepsFit, NEW i \in DOMAIN events, NEW d, d \in Int, Complete(i, d)
  PROVE  LET D == Downstream(events, events[i].sort) IN
         /\ events' = [j \in DOMAIN events |-> events'[j]]
         /\ events'[i] = [events[i] EXCEPT !.status = "done", !.completed = d]
         /\ \A j \in DOMAIN events \ {i} :
              events'[j] =
                IF j \in D /\ Moves(events[j])
                THEN [events[j] EXCEPT !.scheduled = MovedTo(i, d)[UpTo(events, D, j)]]
                ELSE events[j]
<1> DEFINE D == Downstream(events, events[i].sort)
           next(j) == MovedTo(i, d)[UpTo(events, D, j)]
           changes == ShiftAfterCompletion(events, events[i].sort, d)
           at(j) == IF \E c \in changes : c.id = j
                    THEN (CHOOSE c \in changes : c.id = j).date ELSE events[j].scheduled
<1>1. changes = {[id |-> j, date |-> next(j)] :
                   j \in {j \in D : Moves(events[j]) /\ events[j].scheduled # next(j)}}
  BY DEF ShiftAfterCompletion, MovedTo
<1>2. events' = [j \in DOMAIN events |->
                   IF j = i THEN [events[i] EXCEPT !.status = "done", !.completed = d]
                   ELSE [events[j] EXCEPT !.scheduled = at(j)]]
  BY DEF Complete
<1> HIDE DEF D, next, changes
<1>3. ASSUME NEW j \in DOMAIN events
      PROVE  at(j) = IF j \in D /\ Moves(events[j]) THEN next(j) ELSE events[j].scheduled
  <2>1. \A c \in changes : c.id = j =>
          c.date = next(j) /\ j \in D /\ Moves(events[j]) /\ events[j].scheduled # next(j)
    BY <1>1
  <2>2. ASSUME j \in D, Moves(events[j]), events[j].scheduled # next(j)
        PROVE  \E c \in changes : c.id = j
    <3> DEFINE c == [id |-> j, date |-> next(j)]
    <3>1. c \in changes BY <1>1, <2>2
    <3>2. c.id = j OBVIOUS
    <3> QED BY <3>1, <3>2
  <2> QED BY <2>1, <2>2
<1> HIDE DEF at
<1>4. ASSUME NEW j \in DOMAIN events \ {i}
      PROVE  events'[j] = IF j \in D /\ Moves(events[j])
                          THEN [events[j] EXCEPT !.scheduled = next(j)] ELSE events[j]
  <2>1. events'[j] = [events[j] EXCEPT !.scheduled = at(j)] BY <1>2, <1>4
  <2>2. CASE j \in D /\ Moves(events[j]) BY <1>3, <2>1, <2>2
  <2>3. CASE ~(j \in D /\ Moves(events[j]))
    <3>1. events[j] \in Event BY Places
    <3>2. events'[j] = [events[j] EXCEPT !.scheduled = events[j].scheduled]
      BY <1>3, <2>1, <2>3
    <3>3. events'[j] = events[j] BY <3>1, <3>2 DEF Event
    <3> QED BY <2>3, <3>3
  <2> QED BY <2>2, <2>3
<1>5. events' = [j \in DOMAIN events |-> events'[j]] BY <1>2
<1>6. events'[i] = [events[i] EXCEPT !.status = "done", !.completed = d] BY <1>2
<1> QED BY <1>4, <1>5, <1>6 DEF D, next

LEMMA CompleteReflows ==
  ASSUME TypeOK, StepsFit, NEW i \in Anchored, NEW d, d \in Int, Complete(i, d)
  PROVE  /\ Reflowed(i, d)
         /\ \A j \in Downstream(events, events[i].sort) :
              Moves(events[j]) => events'[j].scheduled \in Int
<1> DEFINE D == Downstream(events, events[i].sort)
           L == Links(events[i].sort)
           chain == MovedTo(i, d)
           before(j) == {h \in L : Before(events, h, j)}
<1>1. /\ Shiftable(events, D) /\ ShiftsAlong(chain, events, D, d)
      /\ i \in DOMAIN events /\ i \notin D
      /\ D \subseteq DOMAIN events
  <2>1. Shiftable(events, D) BY Places
  <2>2. ShiftsAlong(chain, events, D, d) BY <2>1, ShiftChainIs DEF MovedTo
  <2>3. i \in DOMAIN events /\ events[i].sort \in Int
    BY Places DEF Anchored, Sortable
  <2> QED BY <2>1, <2>2, <2>3 DEF Downstream
<1>2. /\ L = {h \in D : Link(events[h])}
      /\ L \subseteq D
  BY DEF Links, Link, Anchored, Downstream
<1>3. \A j \in D : Dated(events[j]) /\ events[j] \in Event
        /\ (events[j].anchor # NULL /\ events[j].status = "done" => events[j].completed # NULL)
  BY <1>1, Places DEF Shiftable
<1>4. \A j \in DOMAIN events \ {i} :
        events'[j] = IF j \in D /\ Moves(events[j])
                     THEN [events[j] EXCEPT !.scheduled = chain[UpTo(events, D, j)]]
                     ELSE events[j]
  BY <1>1, CompleteMoves
<1>5. \A j \in D : /\ chain[UpTo(events, D, j)] = ChainAfter(events[j], chain[Ahead(events, D, j)])
                   /\ chain[UpTo(events, D, j)] \in Int /\ chain[Ahead(events, D, j)] \in Int
                   /\ Closed(events, D, Ahead(events, D, j))
  <2> HIDE DEF D, chain
  <2> QED BY <1>1, ChainAtPlace
<1> HIDE DEF D, L, chain
<1>6. ASSUME NEW h \in L PROVE Date(events'[h]) = chain[UpTo(events, D, h)]
  <2>1. h \in D /\ h \in DOMAIN events \ {i} /\ Link(events[h]) BY <1>1, <1>2
  <2>2. CASE Moves(events[h])
    <3>1. events'[h] = [events[h] EXCEPT !.scheduled = chain[UpTo(events, D, h)]]
      BY <1>4, <2>1, <2>2
    <3>2. events[h] \in Event BY <1>3, <2>1
    <3> QED BY <2>2, <3>1, <3>2 DEF Date, Moves, Event
  <2>3. CASE ~Moves(events[h])
    <3>1. events'[h] = events[h] BY <1>4, <2>1, <2>3
    <3>2. chain[UpTo(events, D, h)] = Date(events[h])
      BY <1>3, <1>5, <2>1, <2>3, ChainByLink
    <3> QED BY <3>1, <3>2
  <2> QED BY <2>2, <2>3
<1>7. ASSUME NEW j \in L, Moves(events[j])
      PROVE  events'[j].scheduled = chain[Ahead(events, D, j)] + events[j].offset
  <2>1. j \in D /\ j \in DOMAIN events \ {i} /\ Link(events[j]) BY <1>1, <1>2
  <2>2. events'[j] = [events[j] EXCEPT !.scheduled = chain[UpTo(events, D, j)]]
    BY <1>4, <1>7, <2>1
  <2>3. events'[j].scheduled = chain[UpTo(events, D, j)]
    BY <1>3, <2>1, <2>2 DEF Event
  <2>4. events[j].offset # NULL BY <2>1 DEF StepsFit, Anchored, Link
  <2>5. chain[UpTo(events, D, j)] = chain[Ahead(events, D, j)] + OrElse(events[j].offset, 0)
    BY <1>3, <1>5, <1>7, <2>1, ChainByLink
  <2> QED BY <2>3, <2>4, <2>5 DEF OrElse
<1>8. ASSUME NEW j \in L
      PROVE  /\ before(j) = {h \in Ahead(events, D, j) : Link(events[h])}
             /\ before(j) # {} => \E h \in before(j) : \A g \in before(j) \ {h} : Before(events, g, h)
  <2>1. before(j) = {h \in Ahead(events, D, j) : Link(events[h])} BY <1>2 DEF Ahead
  <2>2. before(j) \subseteq D BY <1>2
  <2>3. IsFiniteSet(before(j)) /\ Sortable(events, before(j))
    BY <1>1, <2>2, FS_Subset DEF Shiftable, Sortable
  <2> HIDE DEF before
  <2> QED BY <2>1, <2>3, LastIsLast
<1>9. ASSUME NEW j \in L, Moves(events[j])
      PROVE  \/ before(j) = {} /\ events'[j].scheduled = d + events[j].offset
             \/ \E h \in before(j) :
                  /\ \A g \in before(j) \ {h} : Before(events, g, h)
                  /\ events'[j].scheduled = Date(events'[h]) + events[j].offset
  <2> DEFINE T == Ahead(events, D, j)
             K == {h \in T : Link(events[h])}
  <2>1. /\ K = {} => chain[T] = d
        /\ \A h \in K : (\A g \in K \ {h} : Before(events, g, h)) =>
             chain[T] = chain[UpTo(events, D, h)]
    <3>1. j \in D BY <1>2
    <3>2. Closed(events, D, T) BY <1>5, <3>1
    <3> HIDE DEF T
    <3> QED BY <1>1, <3>2, ThroughLinks
  <2>2. before(j) = K /\ before(j) \subseteq L BY <1>8
  <2>3. events'[j].scheduled = chain[T] + events[j].offset BY <1>7, <1>9
  <2>4. CASE before(j) = {} BY <2>1, <2>2, <2>3, <2>4
  <2>5. CASE before(j) # {}
    <3>1. PICK h \in before(j) : \A g \in before(j) \ {h} : Before(events, g, h) BY <1>8, <2>5
    <3>2. chain[T] = chain[UpTo(events, D, h)] BY <2>1, <2>2, <3>1
    <3>3. chain[UpTo(events, D, h)] = Date(events'[h]) BY <1>6, <2>2
    <3> QED BY <2>3, <3>1, <3>2, <3>3
  <2> QED BY <2>4, <2>5
<1>10. \A j \in DOMAIN events \ {i} : ~(j \in L /\ Moves(events[j])) => events'[j] = events[j]
  <2>1. \A j \in D : Moves(events[j]) => j \in L
    <3>1. "previous" # NULL BY AnchorAssumption
    <3> QED BY <1>2, <3>1 DEF Link, Moves
  <2> QED BY <1>4, <2>1
<1>11. ASSUME NEW j \in D, Moves(events[j]) PROVE events'[j].scheduled \in Int
  BY <1>1, <1>3, <1>4, <1>5, <1>11 DEF Event
<1> USE DEF L, D
<1> QED BY <1>9, <1>10, <1>11 DEF Reflowed
-----------------------------------------------------------------------------
(* The inductive invariant *)

\* No step of the batch changes what the recipe says of the events.
RestKept(i) ==
  /\ DOMAIN events' = DOMAIN events
  /\ \A j \in DOMAIN events :
       /\ events'[j].sort = events[j].sort /\ events'[j].anchor = events[j].anchor
       /\ events'[j].offset = events[j].offset
       /\ j # i => /\ events'[j].status = events[j].status
                   /\ events'[j].completed = events[j].completed

LEMMA FieldsTyped ==
  ASSUME NEW e, e \in Event, NEW d, d \in Int
  PROVE  /\ [e EXCEPT !.scheduled = d] \in Event
         /\ [e EXCEPT !.status = "skipped"] \in Event
         /\ [e EXCEPT !.status = "done", !.completed = d] \in Event
<1>1. \A s \in {"done", "skipped"} : [e EXCEPT !.status = s] \in Event BY DEF Event
<1>2. \A x \in Event : [x EXCEPT !.completed = d] \in Event BY DEF Event, Opt
<1>3. [e EXCEPT !.scheduled = d] \in Event BY DEF Event, Opt
<1>4. [e EXCEPT !.status = "done", !.completed = d]
        = [[e EXCEPT !.status = "done"] EXCEPT !.completed = d]
  OBVIOUS
<1> QED BY <1>1, <1>2, <1>3, <1>4

LEMMA CompleteKeeps ==
  ASSUME TypeOK, StepsFit, NEW i \in Anchored, NEW d, d \in Int, Complete(i, d)
  PROVE  /\ RestKept(i) /\ TypeOK' /\ StepsFit'
         /\ events[i].status = "planned" /\ events'[i].status = "done"
         /\ events'[i].completed = d /\ events'[i].scheduled = events[i].scheduled
<1> DEFINE D == Downstream(events, events[i].sort)
           next(j) == MovedTo(i, d)[UpTo(events, D, j)]
<1>1. i \in DOMAIN events BY DEF Anchored
<1>2. /\ events' = [j \in DOMAIN events |-> events'[j]]
      /\ events'[i] = [events[i] EXCEPT !.status = "done", !.completed = d]
      /\ \A j \in DOMAIN events \ {i} :
           events'[j] = IF j \in D /\ Moves(events[j])
                        THEN [events[j] EXCEPT !.scheduled = next(j)] ELSE events[j]
  BY <1>1, CompleteMoves
<1>3. \A j \in D : Moves(events[j]) => events'[j].scheduled \in Int BY CompleteReflows
<1>4. \A j \in DOMAIN events : events[j] \in Event BY Places
<1>5. DOMAIN events' = DOMAIN events BY <1>2
<1> HIDE DEF next, D
<1>6. ASSUME NEW j \in DOMAIN events \ {i}
      PROVE  /\ events'[j] \in Event
             /\ events'[j].sort = events[j].sort /\ events'[j].anchor = events[j].anchor
             /\ events'[j].offset = events[j].offset /\ events'[j].status = events[j].status
             /\ events'[j].completed = events[j].completed
  <2>1. CASE j \in D /\ Moves(events[j])
    <3>1. events'[j] = [events[j] EXCEPT !.scheduled = next(j)] /\ events[j] \in Event
      BY <1>2, <1>4, <2>1
    <3>2. events'[j].scheduled = next(j) BY <3>1 DEF Event
    <3>3. next(j) \in Int BY <1>3, <2>1, <3>2
    <3>4. [events[j] EXCEPT !.scheduled = next(j)] \in Event BY <3>1, <3>3, FieldsTyped
    <3> QED BY <3>1, <3>4
  <2>2. CASE ~(j \in D /\ Moves(events[j])) BY <1>2, <1>4, <2>2
  <2> QED BY <2>1, <2>2
<1>7. /\ events'[i] \in Event
      /\ events'[i].sort = events[i].sort /\ events'[i].anchor = events[i].anchor
      /\ events'[i].offset = events[i].offset /\ events'[i].status = "done"
      /\ events'[i].completed = d /\ events'[i].scheduled = events[i].scheduled
  <2>1. events[i] \in Event BY <1>1, <1>4
  <2>2. [events[i] EXCEPT !.status = "done", !.completed = d] \in Event
    BY <2>1, FieldsTyped
  <2>3. events'[i] \in Event BY <1>2, <2>2
  <2> QED BY <1>2, <2>1, <2>3 DEF Event
<1>8. RestKept(i) BY <1>5, <1>6, <1>7 DEF RestKept
<1>9. TypeOK'
  <2>1. DOMAIN events = 1 .. Len(events) /\ Len(events) \in Nat BY DEF TypeOK
  <2>2. \A j \in DOMAIN events : events'[j] \in Event BY <1>6, <1>7
  <2>3. events' \in [1 .. Len(events) -> Event] BY <1>2, <2>1, <2>2
  <2>4. events' \in Seq(Event) BY <2>1, <2>3
  <2> QED BY <2>4 DEF TypeOK, Complete
<1>10. StepsFit'
  <2>1. ASSUME NEW j \in Anchored'
        PROVE  /\ events'[j].offset # NULL
               /\ events'[j].status = "done" => events'[j].completed # NULL
               /\ events'[j].status = "skipped" => skips'
    <3>1. j \in Anchored BY <1>5, <1>8 DEF Anchored, RestKept
    <3>2. j \in DOMAIN events BY <3>1 DEF Anchored
    <3>3. skips' = skips BY DEF Complete
    <3>4. d # NULL BY NullAssumption
    <3> QED BY <1>7, <1>8, <3>1, <3>2, <3>3, <3>4 DEF StepsFit, RestKept
  <2> QED BY <2>1 DEF StepsFit
<1>11. events[i].status = "planned" BY DEF Complete
<1> QED BY <1>7, <1>8, <1>9, <1>10, <1>11

LEMMA SkipKeeps ==
  ASSUME TypeOK, StepsFit, NEW i \in DOMAIN events, Skip(i)
  PROVE  /\ RestKept(i) /\ TypeOK' /\ StepsFit'
         /\ events'[i].status = "skipped" /\ \A j \in DOMAIN events \ {i} : events'[j] = events[j]
<1>1. events \in Seq(Event) /\ DOMAIN events = 1 .. Len(events)
      /\ \A j \in DOMAIN events : events[j] \in Event
  BY Places DEF TypeOK
<1>2. /\ events' = [events EXCEPT ![i] = [events[i] EXCEPT !.status = "skipped"]]
      /\ skips'
  BY DEF Skip
<1>3. [events[i] EXCEPT !.status = "skipped"] \in Event
  <2>1. 0 \in Int OBVIOUS
  <2> QED BY <1>1, <2>1, FieldsTyped
<1>4. TypeOK' BY <1>1, <1>2, <1>3 DEF TypeOK, Skip
<1>5. events'[i] = [events[i] EXCEPT !.status = "skipped"] /\ events[i] \in Event BY <1>1, <1>2
<1>6. DOMAIN events' = DOMAIN events /\ \A j \in DOMAIN events \ {i} : events'[j] = events[j]
  BY <1>1, <1>2
<1>7. events'[i].status = "skipped" /\ RestKept(i) BY <1>5, <1>6 DEF RestKept, Event
<1>8. StepsFit' BY <1>2, <1>6, <1>7 DEF StepsFit, Anchored, RestKept
<1> QED BY <1>4, <1>6, <1>7, <1>8
\* The order of the steps is what it was, and so is who comes right before whom.
LEMMA OrderKept ==
  ASSUME NEW i, RestKept(i)
  PROVE  /\ Anchored' = Anchored
         /\ \A a, b \in Anchored : /\ Before(events', a, b) <=> Before(events, a, b)
                                   /\ Precedes(a, b)' <=> Precedes(a, b)
         /\ SortsApart' <=> SortsApart
         /\ (\A a, b \in Anchored : a < b => events[a].sort <= events[b].sort) =>
              (\A a, b \in Anchored : a < b => events[a].sort <= events[b].sort)'
<1>1. Anchored' = Anchored /\ Anchored \subseteq DOMAIN events BY DEF RestKept, Anchored
<1>2. \A a \in Anchored : events'[a].sort = events[a].sort BY <1>1 DEF RestKept
<1>3. \A a, b \in Anchored : Before(events', a, b) <=> Before(events, a, b)
  BY <1>2 DEF Before
<1>4. \A a, b \in Anchored : Precedes(a, b)' <=> Precedes(a, b)
  BY <1>1, <1>3 DEF Precedes
<1>5. SortsApart' <=> SortsApart BY <1>1, <1>2 DEF SortsApart
<1> QED BY <1>1, <1>2, <1>3, <1>4, <1>5

\* No two places are both before one another.
LEMMA AnchoredOrder ==
  ASSUME TypeOK, StepsFit
  PROVE  /\ \A a, b \in Anchored : Before(events, a, b) => ~Before(events, b, a)
         /\ \A a, b, c \in Anchored :
              Before(events, a, b) /\ Before(events, b, c) => Before(events, a, c)
         /\ \A a \in Anchored : ~Before(events, a, a)
         /\ \A a, b \in Anchored : Before(events, a, b) \/ a = b \/ Before(events, b, a)
<1>1. Sortable(events, DOMAIN events) /\ Anchored \subseteq DOMAIN events
  BY Places DEF Anchored
<1> QED BY <1>1, BeforeOrders

LEMMA CompleteStampsAnew ==
  ASSUME IInv, NEW i \in Anchored, NEW d, d \in Int, Complete(i, d)
  PROVE  AsIfStampedAnew'
<1> USE DEF IInv
<1> DEFINE D == Downstream(events, events[i].sort)
           L == Links(events[i].sort)
<1>1. /\ RestKept(i) /\ events[i].status = "planned" /\ events'[i].status = "done"
      /\ events'[i].completed = d
  BY CompleteKeeps
<1>2. (\A a, b \in Anchored : a < b => events[a].sort <= events[b].sort)'
  BY <1>1, OrderKept DEF AsIfStampedAnew
<1>3. ASSUME SortsApart', NEW a \in Anchored', NEW b \in Anchored', Precedes(a, b)', Moves(events[b])',
             events'[a].status # "skipped", Date(events[a])' # NULL, events'[b].scheduled # NULL
      PROVE  events'[b].scheduled = Date(events[a])' + events'[b].offset
  <2>1. /\ a \in Anchored /\ b \in Anchored /\ SortsApart /\ Precedes(a, b)
        /\ Before(events, a, b) /\ \A h \in Anchored : ~(Before(events, a, h) /\ Before(events, h, b))
    BY <1>1, <1>3, OrderKept DEF Precedes
  <2>2. a \in DOMAIN events /\ b \in DOMAIN events BY <2>1 DEF Anchored
  <2>3. b # i BY <1>1, <1>3 DEF Moves
  <2>4. /\ Moves(events[b]) /\ events'[b].offset = events[b].offset
        /\ a # i => events[a].status # "skipped" /\ events'[a].status = events[a].status
                    /\ events'[a].completed = events[a].completed
    BY <1>1, <1>3, <2>2, <2>3 DEF RestKept, Moves
  <2>5. Reflowed(i, d) BY CompleteReflows
  <2>6. \A j \in DOMAIN events \ {i} : ~(j \in L /\ Moves(events[j])) => events'[j] = events[j]
    BY <2>5 DEF Reflowed
  <2>7. \A j \in Anchored \ {i} : j \in D <=> Before(events, i, j)
    <3>1. \A j \in Anchored : j \in DOMAIN events /\ events[j].sort \in Int
      BY Places DEF Anchored, Sortable
    <3> QED BY <2>1, <3>1 DEF SortsApart, Before, Downstream
  <2>8. CASE b \notin D
    <3>1. ~Before(events, i, b) BY <2>1, <2>3, <2>7, <2>8
    <3>2. a # i /\ ~Before(events, i, a) BY <2>1, <3>1, AnchoredOrder
    <3>3. a \notin D BY <2>1, <2>7, <3>2
    <3>4. events'[a] = events[a] /\ events'[b] = events[b]
      BY <2>2, <2>3, <2>6, <2>8, <3>2, <3>3 DEF Links
    <3> QED BY <1>3, <2>1, <2>4, <3>2, <3>4 DEF AsIfStampedAnew, Date
  <2>9. CASE b \in D
    <3> DEFINE before == {h \in L : Before(events, h, b)}
    <3>1. b \in L BY <2>1, <2>4, <2>9 DEF Links, Moves
    <3>2. \/ before = {} /\ events'[b].scheduled = d + events[b].offset
          \/ \E h \in before :
               /\ \A g \in before \ {h} : Before(events, g, h)
               /\ events'[b].scheduled = Date(events'[h]) + events[b].offset
      BY <2>2, <2>3, <2>4, <2>5, <3>1 DEF Reflowed
    <3>3. \A h \in L : h \in Anchored /\ h \in D /\ h # i /\ Before(events, i, h)
      <4>1. \A h \in L : h \in Anchored /\ h \in D BY DEF Links
      <4>2. i \notin D
        <5>1. events[i].sort \in Int BY Places DEF Anchored, Sortable
        <5> QED BY <5>1 DEF Downstream
      <4> QED BY <2>7, <4>1, <4>2
    <3>4. CASE a = i
      <4>1. before = {} BY <2>1, <3>3, <3>4
      <4>2. Date(events[a])' = d BY <1>1, <3>4 DEF Date
      <4> QED BY <2>4, <3>2, <4>1, <4>2
    <3>5. CASE a # i
      <4>1. Before(events, i, b) BY <2>1, <2>3, <2>7, <2>9
      <4>2. Before(events, i, a) BY <2>1, <3>5, <4>1, AnchoredOrder
      <4>3. a \in D BY <2>1, <2>7, <3>5, <4>2
      <4>4. a \in L
        <5>1. CASE Moves(events[a]) BY <2>1, <2>4, <3>5, <4>3, <5>1 DEF Links
        <5>2. CASE ~Moves(events[a])
          <6>1. events'[a] = events[a] BY <2>2, <2>6, <3>5, <5>2
          <6>2. Date(events[a]) # NULL BY <1>3, <6>1 DEF Date
          <6> QED BY <2>1, <2>4, <3>5, <4>3, <6>2 DEF Links
        <5> QED BY <5>1, <5>2
      <4>5. a \in before BY <2>1, <4>4
      <4>6. PICK h \in before : /\ \A g \in before \ {h} : Before(events, g, h)
                               /\ events'[b].scheduled = Date(events'[h]) + events[b].offset
        BY <3>2, <4>5
      <4>7. h = a BY <2>1, <3>3, <4>5, <4>6
      <4>8. Date(events[a])' = Date(events'[a]) BY DEF Date
      <4> QED BY <2>4, <4>6, <4>7, <4>8
    <3> QED BY <3>4, <3>5
  <2> QED BY <2>8, <2>9
<1> QED BY <1>2, <1>3 DEF AsIfStampedAnew

LEMMA SkipStampsAnew ==
  ASSUME IInv, NEW i \in DOMAIN events, Skip(i)
  PROVE  AsIfStampedAnew'
<1> USE DEF IInv
<1>1. /\ RestKept(i) /\ events'[i].status = "skipped"
      /\ \A j \in DOMAIN events \ {i} : events'[j] = events[j]
  BY SkipKeeps
<1>2. (\A a, b \in Anchored : a < b => events[a].sort <= events[b].sort)'
  BY <1>1, OrderKept DEF AsIfStampedAnew
<1>3. ASSUME SortsApart', NEW a \in Anchored', NEW b \in Anchored', Precedes(a, b)', Moves(events[b])',
             events'[a].status # "skipped", Date(events[a])' # NULL, events'[b].scheduled # NULL
      PROVE  events'[b].scheduled = Date(events[a])' + events'[b].offset
  <2>1. a \in Anchored /\ b \in Anchored /\ SortsApart /\ Precedes(a, b)
    BY <1>1, <1>3, OrderKept
  <2>2. a # i /\ b # i BY <1>1, <1>3 DEF Moves
  <2>3. events'[a] = events[a] /\ events'[b] = events[b] BY <1>1, <2>1, <2>2 DEF Anchored
  <2>4. Moves(events[b]) /\ Date(events[a])' = Date(events[a]) BY <1>3, <2>3 DEF Moves, Date
  <2> QED BY <1>3, <2>1, <2>3, <2>4 DEF AsIfStampedAnew
<1> QED BY <1>2, <1>3 DEF AsIfStampedAnew

LEMMA StepKeeps == IInv /\ [Next]_vars => IInv'
<1> SUFFICES ASSUME IInv, [Next]_vars PROVE IInv' OBVIOUS
<1> USE DEF IInv
<1>1. ASSUME NEW i \in DOMAIN events, Skip(i) PROVE IInv'
  BY <1>1, SkipKeeps, SkipStampsAnew
<1>2. ASSUME NEW i \in DOMAIN events, NEW d \in Day, Complete(i, d) PROVE IInv'
  <2>1. d \in Int BY DayAssumption
  <2>2. i \in Anchored BY <1>2 DEF Complete, Anchored
  <2> QED BY <1>2, <2>1, <2>2, CompleteKeeps, CompleteStampsAnew
<1>3. CASE UNCHANGED vars
  <2>1. events' = events /\ skips' = skips BY <1>3 DEF vars
  <2> QED BY <2>1 DEF TypeOK, StepsFit, AsIfStampedAnew, Anchored, SortsApart, Precedes, Before,
                       Moves, Date
<1> QED BY <1>1, <1>2, <1>3 DEF Next
-----------------------------------------------------------------------------
(* The stamped schedule *)

Place(s, D, i) == Cardinality(UpTo(s, D, i))

\* Every place from the first to the last is taken, in the order of the sort.
LEMMA PlacesTaken ==
  ASSUME NEW s, NEW N, N \in Nat, Sortable(s, 1 .. N)
  PROVE  LET D == 1 .. N IN
         /\ \A i \in D : Place(s, D, i) \in D
         /\ \A i, j \in D : Before(s, i, j) => Place(s, D, i) < Place(s, D, j)
         /\ \A n \in D : \E i \in D : Place(s, D, i) = n
<1> DEFINE D == 1 .. N
           up(i) == UpTo(s, D, i)
           place == [i \in D |-> Place(s, D, i)]
<1>1. IsFiniteSet(D) /\ Cardinality(D) = N BY FS_Interval
<1>2. ASSUME NEW i \in D
      PROVE  up(i) \in SUBSET D /\ i \in up(i) /\ IsFiniteSet(up(i)) /\ Place(s, D, i) \in D
  <2>1. up(i) \in SUBSET D /\ i \in up(i) BY DEF UpTo
  <2>2. IsFiniteSet(up(i)) /\ Cardinality(up(i)) <= N BY <1>1, <2>1, FS_Subset
  <2>3. Cardinality(up(i)) \in Nat /\ Cardinality(up(i)) # 0
    BY <2>1, <2>2, FS_CardinalityType, FS_EmptySet
  <2> QED BY <2>1, <2>2, <2>3 DEF Place
<1>3. ASSUME NEW i \in D, NEW j \in D, Before(s, i, j)
      PROVE  Place(s, D, i) < Place(s, D, j)
  <2>0. i \in D /\ j \in D /\ Sortable(s, D) OBVIOUS
  <2> HIDE DEF D
  <2>1. up(i) \subseteq up(j) /\ j \notin up(i) BY <1>3, <2>0, BeforeOrders DEF UpTo
  <2>2. up(i) # up(j) BY <1>2, <2>1
  <2>3. Cardinality(up(i)) <= Cardinality(up(j)) /\ Cardinality(up(i)) # Cardinality(up(j))
    BY <1>2, <2>1, <2>2, FS_Subset
  <2>4. Cardinality(up(i)) \in Nat /\ Cardinality(up(j)) \in Nat BY <1>2, FS_CardinalityType
  <2> QED BY <2>3, <2>4 DEF Place
<1>4. place \in Injection(D, D)
  <2>1. place \in [D -> D] BY <1>2
  <2>2. ASSUME NEW i \in D, NEW j \in D, place[i] = place[j] PROVE i = j
    <3>1. Before(s, i, j) \/ i = j \/ Before(s, j, i) BY BeforeOrders
    <3>2. Place(s, D, i) = Place(s, D, j) /\ Place(s, D, i) \in Int BY <1>2, <2>2
    <3> QED BY <1>3, <3>1, <3>2
  <2> QED BY <2>1, <2>2 DEF Injection, IsInjective
<1>5. place \in Surjection(D, D) BY <1>1, <1>4, FS_Injection
<1>6. \A n \in D : \E i \in D : Place(s, D, i) = n BY <1>5 DEF Surjection
<1> QED BY <1>2, <1>3, <1>6
Follows(evs, n) ==
  evs[n + 1].anchor = "previous" => evs[n + 1].scheduled = evs[n].scheduled + evs[n + 1].offset

Fresh(e) ==
  /\ e \in Event /\ e.status = "planned" /\ e.completed = NULL /\ e.scheduled \in Int
  /\ e.anchor \in {"start", "previous"} /\ e.offset \in Int

\* The stamped events stand in the order of their sort indexes, and one that
\* counts from the previous is dated from the one it stands next to.
LEMMA StampedInOrder ==
  ASSUME NEW steps, steps \in Seq(Step), NEW start, start \in Int
  PROVE  LET stamped == StampSchedule(steps, start) IN
         /\ stamped \in Seq(Event)
         /\ \A n \in DOMAIN stamped : Fresh(stamped[n])
         /\ \A a, b \in DOMAIN stamped : a < b => stamped[a].sort <= stamped[b].sort
         /\ \A n \in DOMAIN stamped : n + 1 \in DOMAIN stamped => Follows(stamped, n)
<1> DEFINE N == Len(steps)
           D == 1 .. N
           chain == StampChain(steps, start)
           at(n) == CHOOSE i \in D : Place(steps, D, i) = n
           stamp(i) == [sort |-> steps[i].sort, status |-> "planned", anchor |-> steps[i].anchor,
                        offset |-> steps[i].offset, scheduled |-> chain[UpTo(steps, D, i)],
                        completed |-> NULL]
           stamped == StampSchedule(steps, start)
<1>1. N \in Nat /\ DOMAIN steps = D /\ \A i \in D : steps[i] \in Step OBVIOUS
<1>2. IsFiniteSet(D) /\ Sortable(steps, D) /\ \A i \in D : Stampable(steps[i])
  <2>1. IsFiniteSet(D) BY <1>1, FS_Interval
  <2>2. \A i \in D : i \in Int OBVIOUS
  <2> HIDE DEF D
  <2>3. \A i \in D : Stampable(steps[i]) BY <1>1 DEF Stampable, Step
  <2> QED BY <2>1, <2>2, <2>3 DEF Sortable, Stampable
<1>3. stamped = [n \in D |-> stamp(at(n))] BY <1>1 DEF StampSchedule, Place
<1>4. /\ chain \in [SUBSET D -> Int]
      /\ \A S \in SUBSET D : S # {} =>
           chain[S] = steps[Last(steps, S)].offset +
                        IF steps[Last(steps, S)].anchor = "start" THEN start
                        ELSE chain[S \ {Last(steps, S)}]
  BY <1>1, <1>2, StampChainIs
<1>5. /\ \A i \in D : Place(steps, D, i) \in D
      /\ \A i, j \in D : Before(steps, i, j) => Place(steps, D, i) < Place(steps, D, j)
      /\ \A n \in D : \E i \in D : Place(steps, D, i) = n
  BY <1>1, <1>2, PlacesTaken
<1>a. D \subseteq Int OBVIOUS
<1> HIDE DEF chain, stamped, D, N
<1>6. \A n \in D : at(n) \in D /\ Place(steps, D, at(n)) = n BY <1>5
<1> HIDE DEF at
<1>b. \A i, j \in D : Before(steps, i, j) => Place(steps, D, i) < Place(steps, D, j)
  BY <1>5
<1>7. ASSUME NEW a \in D, NEW b \in D PROVE Before(steps, at(a), at(b)) <=> a < b
  <2>1. at(a) \in D /\ at(b) \in D /\ a \in Int /\ b \in Int BY <1>6, <1>a
  <2>6. Place(steps, D, at(a)) = a /\ Place(steps, D, at(b)) = b BY <1>6
  <2>2. Before(steps, at(a), at(b)) => a < b BY <1>b, <2>1, <2>6
  <2>3. Before(steps, at(b), at(a)) => b < a BY <1>b, <2>1, <2>6
  <2>4. at(a) = at(b) => a = b BY <2>6
  <2>5. Before(steps, at(a), at(b)) \/ at(a) = at(b) \/ Before(steps, at(b), at(a))
    BY <1>2, <2>1, BeforeOrders
  <2> QED BY <2>1, <2>2, <2>3, <2>4, <2>5
<1>8. ASSUME NEW i \in D
      PROVE  /\ UpTo(steps, D, i) \in SUBSET D /\ chain[UpTo(steps, D, i)] \in Int
             /\ steps[i].anchor = "previous" =>
                  chain[UpTo(steps, D, i)] = steps[i].offset + chain[Ahead(steps, D, i)]
  <2>1. /\ UpTo(steps, D, i) \in SUBSET D /\ UpTo(steps, D, i) # {}
        /\ Last(steps, UpTo(steps, D, i)) = i
        /\ UpTo(steps, D, i) \ {i} = Ahead(steps, D, i)
    BY <1>2, Prefixes
  <2> QED BY <1>4, <2>1
<1>9. ASSUME NEW i \in D PROVE Fresh(stamp(i))
  <2>1. /\ steps[i].sort \in Int /\ steps[i].anchor \in {"start", "previous"}
        /\ steps[i].offset \in Int /\ chain[UpTo(steps, D, i)] \in Int
    BY <1>2, <1>8 DEF Stampable
  <2>2. stamp(i) \in Event BY <2>1 DEF Event, Opt
  <2> QED BY <2>1, <2>2 DEF Fresh
<1>10. \A n \in D : stamped[n] = stamp(at(n)) BY <1>3
<1>11. \A n \in D : Fresh(stamped[n]) BY <1>6, <1>9, <1>10
<1>12. stamped \in Seq(Event) /\ DOMAIN stamped = D
  <2> HIDE DEF stamp
  <2>1. DOMAIN stamped = D BY <1>3
  <2>2. stamped \in [1 .. N -> Event] BY <1>3, <1>10, <1>11 DEF Fresh, D
  <2>3. stamped \in Seq(Event) BY <1>1, <2>2
  <2> QED BY <2>1, <2>3
<1>13. ASSUME NEW a \in D, NEW b \in D, a < b PROVE stamped[a].sort <= stamped[b].sort
  <2>1. Before(steps, at(a), at(b)) BY <1>7, <1>13
  <2>2. at(a) \in D /\ at(b) \in D BY <1>6
  <2>3. steps[at(a)].sort \in Int /\ steps[at(b)].sort \in Int BY <1>2, <2>2 DEF Sortable
  <2>4. steps[at(a)].sort <= steps[at(b)].sort BY <2>1, <2>3 DEF Before
  <2>5. stamped[a] = stamp(at(a)) /\ stamped[b] = stamp(at(b)) BY <1>10
  <2>6. stamped[a].sort = steps[at(a)].sort /\ stamped[b].sort = steps[at(b)].sort BY <2>5
  <2> QED BY <2>4, <2>6
<1>14. ASSUME NEW n \in D, n + 1 \in D PROVE Follows(stamped, n)
  <2> DEFINE i == at(n)
             j == at(n + 1)
             A == Ahead(steps, D, j)
  <2>1. i \in D /\ j \in D /\ n \in Int /\ n < n + 1 BY <1>6, <1>14, <1>a
  <2>2. i \in A
    <3>1. Before(steps, i, j) BY <1>7, <1>14, <2>1
    <3> QED BY <2>1, <3>1 DEF Ahead
  <2>3. /\ A \in SUBSET D /\ Last(steps, A) \in A
        /\ A = UpTo(steps, D, Last(steps, A))
    <3> HIDE DEF i, j
    <3> QED BY <1>2, <2>1, <2>2, Prefixes
  <2>4. Last(steps, A) = i
    <3> DEFINE l == Last(steps, A)
               m == Place(steps, D, l)
    <3>1. l \in D /\ m \in D /\ Before(steps, l, j) BY <1>5, <2>3 DEF Ahead
    <3>2. m < n + 1
      <4>1. Place(steps, D, j) = n + 1 BY <1>6, <1>14
      <4> HIDE DEF i, j, l
      <4>2. m < Place(steps, D, j) BY <1>5, <2>1, <3>1
      <4> QED BY <4>1, <4>2
    <3>3. i = l \/ Before(steps, i, l) BY <2>2, <2>3 DEF UpTo
    <3>4. Before(steps, i, l) => n < m BY <1>5, <1>6, <2>1, <3>1
    <3>5. m \in Int /\ n \in Int BY <1>a, <3>1
    <3> HIDE DEF i, j, l, m
    <3>6. ~(n < m /\ m < n + 1) BY <3>5
    <3>7. i = l BY <3>2, <3>3, <3>4, <3>6
    <3> QED BY <3>7 DEF l
  <2>5. stamped[n] = stamp(i) /\ stamped[n + 1] = stamp(j) BY <1>10, <1>14
  <2>6. steps[j].anchor = "previous" =>
          chain[UpTo(steps, D, j)] = steps[j].offset + chain[UpTo(steps, D, i)]
    BY <1>8, <2>1, <2>3, <2>4
  <2>7. steps[j].offset \in Int /\ chain[UpTo(steps, D, i)] \in Int
    BY <1>2, <1>8, <2>1 DEF Stampable
  <2> HIDE DEF i, j
  <2>8. stamped[n].scheduled = chain[UpTo(steps, D, i)]
        /\ stamped[n + 1].scheduled = chain[UpTo(steps, D, j)]
        /\ stamped[n + 1].offset = steps[j].offset /\ stamped[n + 1].anchor = steps[j].anchor
    BY <2>5
  <2> QED BY <2>6, <2>7, <2>8 DEF Follows
<1> QED BY <1>11, <1>12, <1>13, <1>14 DEF stamped
\* A batch as it is started: the stamped events, some without their date, and the
\* freeform ones behind them.
LEMMA Started ==
  ASSUME NEW stamped, stamped \in Seq(Event), NEW undated, NEW logged,
         logged \in Seq(Freeform),
         \A n \in DOMAIN stamped : Fresh(stamped[n]),
         events = [i \in DOMAIN stamped |->
                     IF i \in undated THEN [stamped[i] EXCEPT !.scheduled = NULL]
                     ELSE stamped[i]] \o logged
  PROVE  /\ events \in Seq(Event) /\ Anchored = 1 .. Len(stamped)
         /\ \A n \in DOMAIN stamped :
              /\ events[n].scheduled \in {stamped[n].scheduled, NULL}
              /\ events[n].sort = stamped[n].sort /\ events[n].status = "planned"
              /\ events[n].anchor = stamped[n].anchor /\ events[n].offset = stamped[n].offset
<1> DEFINE N == Len(stamped)
           D == 1 .. N
           cut(n) == IF n \in undated THEN [stamped[n] EXCEPT !.scheduled = NULL] ELSE stamped[n]
           f == [n \in DOMAIN stamped |-> cut(n)]
<1>1. N \in Nat /\ DOMAIN stamped = D /\ \A n \in D : stamped[n] \in Event OBVIOUS
<1>2. ASSUME NEW n \in D
      PROVE  /\ cut(n) \in Event /\ cut(n).scheduled \in {stamped[n].scheduled, NULL}
             /\ cut(n).sort = stamped[n].sort /\ cut(n).status = "planned"
             /\ cut(n).anchor = stamped[n].anchor /\ cut(n).offset = stamped[n].offset
             /\ cut(n).anchor # NULL
  <2>1. stamped[n] \in Event /\ stamped[n].status = "planned"
        /\ stamped[n].anchor \in {"start", "previous"}
    BY <1>1 DEF Fresh
  <2>2. [stamped[n] EXCEPT !.scheduled = NULL] \in Event BY <2>1 DEF Event, Opt
  <2>3. stamped[n].anchor # NULL BY <2>1, AnchorAssumption
  <2> QED BY <2>1, <2>2, <2>3 DEF Event
<1>3. f \in Seq(Event) /\ Len(f) = N /\ \A n \in D : f[n] = cut(n)
  <2> HIDE DEF cut
  <2>1. f \in [1 .. N -> Event] BY <1>1, <1>2
  <2> QED BY <1>1, <2>1
<1>4. events = f \o logged OBVIOUS
<1>5. /\ logged \in Seq(Event) /\ Len(logged) \in Nat
      /\ \A n \in 1 .. Len(logged) : logged[n].anchor = NULL
  <2>1. Len(logged) \in Nat /\ \A n \in 1 .. Len(logged) : logged[n] \in Freeform OBVIOUS
  <2>2. \A e \in Freeform : e \in Event /\ e.anchor = NULL BY DEF Freeform
  <2>3. logged \in [1 .. Len(logged) -> Event] BY <2>1, <2>2
  <2> QED BY <2>1, <2>2, <2>3
<1> HIDE DEF f, cut, N
<1>6. /\ events \in Seq(Event) /\ DOMAIN events = 1 .. N + Len(logged)
      /\ \A n \in 1 .. N + Len(logged) :
           events[n] = IF n <= N THEN f[n] ELSE logged[n - N]
  <2>1. /\ f \o logged \in Seq(Event) /\ Len(f \o logged) = N + Len(logged)
        /\ \A n \in 1 .. N + Len(logged) :
             (f \o logged)[n] = IF n <= N THEN f[n] ELSE logged[n - N]
    BY <1>3, <1>5, ConcatProperties
  <2>2. events \in Seq(Event) /\ Len(events) = N + Len(logged) BY <1>4, <2>1
  <2>3. DOMAIN events = 1 .. N + Len(logged) BY <2>2
  <2>4. \A n \in 1 .. N + Len(logged) : events[n] = IF n <= N THEN f[n] ELSE logged[n - N]
    BY <1>4, <2>1
  <2> QED BY <2>2, <2>3, <2>4
<1>7. \A n \in D : n \in DOMAIN events /\ events[n] = cut(n)
  <2>1. \A n \in D : n \in 1 .. N + Len(logged) /\ n <= N BY <1>1, <1>5
  <2> HIDE DEF D
  <2> QED BY <1>3, <1>6, <2>1
<1>8. \A n \in DOMAIN events \ D : events[n].anchor = NULL
  <2>1. SUFFICES ASSUME NEW n \in DOMAIN events \ D PROVE events[n].anchor = NULL OBVIOUS
  <2>2. n \in Int /\ ~(n <= N) /\ n - N \in 1 .. Len(logged) BY <1>1, <1>5, <1>6, <2>1
  <2> QED BY <1>5, <1>6, <2>1, <2>2
<1>9. Anchored = D BY <1>2, <1>7, <1>8 DEF Anchored
<1>10. ASSUME NEW n \in DOMAIN stamped
       PROVE  /\ events[n].scheduled \in {stamped[n].scheduled, NULL}
              /\ events[n].sort = stamped[n].sort /\ events[n].status = "planned"
              /\ events[n].anchor = stamped[n].anchor /\ events[n].offset = stamped[n].offset
  <2>1. n \in D BY <1>1
  <2> HIDE DEF cut, D
  <2>2. events[n] = cut(n) BY <1>7, <2>1
  <2> QED BY <1>2, <2>1, <2>2
<1>11. Anchored = 1 .. Len(stamped) BY <1>9 DEF N
<1>12. events \in Seq(Event)
  <2> HIDE DEF cut, D, f, N
  <2> QED BY <1>6
<1> QED BY <1>10, <1>11, <1>12

LEMMA InitFits == Init => IInv
<1> SUFFICES ASSUME Init PROVE IInv OBVIOUS
<1>1. PICK steps \in Recipe, logged \in Logged :
        \E undated \in {S \in SUBSET DOMAIN StampSchedule(steps, 0) : Cardinality(S) <= 1} :
          events = [i \in DOMAIN StampSchedule(steps, 0) |->
                      IF i \in undated THEN [StampSchedule(steps, 0)[i] EXCEPT !.scheduled = NULL]
                      ELSE StampSchedule(steps, 0)[i]] \o logged
  BY DEF Init
<1> DEFINE stamped == StampSchedule(steps, 0)
           D == 1 .. Len(stamped)
<1>2. PICK undated : events = [i \in DOMAIN stamped |->
                                 IF i \in undated THEN [stamped[i] EXCEPT !.scheduled = NULL]
                                 ELSE stamped[i]] \o logged
  BY <1>1
<1>3. steps \in Seq(Step) /\ logged \in Seq(Freeform) /\ 0 \in Int
  <2>1. steps \in Seq(Step) BY RecipeAssumption
  <2>2. logged \in Seq(Freeform) BY LoggedAssumption
  <2> QED BY <2>1, <2>2
<1>4. /\ stamped \in Seq(Event)
      /\ \A n \in DOMAIN stamped : Fresh(stamped[n])
      /\ \A a, b \in DOMAIN stamped : a < b => stamped[a].sort <= stamped[b].sort
      /\ \A n \in DOMAIN stamped : n + 1 \in DOMAIN stamped => Follows(stamped, n)
  BY <1>3, StampedInOrder
<1> HIDE DEF stamped
<1>5. /\ events \in Seq(Event) /\ Anchored = D /\ DOMAIN stamped = D
      /\ \A n \in D :
           /\ events[n].scheduled \in {stamped[n].scheduled, NULL}
           /\ events[n].sort = stamped[n].sort /\ events[n].status = "planned"
           /\ events[n].anchor = stamped[n].anchor /\ events[n].offset = stamped[n].offset
  <2>1. DOMAIN stamped = D BY <1>4
  <2> QED BY <1>2, <1>3, <1>4, <2>1, Started
<1>6. TypeOK BY <1>5 DEF TypeOK, Init
<1>7. StepsFit BY <1>4, <1>5, NullAssumption DEF StepsFit, Fresh
<1>8. \A a, b \in D : a < b => events[a].sort <= events[b].sort BY <1>4, <1>5
<1>9. ASSUME NEW a \in D, NEW b \in D, Precedes(a, b) PROVE b = a + 1
  <2>0. D \subseteq Int /\ \A n \in D : n \in DOMAIN events /\ events[n].sort \in Int
    <3>1. D \subseteq Int OBVIOUS
    <3>2. \A n \in D : n \in DOMAIN events /\ events[n] \in Event
      BY <1>5, <1>6, Places, <1>7 DEF Anchored
    <3> QED BY <3>1, <3>2 DEF Event
  <2>1. a < b BY <1>8, <1>9, <2>0 DEF Precedes, Before
  <2>2. a + 1 \in D BY <2>1
  <2>3. SUFFICES ASSUME a + 1 < b PROVE FALSE BY <2>1
  <2>4. Before(events, a, a + 1) /\ Before(events, a + 1, b)
    <3>1. events[a].sort <= events[a + 1].sort /\ events[a + 1].sort <= events[b].sort
      BY <1>8, <2>2, <2>3
    <3> QED BY <2>0, <2>2, <2>3, <3>1 DEF Before
  <2> QED BY <1>5, <1>9, <2>2, <2>4 DEF Precedes
<1>10. ASSUME NEW a \in D, NEW b \in D, Precedes(a, b), Moves(events[b]),
              Date(events[a]) # NULL, events[b].scheduled # NULL
       PROVE  events[b].scheduled = Date(events[a]) + events[b].offset
  <2>1. b = a + 1 BY <1>9, <1>10
  <2>2. Follows(stamped, a) BY <1>4, <1>5, <2>1
  <2>3. Date(events[a]) = stamped[a].scheduled /\ events[b].scheduled = stamped[b].scheduled
        /\ events[b].offset = stamped[b].offset
    BY <1>5, <1>10 DEF Date
  <2>4. stamped[b].anchor = "previous" BY <1>5, <1>10 DEF Moves
  <2> QED BY <2>1, <2>2, <2>3, <2>4 DEF Follows
<1>11. AsIfStampedAnew BY <1>5, <1>8, <1>10 DEF AsIfStampedAnew
<1> QED BY <1>6, <1>7, <1>11 DEF IInv
\* The first step in order that would move could move only because the one right
\* before it has another day now.
LEMMA OnTimeStep ==
  ASSUME IInv, NEW i \in Anchored, SortsApart, ~skips,
         \A j \in Anchored : events[j].scheduled # NULL,
         Complete(i, events[i].scheduled), NEW k \in DOMAIN events
  PROVE  events'[k].scheduled = events[k].scheduled
<1> USE DEF IInv
<1> DEFINE d == events[i].scheduled
           Bad == {j \in DOMAIN events : events'[j].scheduled # events[j].scheduled}
           ahead(j) == Ahead(events, DOMAIN events, j)
           F == {ahead(j) : j \in Bad}
<1>1. /\ IsFiniteSet(DOMAIN events) /\ Sortable(events, DOMAIN events)
      /\ \A j \in DOMAIN events : j \in Int /\ events[j] \in Event
      /\ Anchored \subseteq DOMAIN events
  BY Places DEF Anchored
<1>2. d \in Int
  <2>1. events[i] \in Event BY <1>1
  <2> QED BY <2>1 DEF Event, Opt
<1>3. /\ RestKept(i) /\ events[i].status = "planned" /\ events'[i].status = "done"
      /\ events'[i].completed = d /\ events'[i].scheduled = d
      /\ AsIfStampedAnew'
  BY <1>2, CompleteKeeps, CompleteStampsAnew
<1>4. /\ Reflowed(i, d)
      /\ \A j \in Downstream(events, events[i].sort) :
           Moves(events[j]) => events'[j].scheduled \in Int
  BY <1>2, CompleteReflows
<1>5. SUFFICES ASSUME Bad # {} PROVE FALSE OBVIOUS
<1>6. F \subseteq SUBSET DOMAIN events /\ F # {} BY <1>5 DEF Ahead
<1> HIDE DEF F
<1>7. PICK T \in F : \A U \in F : U \subseteq T => U = T BY <1>1, <1>6, LeastSet
<1> USE DEF F
<1>8. PICK j \in Bad : T = ahead(j) BY <1>7
<1>9. \A h \in Bad : ~Before(events, h, j)
  <2>1. SUFFICES ASSUME NEW h \in Bad, Before(events, h, j) PROVE FALSE OBVIOUS
  <2>2. ahead(h) \subseteq ahead(j) BY <1>1, <2>1, BeforeOrders DEF Ahead
  <2>3. h \in ahead(j) /\ h \notin ahead(h) BY <1>1, <2>1, BeforeOrders DEF Ahead
  <2> QED BY <1>7, <1>8, <2>2, <2>3
<1>10. j \in DOMAIN events /\ j # i /\ j \in Links(events[i].sort) /\ Moves(events[j])
  BY <1>3, <1>4 DEF Reflowed
<1>11. j \in Anchored /\ j \in Downstream(events, events[i].sort) /\ Before(events, i, j)
       /\ events'[j].scheduled \in Int
  BY <1>4, <1>10 DEF Links, Downstream, Before
<1> DEFINE B == {h \in Anchored : Before(events, h, j)}
<1>12. PICK p \in B : \A h \in B \ {p} : Before(events, h, p)
  <2>1. B \subseteq DOMAIN events /\ i \in B BY <1>1, <1>11
  <2>2. IsFiniteSet(B) /\ Sortable(events, B) BY <1>1, <2>1, FS_Subset DEF Sortable
  <2> HIDE DEF B
  <2> QED BY <2>1, <2>2, LastIsLast
<1>13. p \in Anchored /\ Precedes(p, j)
  <2>1. \A h \in B : ~Before(events, p, h) BY <1>12, AnchoredOrder
  <2> QED BY <1>12, <2>1 DEF Precedes
<1>14. events[p].status # "skipped" BY <1>13 DEF StepsFit
<1>15. events[p].status = "done" => events[p].completed # NULL BY <1>13 DEF StepsFit
<1>16. Date(events[p]) # NULL BY <1>13, <1>15 DEF Date
<1>17. events[j].scheduled = Date(events[p]) + events[j].offset
  BY <1>10, <1>11, <1>13, <1>14, <1>16 DEF AsIfStampedAnew
<1>18. /\ events'[p].status # "skipped" /\ Date(events[p])' = Date(events[p])
       /\ Moves(events[j])' /\ events'[j].offset = events[j].offset
  <2>1. Moves(events[j])' /\ events'[j].offset = events[j].offset
    BY <1>3, <1>10 DEF RestKept, Moves
  <2>2. CASE p = i BY <1>3, <2>1, <2>2 DEF Date
  <2>3. CASE p # i
    <3>1. p \in DOMAIN events /\ p \notin Bad BY <1>1, <1>9, <1>12
    <3>2. events'[p].scheduled = events[p].scheduled BY <3>1
    <3>3. events'[p].status = events[p].status /\ events'[p].completed = events[p].completed
      BY <1>3, <2>3, <3>1 DEF RestKept
    <3> QED BY <1>14, <2>1, <3>2, <3>3 DEF Date
  <2> QED BY <2>2, <2>3
<1>19. j \in Anchored' /\ p \in Anchored' /\ Precedes(p, j)' /\ SortsApart'
  BY <1>3, <1>11, <1>13, OrderKept
<1>20. events'[j].scheduled # NULL BY <1>11, NullAssumption
<1>21. events'[j].scheduled = Date(events[p])' + events'[j].offset
  BY <1>3, <1>16, <1>18, <1>19, <1>20 DEF AsIfStampedAnew
<1> QED BY <1>8, <1>17, <1>18, <1>21

-----------------------------------------------------------------------------
(* The theorems *)

LEMMA Invariance == Spec => []IInv
<1>1. Init => IInv BY InitFits
<1>2. IInv /\ [Next]_vars => IInv' BY StepKeeps
<1> QED BY <1>1, <1>2, PTL DEF Spec

\* For any recipe of any length, any freeform events and any order of completions
\* and skips, on any days: a step that counts from the one before it stays as many
\* days after the day that one really took place as the recipe says
\* (StampSchedule, ShiftAfterCompletion).
THEOREM MovedAsStamped == Spec => []AsIfStampedAnew
<1>1. IInv => AsIfStampedAnew BY DEF IInv
<1> QED BY <1>1, Invariance, PTL

\* For the same: each completion dates every later planned step from the last link
\* of the chain before it, from the day of completion where there is none, and
\* moves nothing else (ShiftAfterCompletion's loop over the sorted events).
THEOREM ReflowFollowsChain == Spec => ReflowedFromActual
<1>1. IInv /\ [Next]_vars =>
        [\A i \in Anchored, d \in Day : Complete(i, d) => Reflowed(i, d)]_vars
  <2>1. SUFFICES ASSUME IInv, NEW i \in Anchored, NEW d \in Day, Complete(i, d)
                 PROVE  Reflowed(i, d)
    OBVIOUS
  <2>2. d \in Int BY DayAssumption
  <2> QED BY <2>1, <2>2, CompleteReflows DEF IInv
<1>2. Spec => [][\A i \in Anchored, d \in Day : Complete(i, d) => Reflowed(i, d)]_vars
  BY <1>1, Invariance, PTL DEF Spec
<1> QED BY <1>2 DEF ReflowedFromActual

\* For the same: where nothing was skipped or shares a sort index and every step is
\* dated, a step done on its day moves nothing, so StampSchedule and
\* ShiftAfterCompletion add up the same days.
THEOREM OnTimeStays == Spec => OnTimeMovesNothing
<1> DEFINE Stays == \A i \in Anchored :
                      /\ SortsApart /\ ~skips
                      /\ \A j \in Anchored : events[j].scheduled # NULL
                      /\ Complete(i, events[i].scheduled)
                      => \A j \in DOMAIN events : events'[j].scheduled = events[j].scheduled
<1>1. IInv /\ [Next]_vars => [Stays]_vars BY OnTimeStep
<1>2. Spec => [][Stays]_vars
  <2> HIDE DEF Stays
  <2> QED BY <1>1, Invariance, PTL DEF Spec
<1> QED BY <1>2 DEF OnTimeMovesNothing
-----------------------------------------------------------------------------
(* The rules of the event types *)

Keys == {"count", "drinkFrom", "drinkTo", "ingredientId", "kmetaG", "label",
         "location", "qty", "sizeMl", "sorbateG", "targetFg", "unit"}

RuleFits(rule) ==
  /\ rule.kind \in {"string", "day", "number", "int"} /\ rule.required \in BOOLEAN
  /\ rule.min \in Opt(Int) /\ rule.max \in Opt(Int)
  /\ rule.kind = "int" => rule.min = 100 /\ rule.max = NULL

LEMMA RulesFit ==
  ASSUME NEW t, t \in DOMAIN eventRules
  PROVE  /\ DOMAIN eventRules[t] \subseteq Keys
         /\ \A k \in DOMAIN eventRules[t] : RuleFits(eventRules[t][k])
<1>1. DOMAIN eventRules[t] \subseteq Keys BY DEF eventRules, Keys
<1>2. RuleFits(May("string")) /\ RuleFits(May("day"))
  BY DEF RuleFits, May, Rule, Opt
<1>3. RuleFits(Must("string", NULL)) /\ RuleFits(Must("number", 0)) /\ RuleFits(Must("int", 100))
  BY DEF RuleFits, Must, Rule, Opt
<1>4. RuleFits(Within(0, NULL)) /\ RuleFits(Within(90, 120))
  BY DEF RuleFits, Within, Rule, Opt
<1> DEFINE Fit(type) == \A k \in DOMAIN eventRules[type] : RuleFits(eventRules[type][k])
<1>5. Fit("measurement") /\ Fit("racking") /\ Fit("note")
  <2>1. Fit("measurement") BY <1>2 DEF eventRules
  <2>2. Fit("racking") BY <1>2 DEF eventRules
  <2>3. Fit("note") BY <1>2 DEF eventRules
  <2> QED BY <2>1, <2>2, <2>3
<1>6. Fit("addition") BY <1>2, <1>3 DEF eventRules
<1>7. Fit("stabilize") /\ Fit("sweeten") BY <1>2, <1>4 DEF eventRules
<1>8. Fit("bottling") BY <1>2, <1>3 DEF eventRules
<1>9. t \in {"measurement", "addition", "racking", "stabilize", "sweeten", "bottling", "note"}
  BY DEF eventRules
<1> QED BY <1>1, <1>5, <1>6, <1>7, <1>8, <1>9

LEMMA RanksApart ==
  /\ IsFiniteSet(Keys)
  /\ \A k \in Keys : Rank(k) \in Int
  /\ \A j, k \in Keys : Rank(j) = Rank(k) => j = k
<1>1. \A k \in Keys : \E i \in DOMAIN KeyOrder : KeyOrder[i] = k BY DEF KeyOrder, Keys
<1>2. \A k \in Keys : Rank(k) \in DOMAIN KeyOrder /\ KeyOrder[Rank(k)] = k BY <1>1 DEF Rank
<1>3. DOMAIN KeyOrder = 1 .. 12 BY DEF KeyOrder
<1>4. IsFiniteSet(Keys)
  <2> DEFINE rank == [k \in Keys |-> Rank(k)]
  <2>1. rank \in Injection(Keys, 1 .. 12)
    <3> HIDE DEF Keys
    <3> QED BY <1>2, <1>3 DEF Injection, IsInjective
  <2>2. 1 \in Int /\ 12 \in Int OBVIOUS
  <2>3. IsFiniteSet(1 .. 12) BY <2>2, FS_Interval
  <2> HIDE DEF rank
  <2> QED BY <2>1, <2>3, FS_Injection
<1> QED BY <1>2, <1>3, <1>4
\* Of any keys one is the last and one the first in their order.
LEMMA KeyEnds ==
  ASSUME NEW S, S \subseteq Keys, S # {}
  PROVE  /\ LastKey(S) \in S /\ \A j \in S : Rank(j) <= Rank(LastKey(S))
         /\ FirstKey(S) \in S /\ \A j \in S : Rank(FirstKey(S)) <= Rank(j)
<1>1. IsFiniteSet(S) /\ \A j \in S : Rank(j) \in Int BY RanksApart, FS_Subset
<1> DEFINE Over(j) == {i \in S : Rank(j) < Rank(i)}
           Under(j) == {i \in S : Rank(i) < Rank(j)}
           F == {Over(j) : j \in S}
           G == {Under(j) : j \in S}
<1>2. F \subseteq SUBSET S /\ F # {} /\ G \subseteq SUBSET S /\ G # {} OBVIOUS
<1>3. \E k \in S : \A j \in S : Rank(j) <= Rank(k)
  <2> HIDE DEF F
  <2>1. PICK T \in F : \A U \in F : U \subseteq T => U = T BY <1>1, <1>2, LeastSet
  <2> USE DEF F
  <2>2. PICK k \in S : T = Over(k) BY <2>1
  <2>3. ASSUME NEW j \in S, ~(Rank(j) <= Rank(k)) PROVE FALSE
    <3>1. Rank(k) < Rank(j) BY <1>1, <2>3
    <3>2. Over(j) \subseteq Over(k) BY <1>1, <3>1
    <3>3. j \in Over(k) /\ j \notin Over(j) BY <1>1, <3>1
    <3> QED BY <2>1, <2>2, <3>2, <3>3
  <2> QED BY <2>3
<1>4. \E k \in S : \A j \in S : Rank(k) <= Rank(j)
  <2> HIDE DEF G
  <2>1. PICK T \in G : \A U \in G : U \subseteq T => U = T BY <1>1, <1>2, LeastSet
  <2> USE DEF G
  <2>2. PICK k \in S : T = Under(k) BY <2>1
  <2>3. ASSUME NEW j \in S, ~(Rank(k) <= Rank(j)) PROVE FALSE
    <3>1. Rank(j) < Rank(k) BY <1>1, <2>3
    <3>2. Under(j) \subseteq Under(k) BY <1>1, <3>1
    <3>3. j \in Under(k) /\ j \notin Under(j) BY <1>1, <3>1
    <3> QED BY <2>1, <2>2, <3>2, <3>3
  <2> QED BY <2>3
<1> QED BY <1>3, <1>4 DEF LastKey, FirstKey

-----------------------------------------------------------------------------
(* What ValidateEventData computes *)

Bad(rule, data, k) == IF Absent(data, k) THEN Lacking(rule) ELSE Problem(rule, data[k]) # NULL
Why(rule, data, k) == IF Absent(data, k) THEN "is required" ELSE Problem(rule, data[k])
BadIn(rules, data, S) == {k \in S : Bad(rules[k], data, k)}
Kept(data, S) == [k \in {k \in S : ~Absent(data, k)} |-> data[k]]

Outcome(rules, data, S) ==
  IF BadIn(rules, data, S) = {} THEN Clean(Kept(data, S))
  ELSE LET k == FirstKey(BadIn(rules, data, S)) IN Invalid(k, Why(rules[k], data, k))

LEMMA BadHasWhy ==
  ASSUME NEW rule, NEW data, NEW k, Bad(rule, data, k) PROVE Why(rule, data, k) # NULL
<1>1. "is required" # NULL BY WhyAssumption DEF Whys
<1> QED BY <1>1 DEF Bad, Why

\* What one turn of the loop does with what it has.
LEMMA OneTurn ==
  ASSUME NEW rule, NEW data, NEW k, NEW acc
  PROVE  /\ acc.why # NULL => Checked(rule, data, k, acc) = acc
         /\ acc.why = NULL =>
              IF Bad(rule, data, k) THEN Checked(rule, data, k, acc) = Invalid(k, Why(rule, data, k))
              ELSE IF Absent(data, k) THEN Checked(rule, data, k, acc) = acc
              ELSE Checked(rule, data, k, acc) = Clean(With(acc.out, k, data[k]))
<1>1. acc.why # NULL => Checked(rule, data, k, acc) = acc BY DEF Checked
<1>2. CASE Absent(data, k) BY <1>1, <1>2 DEF Checked, Bad, Why
<1>3. CASE ~Absent(data, k) BY <1>1, <1>3 DEF Checked, Bad, Why
<1> QED BY <1>1, <1>2, <1>3

\* One turn of the loop takes the outcome one key further.
LEMMA OutcomeTurns ==
  ASSUME NEW rules, NEW data, NEW S, S \subseteq Keys, S # {}
  PROVE  LET k == LastKey(S) IN
         Outcome(rules, data, S) = Checked(rules[k], data, k, Outcome(rules, data, S \ {k}))
<1> DEFINE k == LastKey(S)
           V == S \ {k}
           B(T) == BadIn(rules, data, T)
<1>1. k \in S /\ \A j \in S : Rank(j) <= Rank(k) BY KeyEnds
<1> HIDE DEF k
<1>2. B(S) = IF Bad(rules[k], data, k) THEN B(V) \cup {k} ELSE B(V) BY <1>1 DEF BadIn
<1>3. B(V) \subseteq V /\ B(S) \subseteq S BY DEF BadIn
<1>4. CASE B(V) # {}
  <2> DEFINE f == FirstKey(B(V))
             g == FirstKey(B(S))
  <2>1. f \in B(V) /\ \A j \in B(V) : Rank(f) <= Rank(j)
    <3>1. B(V) \subseteq Keys BY <1>3
    <3> HIDE DEF B
    <3> QED BY <1>4, <3>1, KeyEnds
  <2>2. g \in B(S) /\ \A j \in B(S) : Rank(g) <= Rank(j)
    <3>1. B(S) \subseteq Keys /\ B(S) # {} BY <1>2, <1>3, <1>4
    <3> HIDE DEF B
    <3> QED BY <3>1, KeyEnds
  <2> HIDE DEF f, g, B
  <2>3. f \in B(S) /\ Rank(f) <= Rank(k) /\ f \in Keys /\ g \in Keys
    BY <1>1, <1>2, <1>3, <2>1, <2>2
  <2>4. Rank(f) <= Rank(g) BY <1>2, <2>1, <2>2, <2>3
  <2>5. f = g
    <3>1. Rank(g) <= Rank(f) /\ Rank(f) \in Int /\ Rank(g) \in Int BY <2>2, <2>3, RanksApart
    <3>2. Rank(f) = Rank(g) BY <2>4, <3>1
    <3> QED BY <2>3, <3>2, RanksApart
  <2>6. Outcome(rules, data, V) = Invalid(f, Why(rules[f], data, f)) BY <1>4 DEF Outcome, f, B
  <2>7. Outcome(rules, data, S) = Invalid(g, Why(rules[g], data, g))
    BY <1>2, <1>4 DEF Outcome, g, B
  <2>8. Why(rules[f], data, f) # NULL BY <2>1, BadHasWhy DEF B, BadIn
  <2>9. Outcome(rules, data, V).why # NULL BY <2>6, <2>8 DEF Invalid
  <2>10. Checked(rules[k], data, k, Outcome(rules, data, V)) = Outcome(rules, data, V)
    BY <2>9, OneTurn
  <2> QED BY <2>5, <2>6, <2>7, <2>10 DEF k
<1>5. CASE B(V) = {}
  <2>1. Outcome(rules, data, V) = Clean(Kept(data, V)) BY <1>5 DEF Outcome
  <2> DEFINE acc == Clean(Kept(data, V))
  <2>4. acc.why = NULL /\ acc.out = Kept(data, V) BY DEF Clean
  <2> HIDE DEF acc
  <2>2. CASE Bad(rules[k], data, k)
    <3>1. B(S) = {k} BY <1>2, <1>5, <2>2
    <3>2. FirstKey({k}) = k
      <4>1. {k} \subseteq Keys /\ {k} # {} BY <1>1
      <4>2. FirstKey({k}) \in {k} BY <4>1, KeyEnds
      <4> QED BY <4>2
    <3>3. Outcome(rules, data, S) = Invalid(k, Why(rules[k], data, k)) BY <3>1, <3>2 DEF Outcome
    <3>4. Checked(rules[k], data, k, acc) = Invalid(k, Why(rules[k], data, k))
      BY <2>2, <2>4, OneTurn
    <3> QED BY <2>1, <3>3, <3>4 DEF k, acc
  <2>3. CASE ~Bad(rules[k], data, k)
    <3>1. Outcome(rules, data, S) = Clean(Kept(data, S)) BY <1>2, <1>5, <2>3 DEF Outcome
    <3>2. CASE Absent(data, k)
      <4>1. Kept(data, S) = Kept(data, V) BY <1>1, <3>2 DEF Kept
      <4>2. Checked(rules[k], data, k, acc) = acc BY <2>3, <2>4, <3>2, OneTurn
      <4> QED BY <2>1, <3>1, <4>1, <4>2 DEF k, acc
    <3>3. CASE ~Absent(data, k)
      <4>1. Kept(data, S) = With(Kept(data, V), k, data[k]) BY <1>1, <3>3 DEF Kept, With
      <4>2. Checked(rules[k], data, k, acc) = Clean(With(acc.out, k, data[k]))
        BY <2>3, <2>4, <3>3, OneTurn
      <4> QED BY <2>1, <2>4, <3>1, <4>1, <4>2 DEF k, acc
    <3> QED BY <3>2, <3>3
  <2> QED BY <2>2, <2>3
<1> QED BY <1>4, <1>5 DEF k

LEMMA LoopComputes ==
  ASSUME NEW rules, DOMAIN rules \subseteq Keys, NEW data
  PROVE  Passed(rules, data)[DOMAIN rules] = Outcome(rules, data, DOMAIN rules)
<1> DEFINE D == DOMAIN rules
           body(f, S) == IF S = {} THEN Clean(<<>>)
                         ELSE LET k == LastKey(S) IN Checked(rules[k], data, k, f[S \ {k}])
           h == [S \in SUBSET D |-> Outcome(rules, data, S)]
           p == Passed(rules, data)
<1>1. IsFiniteSet(D) BY RanksApart, FS_Subset
<1>2. ASSUME NEW S \in SUBSET D, S # {} PROVE S \subseteq Keys /\ LastKey(S) \in S
  <2>1. S \subseteq Keys OBVIOUS
  <2> QED BY <1>2, <2>1, KeyEnds
<1> HIDE DEF D
<1>3. ASSUME NEW S \in SUBSET D PROVE h[S] = body(h, S)
  <2>1. CASE S = {}
    <3>1. Kept(data, {}) = <<>> BY DEF Kept
    <3> QED BY <2>1, <3>1 DEF Outcome, BadIn
  <2>2. CASE S # {}
    <3>1. S \subseteq Keys /\ S \ {LastKey(S)} \in SUBSET D BY <1>2, <2>2
    <3>2. h[S \ {LastKey(S)}] = Outcome(rules, data, S \ {LastKey(S)}) BY <3>1
    <3> QED BY <2>2, <3>1, <3>2, OutcomeTurns
  <2> QED BY <2>1, <2>2
<1>4. h = [S \in SUBSET D |-> body(h, S)]
  <2>1. h = [S \in SUBSET D |-> h[S]] OBVIOUS
  <2> HIDE DEF h, body
  <2> QED BY <1>3, <2>1
<1>5. p = CHOOSE f : f = [S \in SUBSET D |-> body(f, S)] BY DEF Passed, D
<1> HIDE DEF h, body, p
<1>6. p = [S \in SUBSET D |-> body(p, S)] BY <1>4, <1>5
<1>7. \A S \in SUBSET D : p[S] = body(p, S) BY <1>6
<1> DEFINE F == {S \in SUBSET D : p[S] # h[S]}
<1>8. F = {}
  <2>1. SUFFICES ASSUME F # {} PROVE FALSE OBVIOUS
  <2>2. F \subseteq SUBSET D OBVIOUS
  <2> HIDE DEF F
  <2>3. PICK T \in F : \A U \in F : U \subseteq T => U = T BY <1>1, <2>1, <2>2, LeastSet
  <2> USE DEF F
  <2>4. p[T] = body(p, T) /\ h[T] = body(h, T) BY <1>3, <1>7, <2>3
  <2>5. CASE T = {} BY <2>3, <2>4, <2>5 DEF body
  <2>6. CASE T # {}
    <3>1. LastKey(T) \in T BY <1>2, <2>3, <2>6
    <3>2. T \ {LastKey(T)} \notin F /\ T \ {LastKey(T)} \in SUBSET D BY <2>3, <3>1
    <3>3. p[T \ {LastKey(T)}] = h[T \ {LastKey(T)}] BY <3>2
    <3> QED BY <2>3, <2>4, <2>6, <3>3 DEF body
  <2> QED BY <2>5, <2>6
<1>9. D \in SUBSET D /\ p[D] = h[D] BY <1>8
<1> QED BY <1>9 DEF h, p, D
-----------------------------------------------------------------------------
(* The verdict on a payload *)

\* A value of 2^63 for a whole number, which the machine may read either way.
EdgeAt(rule, data, k) ==
  k \in DOMAIN data /\ rule.kind = "int" /\ data[k] = [is |-> "number", val |-> 100 * Wide]

LEMMA BackAndForth ==
  ASSUME saturates \in BOOLEAN, NEW n, n \in Int, n # 100 * (Wide - 1), n >= 100
  PROVE  /\ saturates \/ n # 100 * Wide =>
              (n = BackToFloat(Int64(n)) <=> (n % 100 = 0 /\ n <= 100 * Wide))
         /\ n = BackToFloat(Int64(n)) => Int64(n) >= 1 /\ n \in {100 * Int64(n), 100 * Wide}
<1> DEFINE w == n \div 100
<1>1. w \in Int /\ n = 100 * w + (n % 100) /\ n % 100 \in 0 .. 99 OBVIOUS
<1>2. Wide \in Int /\ Wide > 1 BY WideAssumption
<1> HIDE DEF w
<1>3. w >= 1 BY <1>1
<1>4. Int64(n) = IF w < Wide THEN w ELSE IF saturates THEN Wide - 1 ELSE -Wide
  BY <1>2, <1>3 DEF Int64, w
<1>5. CASE w < Wide BY <1>1, <1>2, <1>3, <1>4, <1>5 DEF BackToFloat
<1>6. CASE ~(w < Wide) /\ saturates
  <2>1. Int64(n) = Wide - 1 BY <1>4, <1>6
  <2>2. BackToFloat(Int64(n)) = 100 * Wide BY <2>1 DEF BackToFloat
  <2> QED BY <1>1, <1>2, <1>6, <2>1, <2>2
<1>7. CASE ~(w < Wide) /\ ~saturates
  <2>1. BackToFloat(Int64(n)) = 100 * (-Wide) BY <1>2, <1>4, <1>7 DEF BackToFloat
  <2> QED BY <1>1, <1>2, <1>7, <2>1
<1> QED BY <1>5, <1>6, <1>7

\* Off that edge a field is bad for the code just when it does not fit its rule.
LEMMA KeyVerdict ==
  ASSUME saturates \in BOOLEAN, NEW rule, RuleFits(rule), NEW data, IsData(data), NEW k,
         saturates \/ ~EdgeAt(rule, data, k)
  PROVE  FieldFits(rule, data, k) <=> ~Bad(rule, data, k)
<1>1. CASE Absent(data, k) BY <1>1 DEF FieldFits, Bad, Absent, Lacking
<1>2. CASE ~Absent(data, k)
  <2> DEFINE v == data[k]
  <2>1. k \in DOMAIN data /\ v \in Value /\ v.is # "null" BY <1>2 DEF Absent, IsData
  <2>2. Bad(rule, data, k) <=> Problem(rule, v) # NULL BY <1>2 DEF Bad
  <2>3. \A w \in Whys : w # NULL BY WhyAssumption
  <2>4. "must be a string" # NULL /\ "must be a date" # NULL /\ "must be a number" # NULL
        /\ "must be an integer" # NULL /\ "must be positive" # NULL /\ "must be at most" # NULL
    BY <2>3 DEF Whys
  <2>5. CASE rule.kind = "string" BY <2>1, <2>2, <2>4, <2>5 DEF FieldFits, Problem
  <2>6. CASE rule.kind = "day" BY <2>1, <2>2, <2>4, <2>6 DEF FieldFits, Problem
  <2>7. CASE rule.kind \in {"number", "int"} /\ v.is # "number"
    BY <2>1, <2>2, <2>4, <2>7 DEF FieldFits, Problem
  <2>8. CASE rule.kind \in {"number", "int"} /\ v.is = "number"
    <3> DEFINE n == v.val
               whole == rule.kind = "int" => n = BackToFloat(Int64(n))
    <3>1. v = [is |-> "number", val |-> n] /\ n \in Int /\ n # 100 * (Wide - 1)
      BY <2>1, <2>8 DEF Value
    <3>2. rule.min \in Opt(Int) /\ rule.max \in Opt(Int)
          /\ (rule.kind = "int" => rule.min = 100 /\ rule.max = NULL) BY DEF RuleFits
    <3>3. NULL \notin Int BY NullAssumption
    <3>4. Problem(rule, v) = NULL <=>
            whole /\ ~BelowMin(rule, n) /\ ~AboveMax(rule, n)
      <4> HIDE DEF v
      <4> QED BY <2>4, <2>8 DEF Problem
    <3>5. ~BelowMin(rule, n) <=> (rule.min # NULL => n >= rule.min) /\ (rule.min = 0 => n > 0)
      BY <3>1, <3>2, <3>3 DEF BelowMin, Opt
    <3>6. ~AboveMax(rule, n) <=> (rule.max # NULL => n <= rule.max)
      BY <3>1, <3>2, <3>3 DEF AboveMax, Opt
    <3>7. FieldFits(rule, data, k) <=>
            /\ rule.kind = "int" => n % 100 = 0 /\ n <= 100 * Wide
            /\ rule.min # NULL => n >= rule.min
            /\ rule.min = 0 => n > 0
            /\ rule.max # NULL => n <= rule.max
      BY <2>1, <2>8 DEF FieldFits
    <3>8. CASE rule.kind = "int"
      <4>1. rule.min # NULL /\ rule.min = 100 BY <3>2, <3>3, <3>8
      <4>2. saturates \/ n # 100 * Wide BY <2>1, <3>1, <3>8 DEF EdgeAt
      <4> HIDE DEF n, v
      <4>3. n >= 100 => (n = BackToFloat(Int64(n)) <=> (n % 100 = 0 /\ n <= 100 * Wide))
        BY <3>1, <4>2, BackAndForth
      <4> QED BY <2>2, <3>4, <3>5, <3>6, <3>7, <3>8, <4>1, <4>3
    <3>9. CASE rule.kind # "int"
      <4> HIDE DEF n, v
      <4> QED BY <2>2, <3>4, <3>5, <3>6, <3>7, <3>9
    <3> QED BY <3>8, <3>9
  <2> QED BY <2>5, <2>6, <2>7, <2>8 DEF RuleFits
<1> QED BY <1>1, <1>2

\* What is reported of a bad field, never a panic.
LEMMA WhyAmong ==
  ASSUME NEW rule, RuleFits(rule), NEW data, NEW k, Bad(rule, data, k)
  PROVE  Why(rule, data, k) \in Whys \ {"panic"}
<1>1. CASE Absent(data, k) BY <1>1 DEF Why, Whys
<1>2. CASE ~Absent(data, k)
  <2> DEFINE v == data[k]
  <2>1. Why(rule, data, k) = Problem(rule, v) /\ Problem(rule, v) # NULL BY <1>2 DEF Why, Bad
  <2> HIDE DEF v
  <2> QED BY <2>1 DEF Problem, RuleFits, Whys
<1> QED BY <1>1, <1>2

\* What ValidateEventData comes to: the first bad field, or what was kept.
LEMMA VerdictIs ==
  ASSUME NEW t, t \in DOMAIN eventRules, NEW data
  PROVE  ValidateEventData(t, data) = Outcome(eventRules[t], data, DOMAIN eventRules[t])
<1> DEFINE rules == eventRules[t]
<1>1. DOMAIN rules \subseteq Keys BY RulesFit
<1> HIDE DEF rules
<1>2. Passed(rules, data)[DOMAIN rules] = Outcome(rules, data, DOMAIN rules)
  BY <1>1, LoopComputes
<1> QED BY <1>2 DEF ValidateEventData, rules

LEMMA FirstBad ==
  ASSUME NEW t, t \in DOMAIN eventRules, NEW data,
         BadIn(eventRules[t], data, DOMAIN eventRules[t]) # {}
  PROVE  LET k == FirstKey(BadIn(eventRules[t], data, DOMAIN eventRules[t])) IN
         /\ ValidateEventData(t, data) = Invalid(k, Why(eventRules[t][k], data, k))
         /\ k \in BadIn(eventRules[t], data, DOMAIN eventRules[t])
         /\ \A j \in BadIn(eventRules[t], data, DOMAIN eventRules[t]) : Rank(k) <= Rank(j)
         /\ Why(eventRules[t][k], data, k) \in Whys \ {"panic"}
<1> DEFINE rules == eventRules[t]
           B == BadIn(rules, data, DOMAIN rules)
           k == FirstKey(B)
<1>1. DOMAIN rules \subseteq Keys /\ \A j \in DOMAIN rules : RuleFits(rules[j]) BY RulesFit
<1>2. ValidateEventData(t, data) = Outcome(rules, data, DOMAIN rules) BY VerdictIs
<1> HIDE DEF rules
<1>3. B \subseteq DOMAIN rules /\ \A j \in B : Bad(rules[j], data, j) BY DEF BadIn
<1>4. k \in B /\ \A j \in B : Rank(k) <= Rank(j)
  <2>1. B \subseteq Keys /\ B # {} BY <1>1, <1>3 DEF rules
  <2> HIDE DEF B
  <2> QED BY <2>1, KeyEnds
<1>5. Outcome(rules, data, DOMAIN rules) = Invalid(k, Why(rules[k], data, k))
  <2>1. B # {} BY DEF rules
  <2> QED BY <2>1 DEF Outcome
<1>6. Why(rules[k], data, k) \in Whys \ {"panic"} BY <1>1, <1>3, <1>4, WhyAmong
<1> QED BY <1>2, <1>4, <1>5, <1>6 DEF rules

LEMMA KeptIs ==
  ASSUME NEW t, t \in DOMAIN eventRules, NEW data,
         BadIn(eventRules[t], data, DOMAIN eventRules[t]) = {}
  PROVE  ValidateEventData(t, data) = Clean(Kept(data, DOMAIN eventRules[t]))
BY VerdictIs DEF Outcome

\* What was accepted is, as it was kept, accepted again and kept as it is.
LEMMA KeptAgain ==
  ASSUME NEW t, t \in DOMAIN eventRules, NEW data, IsData(data),
         BadIn(eventRules[t], data, DOMAIN eventRules[t]) = {}
  PROVE  LET kept == Kept(data, DOMAIN eventRules[t]) IN
         IsData(kept) /\ ValidateEventData(t, kept) = Clean(kept)
<1> DEFINE D == DOMAIN eventRules[t]
           rules == eventRules[t]
           kept == Kept(data, D)
<1>1. BadIn(rules, data, D) = {} OBVIOUS
<1> HIDE DEF rules, D
<1>2. DOMAIN kept = {k \in D : ~Absent(data, k)} /\ \A k \in DOMAIN kept : kept[k] = data[k]
  BY DEF Kept
<1>3. kept = [k \in DOMAIN kept |-> kept[k]] BY DEF Kept
<1> HIDE DEF kept
<1>4. \A k \in DOMAIN kept : k \in DOMAIN data BY <1>2 DEF Absent
<1>5. IsData(kept)
  <2>1. \A k \in DOMAIN kept : kept[k] \in Value BY <1>2, <1>4 DEF IsData
  <2> QED BY <1>3, <2>1 DEF IsData
<1>6. ASSUME NEW k \in D
      PROVE  (Absent(kept, k) <=> Absent(data, k)) /\ ~Bad(rules[k], kept, k)
  <2>1. ~Bad(rules[k], data, k) BY <1>1 DEF BadIn
  <2>2. CASE Absent(data, k)
    <3>1. Absent(kept, k) BY <1>2, <2>2 DEF Absent
    <3> QED BY <2>1, <2>2, <3>1 DEF Bad
  <2>3. CASE ~Absent(data, k)
    <3>1. k \in DOMAIN kept /\ kept[k] = data[k] BY <1>2, <2>3
    <3>2. ~Absent(kept, k) BY <2>3, <3>1 DEF Absent
    <3> QED BY <2>1, <2>3, <3>1, <3>2 DEF Bad
  <2> QED BY <2>2, <2>3
<1>7. BadIn(rules, kept, D) = {} BY <1>6 DEF BadIn
<1>8. Kept(kept, D) = kept
  <2>1. {k \in D : ~Absent(kept, k)} = DOMAIN kept BY <1>2, <1>6
  <2>2. Kept(kept, D) = [k \in DOMAIN kept |-> kept[k]] BY <2>1 DEF Kept
  <2> QED BY <1>3, <2>2
<1>9. ValidateEventData(t, kept) = Clean(Kept(kept, D)) BY <1>7, KeptIs DEF rules, D
<1> QED BY <1>5, <1>8, <1>9 DEF kept, D

-----------------------------------------------------------------------------
(* The invariant of the payloads *)

Reading(v, d) ==
  \/ v = NULL
  \/ v = [op |-> "validate", res |-> ValidateEventData(d.type, d.data)]
  \/ d.type = "bottling" /\ v = [op |-> "parse", res |-> ParseBottling(d.data)]

Settled(d) == d.type \in DOMAIN eventRules /\ ValidateEventData(d.type, d.data) = Clean(d.data)

PayloadInv ==
  /\ saturates \in BOOLEAN
  /\ draft = [type |-> draft.type, data |-> draft.data] /\ IsData(draft.data)
  /\ again => Settled(draft)
  /\ Reading(verdict, draft)

LEMMA PayloadInitFits == PayloadInit => PayloadInv
BY DraftAssumption DEF PayloadInit, PayloadInv, Reading

LEMMA AcceptedKept ==
  ASSUME NEW t, NEW data, ValidateEventData(t, data).why = NULL
  PROVE  /\ t \in DOMAIN eventRules
         /\ BadIn(eventRules[t], data, DOMAIN eventRules[t]) = {}
<1>1. t \in DOMAIN eventRules
  <2>1. "unknown" # NULL BY WhyAssumption DEF Whys
  <2> QED BY <2>1 DEF ValidateEventData, Invalid
<1>2. ASSUME BadIn(eventRules[t], data, DOMAIN eventRules[t]) # {} PROVE FALSE
  <2> DEFINE k == FirstKey(BadIn(eventRules[t], data, DOMAIN eventRules[t]))
             w == Why(eventRules[t][k], data, k)
  <2>1. ValidateEventData(t, data) = Invalid(k, w) /\ w \in Whys BY <1>1, <1>2, FirstBad
  <2> HIDE DEF w, k
  <2>2. ValidateEventData(t, data).why = w BY <2>1 DEF Invalid
  <2> QED BY <2>1, <2>2, WhyAssumption
<1> QED BY <1>1, <1>2

\* What a verdict means depends on the machine, which stays the same.
LEMMA SameMachine ==
  ASSUME saturates' = saturates
  PROVE  /\ Reading(verdict, draft)' <=> Reading(verdict', draft')
         /\ Settled(draft)' <=> Settled(draft')
<1>1. ASSUME NEW t, NEW data PROVE ValidateEventData(t, data)' = ValidateEventData(t, data)
  BY DEF ValidateEventData, Passed, Checked, Problem, Int64
<1>2. ASSUME NEW data PROVE ParseBottling(data)' = ParseBottling(data)
  <2>1. ValidateEventData("bottling", data)' = ValidateEventData("bottling", data) BY <1>1
  <2> QED BY <2>1 DEF ParseBottling, Int64
<1>3. PICK v, d : v = verdict' /\ d = draft' OBVIOUS
<1>4. Reading(v, d)' <=> Reading(v, d)
  <2>1. ValidateEventData(d.type, d.data)' = ValidateEventData(d.type, d.data)
        /\ ParseBottling(d.data)' = ParseBottling(d.data) BY <1>1, <1>2
  <2> QED BY <2>1 DEF Reading
<1>5. Settled(d)' <=> Settled(d)
  <2>1. ValidateEventData(d.type, d.data)' = ValidateEventData(d.type, d.data) BY <1>1
  <2> QED BY <2>1 DEF Settled
<1>6. Reading(verdict, draft)' <=> Reading(v, d)' BY <1>3
<1>7. Settled(draft)' <=> Settled(d)' BY <1>3
<1> QED BY <1>3, <1>4, <1>5, <1>6, <1>7

LEMMA PayloadStep == PayloadInv /\ [PayloadNext]_payloadVars => PayloadInv'
<1> SUFFICES ASSUME PayloadInv, [PayloadNext]_payloadVars PROVE PayloadInv' OBVIOUS
<1>0. saturates' = saturates
  BY DEF PayloadNext, Validate, Parse, Resubmit, Decide, payloadVars
<1>1. SUFFICES /\ draft' = [type |-> draft'.type, data |-> draft'.data] /\ IsData(draft'.data)
               /\ again' => Settled(draft')
               /\ Reading(verdict', draft')
  BY <1>0, <1>1, SameMachine DEF PayloadInv
<1> USE DEF PayloadInv
<1>2. CASE UNCHANGED payloadVars BY <1>2 DEF payloadVars
<1>3. CASE Validate BY <1>3 DEF Validate, Decide, Reading
<1>4. CASE Parse BY <1>4 DEF Parse, Decide, Reading
<1>5. CASE Resubmit
  <2> DEFINE t == draft.type
             kept == Kept(draft.data, DOMAIN eventRules[t])
  <2>1. verdict = [op |-> "validate", res |-> ValidateEventData(t, draft.data)]
    BY <1>5 DEF Resubmit, Reading
  <2>2. ValidateEventData(t, draft.data).why = NULL BY <1>5, <2>1 DEF Resubmit
  <2>3. t \in DOMAIN eventRules /\ BadIn(eventRules[t], draft.data, DOMAIN eventRules[t]) = {}
    BY <2>2, AcceptedKept
  <2>4. verdict.res = Clean(kept)
    <3>1. ValidateEventData(t, draft.data) = Clean(kept) BY <2>3, KeptIs
    <3> QED BY <2>1, <3>1
  <2>5. IsData(kept) /\ ValidateEventData(t, kept) = Clean(kept) BY <2>3, KeptAgain
  <2> HIDE DEF kept
  <2>6. draft' = [type |-> t, data |-> kept]
    <3>1. verdict.res.out = kept BY <2>4 DEF Clean
    <3>2. draft' = [draft EXCEPT !.data = kept] BY <1>5, <3>1 DEF Resubmit
    <3> QED BY <3>2
  <2>7. draft'.type = t /\ draft'.data = kept BY <2>6
  <2>8. Reading(verdict', draft') BY <1>5 DEF Resubmit, Reading
  <2>9. Settled(draft') BY <2>3, <2>5, <2>7 DEF Settled
  <2> QED BY <2>5, <2>6, <2>7, <2>8, <2>9
<1> QED BY <1>2, <1>3, <1>4, <1>5 DEF PayloadNext

LEMMA PayloadInvariance == PayloadSpec => []PayloadInv
<1>1. PayloadInit => PayloadInv BY PayloadInitFits
<1>2. PayloadInv /\ [PayloadNext]_payloadVars => PayloadInv' BY PayloadStep
<1> QED BY <1>1, <1>2, PTL DEF PayloadSpec

\* Whatever payload a client sends, of any keys, values and dates, and on either
\* machine: it is accepted just when its fields fit the rules of its type, kept as
\* declared and accepted again as it was kept; otherwise the first bad field in the
\* order of the keys is reported (ValidateEventData).
THEOREM AcceptedAsDeclared == PayloadSpec => []VerdictAsDeclared
<1>1. PayloadInv => VerdictAsDeclared
  <2> SUFFICES ASSUME PayloadInv, verdict # NULL, verdict.op = "validate"
               PROVE  VerdictAsDeclared
    BY DEF VerdictAsDeclared
  <2> DEFINE t == draft.type
             data == draft.data
             rules == eventRules[t]
             D == DOMAIN rules
             B == BadIn(rules, data, D)
             Unfit == {k \in D : ~FieldFits(rules[k], data, k)}
             OnEdge == \E k \in D \cap DOMAIN data :
                         rules[k].kind = "int" /\ data[k] = [is |-> "number", val |-> 100 * Wide]
  <2>1. verdict.res = ValidateEventData(t, data) BY DEF PayloadInv, Reading
  <2>2. CASE t \notin DOMAIN eventRules
    <3>1. verdict.res = Invalid("type", "unknown") BY <2>1, <2>2 DEF ValidateEventData
    <3> QED BY <2>2, <3>1 DEF VerdictAsDeclared
  <2>3. CASE t \in DOMAIN eventRules /\ OnEdge /\ ~saturates BY <2>3 DEF VerdictAsDeclared
  <2>4. CASE t \in DOMAIN eventRules /\ ~(OnEdge /\ ~saturates)
    <3>1. Unfit = B
      <4>1. ASSUME NEW k \in D PROVE FieldFits(rules[k], data, k) <=> ~Bad(rules[k], data, k)
        <5>1. RuleFits(rules[k]) BY <2>4, RulesFit
        <5>2. saturates \/ ~EdgeAt(rules[k], data, k) BY <2>4 DEF EdgeAt
        <5>3. IsData(data) /\ saturates \in BOOLEAN BY DEF PayloadInv
        <5> HIDE DEF rules, data
        <5> QED BY <5>1, <5>2, <5>3, KeyVerdict
      <4> HIDE DEF D, rules, data
      <4> QED BY <4>1 DEF BadIn
    <3>2. CASE B = {}
      <4>1. verdict.res = Clean(Kept(data, D)) BY <2>1, <2>4, <3>2, KeptIs
      <4> HIDE DEF rules, D, data
      <4>2. verdict.res.why = NULL /\ verdict.res.out = Kept(data, D) BY <4>1 DEF Clean
      <4>3. DOMAIN verdict.res.out = {k \in D \cap DOMAIN data : data[k].is # "null"}
        BY <4>2 DEF Kept, Absent
      <4>4. \A k \in DOMAIN verdict.res.out : verdict.res.out[k] = data[k]
        BY <4>2 DEF Kept
      <4>5. again => verdict.res.out = data
        <5>1. again => verdict.res = Clean(data) BY <2>1 DEF PayloadInv, Settled, data
        <5> QED BY <5>1 DEF Clean
      <4> HIDE DEF B, Unfit
      <4> QED BY <2>4, <3>1, <3>2, <4>2, <4>3, <4>4, <4>5 DEF VerdictAsDeclared, Unfit, D, rules, data
    <3>3. CASE B # {}
      <4> DEFINE k == FirstKey(B)
                 w == Why(rules[k], data, k)
      <4>1. /\ verdict.res = Invalid(k, w) /\ k \in B /\ w \in Whys
            /\ \A j \in B : Rank(k) <= Rank(j)
        BY <2>1, <2>4, <3>3, FirstBad
      <4> HIDE DEF k, w
      <4>2. verdict.res.why = w /\ verdict.res.field = k BY <4>1 DEF Invalid
      <4>3. w # NULL BY <4>1, WhyAssumption
      <4>4. ~again
        <5>1. again => verdict.res = Clean(data) BY <2>1 DEF PayloadInv, Settled
        <5>2. Clean(data).why = NULL BY DEF Clean
        <5> QED BY <4>2, <4>3, <5>1, <5>2
      <4> HIDE DEF B
      <4> QED BY <2>4, <3>1, <3>3, <4>1, <4>2, <4>3, <4>4 DEF VerdictAsDeclared
    <3> QED BY <3>2, <3>3
  <2> QED BY <2>2, <2>3, <2>4
<1> QED BY <1>1, PayloadInvariance, PTL

\* For the same payloads: ParseBottling does not panic on what the rules let
\* through, and its count and size are at least one and the numbers that were sent,
\* but for 2^63 (the conversions of count and sizeMl).
THEOREM BottlingsAreRead == PayloadSpec => []BottlingReads
<1>1. PayloadInv => BottlingReads
  <2> SUFFICES ASSUME PayloadInv, verdict # NULL, verdict.op = "parse" PROVE BottlingReads
    BY DEF BottlingReads
  <2> DEFINE data == draft.data
             rules == eventRules["bottling"]
             D == DOMAIN rules
             B == BadIn(rules, data, D)
             clean == ValidateEventData("bottling", data)
  <2>1. verdict.res = ParseBottling(data) BY DEF PayloadInv, Reading
  <2>2. "bottling" \in DOMAIN eventRules BY DEF eventRules
  <2>3. NULL # "panic" BY WhyAssumption DEF Whys
  <2>4. CASE B # {}
    <3> DEFINE k == FirstKey(B)
               w == Why(rules[k], data, k)
    <3>1. clean = Invalid(k, w) /\ w \in Whys \ {"panic"} BY <2>2, <2>4, FirstBad
    <3> HIDE DEF k, w
    <3>2. clean.why = w /\ w # NULL /\ w # "panic" BY <3>1, WhyAssumption DEF Invalid
    <3>3. ParseBottling(data) = clean BY <3>2 DEF ParseBottling
    <3> QED BY <2>1, <3>2, <3>3 DEF BottlingReads
  <2>5. CASE B = {}
    <3>1. clean = Clean(Kept(data, D)) BY <2>2, <2>5, KeptIs
    <3>2. clean.why = NULL /\ clean.out = Kept(data, D) BY <3>1 DEF Clean
    <3>3. ASSUME NEW k \in {"count", "sizeMl"}
          PROVE  /\ k \in DOMAIN clean.out /\ clean.out[k] = data[k]
                 /\ data[k].is = "number" /\ Int64(data[k].val) >= 1
                 /\ data[k].val \in {100 * Int64(data[k].val), 100 * Wide}
      <4>1. k \in D /\ rules[k] = Must("int", 100) BY DEF eventRules
      <4> HIDE DEF rules, D
      <4>2. ~Bad(Must("int", 100), data, k) BY <2>5, <4>1 DEF BadIn
      <4>3. ~Absent(data, k) /\ Problem(Must("int", 100), data[k]) = NULL
        BY <4>2 DEF Bad, Lacking, Must, Rule
      <4>4. k \in DOMAIN data /\ data[k] \in Value
        BY <4>3 DEF Absent, PayloadInv, IsData
      <4> DEFINE n == data[k].val
      <4> HIDE DEF data
      <4>5. "must be a number" # NULL /\ "must be an integer" # NULL /\ "must be positive" # NULL
        BY WhyAssumption DEF Whys
      <4>6. data[k].is = "number" /\ n = BackToFloat(Int64(n)) /\ ~BelowMin(Must("int", 100), n)
        BY <4>3, <4>5 DEF Problem, Must, Rule
      <4>7. n \in Int /\ n # 100 * (Wide - 1) BY <4>4, <4>6 DEF Value
      <4>8. n >= 100
        <5>1. 100 # NULL BY NullAssumption
        <5> QED BY <4>6, <4>7, <5>1 DEF BelowMin, Must, Rule
      <4>9. k \in DOMAIN clean.out /\ clean.out[k] = data[k] BY <3>2, <4>1, <4>3 DEF Kept
      <4>10. saturates \in BOOLEAN BY DEF PayloadInv
      <4> HIDE DEF n, clean
      <4>11. Int64(n) >= 1 /\ n \in {100 * Int64(n), 100 * Wide}
        BY <4>6, <4>7, <4>8, <4>10, BackAndForth
      <4> QED BY <4>6, <4>9, <4>11 DEF n
    <3> HIDE DEF clean
    <3>4. verdict.res.why = NULL /\ verdict.res.Count = Int64(data["count"].val)
          /\ verdict.res.SizeML = Int64(data["sizeMl"].val)
      BY <2>1, <3>2, <3>3 DEF ParseBottling, clean
    <3> QED BY <2>3, <3>3, <3>4 DEF BottlingReads
  <2> QED BY <2>4, <2>5
<1> QED BY <1>1, PayloadInvariance, PTL
=============================================================================
