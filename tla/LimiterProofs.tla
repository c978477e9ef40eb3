--------------------------- MODULE LimiterProofs ---------------------------
(***************************************************************************)
(* The bounds of the limiter and of logins, for every limit, window, set   *)
(* of keys and number of requests.                                         *)
(*                                                                         *)
(* Windows of a key are more than their own length apart, because a window *)
(* opens only after the one before has ended; so the attempt MaxHits later *)
(* belongs to a later window, and two such strides span a whole window.    *)
(* The tries on an account are found again, in order, among the attempts   *)
(* of its key, which bounds them; and each request that may put an account *)
(* into the map holds an attempt its host was allowed.                     *)
(***************************************************************************)
EXTENDS LoginThrottle, SequenceTheorems, FiniteSetTheorems, TLAPS

\* Any log in which MaxHits attempts on is a later window keeps the burst bound.
LEMMA WindowsBoundBursts ==
  ASSUME TypeOK, NEW k \in Key, WindowsApart(k), NEW i \in 1..Len(log[k]),
         i + 2 * MaxHits <= Len(log[k])
  PROVE  log[k][i].at + Window < log[k][i + 2 * MaxHits].at
<1> DEFINE j == i + MaxHits
           m == i + 2 * MaxHits
<1>1. MaxHits \in Nat \ {0} /\ Window \in Nat BY LimitAssumption
<1>2. log[k] \in Seq(Pass) BY DEF TypeOK
<1>3. Len(log[k]) \in Nat BY <1>2
<1>4. /\ i \in 1..Len(log[k]) /\ j \in 1..Len(log[k]) /\ m \in 1..Len(log[k])
      /\ j + MaxHits = m /\ i + MaxHits = j
  BY <1>1, <1>3
<1>5. log[k][i] \in Pass /\ log[k][j] \in Pass /\ log[k][m] \in Pass BY <1>2, <1>4
<1> HIDE DEF j, m
<1>6. /\ log[k][i].at <= log[k][i].reset
      /\ log[k][i].reset + Window < log[k][j].reset
      /\ log[k][j].reset + Window < log[k][m].reset
      /\ log[k][m].reset <= log[k][m].at + Window
  <2>1. j <= Len(log[k]) /\ m <= Len(log[k]) BY <1>3, <1>4
  <2> QED BY <1>4, <2>1 DEF WindowsApart
<1>7. /\ log[k][i].at \in Nat /\ log[k][i].reset \in Nat /\ log[k][j].reset \in Nat
      /\ log[k][m].at \in Nat /\ log[k][m].reset \in Nat
  BY <1>5 DEF Pass
<1>8. log[k][i].at + Window < log[k][m].at
  <2>1. \A a, b, c, d, e \in Nat :
          a <= b /\ b + Window < c /\ c + Window < d /\ d <= e + Window => a + Window < e
    BY <1>1
  <2> QED BY <1>6, <1>7, <2>1
<1> QED BY <1>8 DEF m

LEMMA IInvBurst == IInv => BurstBound
BY WindowsBoundBursts DEF IInv, BurstBound

LEMMA IInvRefusal == IInv => RefusalJustified
<1> SUFFICES ASSUME IInv, NEW k \in Key, ~Expired(k), Full(k)
             PROVE  /\ Len(log[k]) >= MaxHits
                    /\ now <= log[k][Len(log[k]) - MaxHits + 1].at + Window
  BY DEF RefusalJustified
<1> DEFINE n == Len(log[k])
           i == n - MaxHits + 1
<1>1. MaxHits \in Nat \ {0} /\ Window \in Nat BY LimitAssumption
<1>2. log[k] \in Seq(Pass) /\ n \in Nat /\ now \in Nat BY DEF IInv, TypeOK
<1>3. hits[k] \in Entry /\ hits[k] # NULL BY DEF IInv, TypeOK, Expired
<1>4. hits[k].count = MaxHits /\ hits[k].reset \in Nat /\ now <= hits[k].reset
  BY <1>1, <1>2, <1>3 DEF Entry, Full, Expired
<1>5. MaxHits <= n /\ \A h \in 1..n : n - MaxHits < h => log[k][h].reset = hits[k].reset
  BY <1>3, <1>4 DEF IInv, EntryCounts
<1>6. i \in 1..n /\ n - MaxHits < i BY <1>1, <1>2, <1>5
<1>7. log[k][i].reset = hits[k].reset /\ log[k][i] \in Pass
  BY <1>2, <1>5, <1>6
<1>8. log[k][i].reset <= log[k][i].at + Window BY <1>6 DEF IInv, WindowsApart
<1> HIDE DEF n, i
<1>9. now <= log[k][i].at + Window BY <1>1, <1>2, <1>4, <1>7, <1>8 DEF Pass
<1> QED BY <1>5, <1>9 DEF n, i

-----------------------------------------------------------------------------

LEMMA InitHolds == Init => IInv
<1> SUFFICES ASSUME Init PROVE IInv OBVIOUS
<1>1. \A k \in Key : log[k] = <<>> /\ hits[k] = NULL BY DEF Init
<1>2. TypeOK BY LimitAssumption DEF Init, TypeOK
<1>3. \A k \in Key : EntryCounts(k) /\ WindowsApart(k)
  <2>0. Len(<<>>) = 0 OBVIOUS
  <2>1. \A k \in Key : Len(log[k]) = 0 BY <1>1, <2>0, Zenon
  <2>2. \A i \in 1..0 : FALSE OBVIOUS
  <2> QED BY <1>1, <2>1, <2>2 DEF EntryCounts, WindowsApart
<1> QED BY <1>2, <1>3 DEF IInv

\* The invariant of a key depends on its entry and its log alone, and on the
\* clock only to be as late.
LEMMA OtherKeys ==
  ASSUME IInv, NEW k \in Key, hits'[k] = hits[k], log'[k] = log[k],
         now' \in Nat, now <= now'
  PROVE  EntryCounts(k)' /\ WindowsApart(k)'
<1>1. EntryCounts(k) /\ WindowsApart(k) /\ TypeOK BY DEF IInv
<1>2. hits[k] # NULL => hits[k].reset \in Nat BY <1>1 DEF TypeOK, Entry
<1>3. hits[k] # NULL => hits[k].reset <= now' + Window
  BY <1>1, <1>2, LimitAssumption DEF EntryCounts, TypeOK
<1>4. EntryCounts(k)' BY <1>1, <1>3 DEF EntryCounts
<1>5. WindowsApart(k)' BY <1>1 DEF WindowsApart
<1> QED BY <1>4, <1>5

\* Entry e is right after the attempt that put it there.
RightEntry(k, e) ==
  LET n == Len(log[k]) IN
    /\ e \in Entry
    /\ now <= e.reset /\ e.reset <= now + Window
    /\ e.count <= n + 1
    /\ \A i \in 1..n : (n + 1) - e.count < i => log[k][i].reset = e.reset
    /\ \A i \in 1..n : i <= (n + 1) - e.count => log[k][i].reset + Window < e.reset

LEMMA PutKeeps ==
  ASSUME IInv, NEW k \in Key, NEW e, RightEntry(k, e), Put(k, e)
  PROVE  IInv'
<1> DEFINE n == Len(log[k])
           p == [at |-> now, reset |-> e.reset]
<1>1. TypeOK /\ EntryCounts(k) /\ WindowsApart(k) BY DEF IInv
<1>2. MaxHits \in Nat \ {0} /\ Window \in Nat /\ now \in Nat BY <1>1, LimitAssumption DEF TypeOK
<1>3. e \in Entry /\ e.count \in 1..MaxHits /\ e.reset \in Nat BY DEF RightEntry, Entry
<1>4. p \in Pass /\ p.at = now /\ p.reset = e.reset BY <1>2, <1>3 DEF Pass
<1>5. log[k] \in Seq(Pass) /\ n \in Nat BY <1>1 DEF TypeOK
<1>6. hits'[k] = e /\ log'[k] = Append(log[k], p) /\ now' = now
  BY <1>1 DEF Put, TypeOK
<1> HIDE DEF p
<1>7. /\ log'[k] \in Seq(Pass) /\ Len(log'[k]) = n + 1 /\ log'[k][n + 1] = p
      /\ \A i \in 1..n : log'[k][i] = log[k][i]
  BY <1>4, <1>5, <1>6
<1>8. TypeOK'
  <2>1. hits' \in [Key -> Entry \cup {NULL}] BY <1>1, <1>3 DEF Put, TypeOK
  <2>2. log' \in [Key -> Seq(Pass)] BY <1>1, <1>4, <1>7 DEF Put, TypeOK, p
  <2> QED BY <1>1, <1>6, <2>1, <2>2 DEF TypeOK
<1>9. e # NULL BY <1>3, NullAssumption DEF Entry
<1>10. \A i \in 1..n + 1 : i \in 1..n \/ i = n + 1 BY <1>5
<1>11. /\ e.count <= n + 1 /\ now <= e.reset /\ e.reset <= now + Window
       /\ \A i \in 1..n : (n + 1) - e.count < i => log[k][i].reset = e.reset
       /\ \A i \in 1..n : i <= (n + 1) - e.count => log[k][i].reset + Window < e.reset
  BY DEF RightEntry
<1> HIDE DEF n
<1>12. EntryCounts(k)'
  <2>1. \A i \in 1..n + 1 : (n + 1) - e.count < i => log'[k][i].reset = e.reset
    BY <1>4, <1>7, <1>10, <1>11
  <2>2. \A i \in 1..n + 1 : i <= (n + 1) - e.count => log'[k][i].reset + Window < e.reset
    BY <1>3, <1>5, <1>7, <1>10, <1>11
  <2> QED BY <1>6, <1>7, <1>9, <1>11, <2>1, <2>2 DEF EntryCounts
<1>13. WindowsApart(k)'
  <2>1. \A i \in 1..n + 1 :
          log'[k][i].at <= log'[k][i].reset /\ log'[k][i].reset <= log'[k][i].at + Window
    BY <1>1, <1>4, <1>7, <1>10, <1>11 DEF WindowsApart, n
  <2>2. ASSUME NEW i \in 1..n + 1, i + MaxHits <= n + 1
        PROVE  log'[k][i].reset + Window < log'[k][i + MaxHits].reset
    <3>1. i \in 1..n /\ i + MaxHits \in 1..n + 1 BY <1>2, <1>5, <2>2
    <3>2. CASE i + MaxHits \in 1..n
      <4>1. i + MaxHits <= Len(log[k]) /\ i \in 1..Len(log[k]) BY <1>2, <1>5, <3>1, <3>2 DEF n
      <4>2. log[k][i].reset + Window < log[k][i + MaxHits].reset BY <1>1, <4>1 DEF WindowsApart
      <4> QED BY <1>7, <3>1, <3>2, <4>2
    <3>3. CASE i + MaxHits = n + 1
      <4>1. i <= (n + 1) - e.count BY <1>2, <1>3, <1>5, <3>1, <3>3
      <4> QED BY <1>4, <1>7, <1>11, <3>1, <3>3, <4>1
    <3> QED BY <1>10, <3>1, <3>2, <3>3
  <2> QED BY <1>7, <2>1, <2>2 DEF WindowsApart
<1>14. ASSUME NEW q \in Key, q # k PROVE EntryCounts(q)' /\ WindowsApart(q)'
  <2>1. hits'[q] = hits[q] /\ log'[q] = log[q] BY <1>1, <1>14 DEF Put, TypeOK
  <2> QED BY <1>2, <1>6, <2>1, OtherKeys
<1>15. \A q \in Key : EntryCounts(q)' /\ WindowsApart(q)' BY <1>12, <1>13, <1>14
<1> QED BY <1>8, <1>15 DEF IInv

LEMMA AllowKeeps ==
  ASSUME IInv, NEW k \in Key, Allow(k)
  PROVE  IInv'
<1> DEFINE n == Len(log[k])
<1>1. TypeOK /\ EntryCounts(k) BY DEF IInv
<1>2. MaxHits \in Nat \ {0} /\ Window \in Nat /\ now \in Nat BY <1>1, LimitAssumption DEF TypeOK
<1>3. log[k] \in Seq(Pass) /\ n \in Nat BY <1>1 DEF TypeOK
<1>4. hits[k] # NULL => hits[k] \in Entry /\ hits[k].count \in 1..MaxHits /\ hits[k].reset \in Nat
  BY <1>1 DEF TypeOK, Entry
<1>5. \A i \in 1..n : log[k][i] \in Pass /\ log[k][i].reset \in Nat
  <2>1. \A i \in 1..n : log[k][i] \in Pass BY <1>3, ElementOfSeq
  <2> QED BY <2>1 DEF Pass
<1>6. /\ hits[k] = NULL => n = 0
      /\ hits[k] # NULL =>
           /\ hits[k].count <= n
           /\ hits[k].reset <= now + Window
           /\ \A i \in 1..n : n - hits[k].count < i => log[k][i].reset = hits[k].reset
           /\ \A i \in 1..n : i <= n - hits[k].count => log[k][i].reset + Window < hits[k].reset
  BY <1>1 DEF EntryCounts
<1> HIDE DEF n
<1>7. CASE Expired(k) /\ Put(k, Opened(k))
  <2> DEFINE e == Opened(k)
  <2>1. e.count = 1 /\ e.reset = now + Window /\ e \in Entry BY <1>2 DEF Opened, Entry
  <2>2. \A i \in 1..n : log[k][i].reset <= now \/ hits[k] = NULL
    <3> SUFFICES ASSUME NEW i \in 1..n, hits[k] # NULL PROVE log[k][i].reset <= now
      OBVIOUS
    <3>1. hits[k].reset < now BY <1>7 DEF Expired
    <3>2. CASE n - hits[k].count < i BY <1>2, <1>4, <1>5, <1>6, <3>1, <3>2
    <3>3. CASE i <= n - hits[k].count BY <1>2, <1>4, <1>5, <1>6, <3>1, <3>3
    <3> QED BY <1>3, <1>4, <3>2, <3>3
  <2>3. \A i \in 1..n : log[k][i].reset < now
    <3> SUFFICES ASSUME NEW i \in 1..n PROVE log[k][i].reset < now
      OBVIOUS
    <3>0. hits[k] # NULL BY <1>3, <1>6
    <3>1. hits[k].reset < now BY <1>7, <3>0 DEF Expired
    <3>2. CASE n - hits[k].count < i BY <1>2, <1>4, <1>5, <1>6, <3>0, <3>1, <3>2
    <3>3. CASE i <= n - hits[k].count BY <1>2, <1>4, <1>5, <1>6, <3>0, <3>1, <3>3
    <3> QED BY <1>3, <1>4, <3>0, <3>2, <3>3
  <2> HIDE DEF e
  <2>4. RightEntry(k, e) BY <1>2, <1>3, <1>5, <2>1, <2>3 DEF RightEntry, n
  <2> QED BY <1>7, <2>4, PutKeeps DEF e
<1>8. CASE /\ ~Expired(k) /\ ~Full(k)
           /\ Put(k, [count |-> hits[k].count + 1, reset |-> hits[k].reset])
  <2> DEFINE e == [count |-> hits[k].count + 1, reset |-> hits[k].reset]
  <2>1. hits[k] # NULL /\ now <= hits[k].reset /\ hits[k].count < MaxHits
    BY <1>2, <1>4, <1>8 DEF Expired, Full
  <2>2. e.count = hits[k].count + 1 /\ e.reset = hits[k].reset /\ e \in Entry
    BY <1>2, <1>4, <2>1 DEF Entry
  <2> HIDE DEF e
  <2>3. (n + 1) - e.count = n - hits[k].count BY <1>3, <1>4, <2>1, <2>2
  <2>4. RightEntry(k, e) BY <1>2, <1>3, <1>4, <1>6, <2>1, <2>2, <2>3 DEF RightEntry, n
  <2> QED BY <1>8, <2>4, PutKeeps DEF e
<1> QED BY <1>7, <1>8 DEF Allow

LEMMA RestartKeeps ==
  ASSUME IInv, Restart
  PROVE  IInv'
<1>1. \A k \in Key : log'[k] = <<>> /\ hits'[k] = NULL BY DEF Restart
<1>2. TypeOK' BY DEF IInv, Restart, TypeOK
<1>3. \A k \in Key : EntryCounts(k)' /\ WindowsApart(k)'
  BY <1>1 DEF EntryCounts, WindowsApart
<1> QED BY <1>2, <1>3 DEF IInv

LEMMA TickKeeps ==
  ASSUME IInv, Tick
  PROVE  IInv'
<1>1. TypeOK' BY LimitAssumption DEF IInv, TypeOK, Tick
<1>2. now' \in Nat /\ now <= now' BY DEF IInv, TypeOK, Tick
<1>3. \A k \in Key : EntryCounts(k)' /\ WindowsApart(k)'
  BY <1>2, OtherKeys DEF Tick
<1> QED BY <1>1, <1>3 DEF IInv

LEMMA NextKeeps == IInv /\ [Next]_vars => IInv'
<1> SUFFICES ASSUME IInv, [Next]_vars PROVE IInv' OBVIOUS
<1>1. CASE UNCHANGED vars
  BY <1>1 DEF vars, IInv, TypeOK, EntryCounts, WindowsApart
<1> QED BY <1>1, AllowKeeps, RestartKeeps, TickKeeps DEF Next, Refuse

\* The limiter's inductive invariant: how the entry of a key stands to the
\* attempts that were allowed for it (Limiter.Allow).
THEOREM Invariance == Spec => []IInv
BY InitHolds, NextKeeps, PTL DEF Spec

\* Types of the map.
THEOREM TypeCorrect == Spec => []TypeOK
<1>1. IInv => TypeOK BY DEF IInv
<1> QED BY <1>1, Invariance, PTL

\* At most twice the limit is allowed in any stretch of one window's length.
THEOREM BurstsBounded == Spec => []BurstBound
BY IInvBurst, Invariance, PTL

\* A refusal always rests on MaxHits attempts of the last Window.
THEOREM RefusalsJustified == Spec => []RefusalJustified
BY IInvRefusal, Invariance, PTL

-----------------------------------------------------------------------------
(* Logins.  A step of LoginThrottle charges one key or none, so it is one  *)
(* of Limiter's or leaves its variables alone.                             *)


\* A host is a key, and so is what an account is charged to.
LEMMA ChargedKeys ==
  ASSUME LoginTypeOK, NEW r \in Req
  PROVE  /\ pc[r] = "ip" => Charged(r) \in Ip
         /\ pc[r] = "account" => Charged(r) = Cut[normEmail(arg[r].addr)]
                                 /\ normEmail(arg[r].addr) \in Address
         /\ pc[r] = "account" => Charged(r) \in Address
         /\ pc[r] \in {"ip", "account"} => Charged(r) \in Key
BY NormAssumption, CutAssumption, KeyAssumption
   DEF LoginTypeOK, Charged, emailKey, normEmail

LEMMA LoginStepsLimit ==
  ASSUME LoginTypeOK, [LoginNext]_loginVars
  PROVE  [Next]_vars
<1>1. CASE UNCHANGED loginVars BY <1>1 DEF loginVars, vars
<1>2. CASE LoginRestart BY <1>2 DEF LoginRestart, Next
<1>3. CASE LoginTick BY <1>3 DEF LoginTick, Next
<1>4. ASSUME NEW r \in Req, ChargeHost(r) \/ ChargeAccount(r) PROVE [Next]_vars
  BY <1>4, ChargedKeys DEF ChargeHost, ChargeAccount, Next
<1>5. ASSUME NEW r \in Req, NEW ip \in Ip, NEW a \in Address, Start(r, ip, a)
      PROVE  [Next]_vars
  BY <1>5 DEF Start, vars
<1>6. ASSUME NEW r \in Req, Login(r) \/ Return(r) PROVE [Next]_vars
  BY <1>6 DEF Login, Return, vars
<1> QED BY <1>1, <1>2, <1>3, <1>4, <1>5, <1>6 DEF LoginNext

\* An allowed attempt of k is logged at its time; other keys are left alone.
Logs(k) ==
  /\ now' = now
  /\ \E p \in Pass : p.at = now /\ log'[k] = Append(log[k], p)
  /\ \A q \in Key \ {k} : log'[q] = log[q] /\ hits'[q] = hits[q]

LEMMA AllowLogs ==
  ASSUME IInv, NEW k \in Key, Allow(k)
  PROVE  Logs(k)
<1>1. ASSUME NEW e, e.reset \in Nat, Put(k, e) PROVE Logs(k)
  <2> DEFINE p == [at |-> now, reset |-> e.reset]
  <2>1. p \in Pass /\ p.at = now BY <1>1 DEF IInv, TypeOK, Pass
  <2>2. log'[k] = Append(log[k], p) /\ now' = now BY <1>1 DEF IInv, TypeOK, Put
  <2>3. \A q \in Key \ {k} : log'[q] = log[q] /\ hits'[q] = hits[q]
    BY <1>1 DEF IInv, TypeOK, Put
  <2> HIDE DEF p
  <2> QED BY <2>1, <2>2, <2>3 DEF Logs
<1>2. CASE Put(k, Opened(k))
  <2>1. Opened(k).reset \in Nat BY LimitAssumption DEF IInv, TypeOK, Opened
  <2> QED BY <1>1, <1>2, <2>1
<1>3. CASE hits[k] # NULL /\ Put(k, [count |-> hits[k].count + 1, reset |-> hits[k].reset])
  <2> DEFINE e == [count |-> hits[k].count + 1, reset |-> hits[k].reset]
  <2>1. e.reset \in Nat BY <1>3 DEF IInv, TypeOK, Entry
  <2>2. Put(k, e) BY <1>3
  <2> HIDE DEF e
  <2> QED BY <1>1, <2>1, <2>2
<1> QED BY <1>2, <1>3 DEF Allow, Expired

LEMMA LogsGrow ==
  ASSUME IInv, NEW k \in Key, Logs(k)
  PROVE  /\ Len(log'[k]) = Len(log[k]) + 1
         /\ log'[k][Len(log[k]) + 1].at = now
         /\ \A i \in 1..Len(log[k]) : log'[k][i] = log[k][i]
         /\ Len(log[k]) \in Nat
<1>1. PICK p \in Pass : p.at = now /\ log'[k] = Append(log[k], p) BY DEF Logs
<1>2. log[k] \in Seq(Pass) BY DEF IInv, TypeOK
<1> QED BY <1>1, <1>2, AppendProperties

LEMMA OrderKept ==
  ASSUME IInv, NEW k \in Key, Logs(k), \A q \in Key : InOrder(q)
  PROVE  \A q \in Key : InOrder(q)'
<1>0. now' = now BY DEF Logs
<1>1. ASSUME NEW q \in Key \ {k} PROVE InOrder(q)'
  <2>1. log'[q] = log[q] BY DEF Logs
  <2> QED BY <1>0, <2>1 DEF InOrder
<1>2. InOrder(k)'
  <2> DEFINE n == Len(log[k])
  <2>1. /\ Len(log'[k]) = n + 1 /\ log'[k][n + 1].at = now /\ n \in Nat
        /\ \A i \in 1..n : log'[k][i] = log[k][i]
    BY LogsGrow
  <2>2. /\ \A i \in 1..n : log[k][i].at <= now
        /\ \A i, j \in 1..n : i <= j => log[k][i].at <= log[k][j].at
    BY DEF InOrder
  <2>3. now \in Nat BY DEF IInv, TypeOK
  <2> HIDE DEF n
  <2>4. \A i \in 1..n + 1 : i \in 1..n \/ i = n + 1 BY <2>1
  <2>5. \A i \in 1..n + 1 : log'[k][i].at <= now BY <2>1, <2>2, <2>3, <2>4
  <2>6. \A i, j \in 1..n + 1 : i <= j => log'[k][i].at <= log'[k][j].at
    <3> SUFFICES ASSUME NEW i \in 1..n + 1, NEW j \in 1..n + 1, i <= j
                 PROVE  log'[k][i].at <= log'[k][j].at
      OBVIOUS
    <3>1. CASE j = n + 1 BY <2>1, <2>5, <3>1
    <3>2. CASE j \in 1..n
      <4>1. i \in 1..n BY <2>1, <3>2
      <4> QED BY <2>1, <2>2, <3>2, <4>1
    <3> QED BY <2>4, <3>1, <3>2
  <2> QED BY <1>0, <2>1, <2>5, <2>6 DEF InOrder
<1> QED BY <1>1, <1>2

\* Tries stay where they are in a log that grows at its end.
LEMMA TriesStay ==
  ASSUME IInv, NEW k \in Key, Logs(k), NEW a \in Address, TriesLogged(a), tries'[a] = tries[a]
  PROVE  TriesLogged(a)'
<1> DEFINE L == log[Cut[a]]
           n == Len(tries[a])
<1>1. Cut[a] \in Key BY CutAssumption, KeyAssumption
<1>2. Len(L) \in Nat BY <1>1 DEF IInv, TypeOK
<1>3. Len(L) <= Len(log'[Cut[a]]) /\ \A i \in 1..Len(L) : log'[Cut[a]][i] = L[i]
  <2>1. CASE Cut[a] = k BY <2>1, LogsGrow
  <2>2. CASE Cut[a] # k BY <1>1, <1>2, <2>2 DEF Logs
  <2> QED BY <2>1, <2>2
<1>4. Len(log'[Cut[a]]) \in Nat
  <2>1. CASE Cut[a] = k BY <2>1, LogsGrow
  <2>2. CASE Cut[a] # k BY <1>1, <1>2, <2>2 DEF Logs
  <2> QED BY <2>1, <2>2
<1>5. PICK f \in [1..n -> 1..Len(L)] :
        /\ \A i \in 1..n : L[f[i]].at = tries[a][i]
        /\ \A i, j \in 1..n : i <= j => f[i] + (j - i) <= f[j]
  BY DEF TriesLogged
<1> HIDE DEF L, n
<1>6. f \in [1..n -> 1..Len(log'[Cut[a]])]
  <2>1. 1..Len(L) \subseteq 1..Len(log'[Cut[a]]) BY <1>2, <1>3, <1>4
  <2> QED BY <2>1
<1>7. \A i \in 1..n : log'[Cut[a]][f[i]].at = tries[a][i] BY <1>3, <1>5
<1> QED BY <1>5, <1>6, <1>7 DEF TriesLogged, n

\* A try that is allowed now is the last of its log.
LEMMA TryLogged ==
  ASSUME IInv, NEW b \in Address, tries[b] \in Seq(Nat), TriesLogged(b),
         Logs(Cut[b]), tries'[b] = Append(tries[b], now)
  PROVE  TriesLogged(b)'
<1> DEFINE L == log[Cut[b]]
           n == Len(tries[b])
           m == Len(L)
<1>0. Cut[b] \in Key BY CutAssumption, KeyAssumption
<1>1. /\ Len(log'[Cut[b]]) = m + 1 /\ log'[Cut[b]][m + 1].at = now /\ m \in Nat
      /\ \A i \in 1..m : log'[Cut[b]][i] = L[i]
  BY <1>0, LogsGrow
<1>2. now \in Nat /\ n \in Nat BY DEF IInv, TypeOK
<1>3. Len(tries'[b]) = n + 1 /\ tries'[b][n + 1] = now /\ \A i \in 1..n : tries'[b][i] = tries[b][i]
  BY <1>2, AppendProperties
<1>4. PICK f \in [1..n -> 1..m] :
        /\ \A i \in 1..n : L[f[i]].at = tries[b][i]
        /\ \A i, j \in 1..n : i <= j => f[i] + (j - i) <= f[j]
  BY DEF TriesLogged
<1> HIDE DEF L, n, m
<1> DEFINE g == [i \in 1..n + 1 |-> IF i = n + 1 THEN m + 1 ELSE f[i]]
<1>5. \A i \in 1..n + 1 : i = n + 1 \/ (i \in 1..n /\ i # n + 1) BY <1>2
<1>6. /\ \A i \in 1..n : g[i] = f[i] /\ g[i] \in 1..m
      /\ g[n + 1] = m + 1
  BY <1>2, <1>4
<1>7. g \in [1..n + 1 -> 1..m + 1]
  <2>1. \A i \in 1..n + 1 : (IF i = n + 1 THEN m + 1 ELSE f[i]) \in 1..m + 1
    BY <1>1, <1>4, <1>5
  <2> QED BY <2>1
<1> HIDE DEF g
<1>8. \A i \in 1..n + 1 : log'[Cut[b]][g[i]].at = tries'[b][i]
  BY <1>1, <1>3, <1>4, <1>5, <1>6
<1>9. \A i, j \in 1..n + 1 : i <= j => g[i] + (j - i) <= g[j]
  <2> SUFFICES ASSUME NEW i \in 1..n + 1, NEW j \in 1..n + 1, i <= j
               PROVE  g[i] + (j - i) <= g[j]
    OBVIOUS
  <2>1. CASE i = n + 1
    <3>1. j = n + 1 BY <1>2, <2>1
    <3> QED BY <1>1, <1>6, <2>1, <3>1
  <2>2. CASE i \in 1..n /\ j \in 1..n BY <1>4, <1>6, <2>2
  <2>3. CASE i \in 1..n /\ j = n + 1
    <3>1. n \in 1..n /\ i <= n BY <1>2, <2>3
    <3>2. f[n] \in 1..m /\ f[i] \in 1..m BY <1>4, <2>3, <3>1
    <3>4. f[i] + (n - i) <= f[n] BY <1>4, <2>3, <3>1
    <3>3. f[i] + ((n + 1) - i) <= m + 1 BY <1>1, <1>2, <2>3, <3>2, <3>4
    <3> QED BY <1>6, <2>3, <3>3
  <2> QED BY <1>5, <2>1, <2>2, <2>3
<1>10. \E h \in [1..n + 1 -> 1..m + 1] :
         /\ \A i \in 1..n + 1 : log'[Cut[b]][h[i]].at = tries'[b][i]
         /\ \A i, j \in 1..n + 1 : i <= j => h[i] + (j - i) <= h[j]
  BY <1>7, <1>8, <1>9
<1> QED BY <1>1, <1>3, <1>10 DEF TriesLogged

LEMMA MaybeOneMore ==
  ASSUME NEW S, NEW x, IsFiniteSet(S)
  PROVE  /\ IsFiniteSet(S \cup {x}) /\ Cardinality(S) \in Nat
         /\ Cardinality(S \cup {x}) <= Cardinality(S) + 1
<1> DEFINE c == Cardinality(S)
           d == Cardinality(S \cup {x})
<1>1. c \in Nat BY FS_CardinalityType
<1>2. IsFiniteSet(S \cup {x}) /\ d = IF x \in S THEN c ELSE c + 1 BY FS_AddElement
<1> HIDE DEF c, d
<1>3. d <= c + 1 BY <1>1, <1>2
<1> QED BY <1>1, <1>2, <1>3 DEF c, d

\* A request takes from what it paid for when it charges the account.
LEMMA ChargedOnce ==
  ASSUME LoginInv, NEW r \in Req, ChargeAccount(r)
  PROVE  ChargesPaid'
<1> DEFINE k == Charged(r)
<1>1. pc[r] = "account" /\ k \in Address /\ k \in Key BY ChargedKeys DEF ChargeAccount, LoginInv
<1>2. Waiting' = Waiting \ {r}
  BY DEF ChargeAccount, Goto, Reply, Waiting, LoginInv, LoginTypeOK
<1>3. \A a \in Address \ {k} : hits'[a] = hits[a]
  BY <1>1, AllowLogs, KeyAssumption DEF ChargeAccount, Logs, Refuse, vars, LoginInv
<1>4. \A ip \in Ip : log'[ip] = log[ip]
  BY <1>1, AllowLogs, KeyAssumption DEF ChargeAccount, Logs, Refuse, vars, LoginInv
<1> HIDE DEF k
<1>5. Paid' = Paid BY <1>4 DEF Paid
<1>6. Held' \subseteq Held \cup {k} BY <1>1, <1>3 DEF Held
<1>7. /\ IsFiniteSet(Held) /\ IsFiniteSet(Waiting) /\ IsFiniteSet(Paid)
      /\ Cardinality(Held) + Cardinality(Waiting) <= Cardinality(Paid)
  BY DEF LoginInv, ChargesPaid
<1>8. /\ IsFiniteSet(Held \cup {k}) /\ Cardinality(Held \cup {k}) <= Cardinality(Held) + 1
      /\ Cardinality(Held) \in Nat
  BY <1>7, MaybeOneMore
<1>9. IsFiniteSet(Held') /\ Cardinality(Held') <= Cardinality(Held \cup {k})
  BY <1>6, <1>8, FS_Subset
<1>10. r \in Waiting BY <1>1 DEF Waiting
<1>11. /\ IsFiniteSet(Waiting \ {r}) /\ Cardinality(Waiting \ {r}) = Cardinality(Waiting) - 1
       /\ Cardinality(Waiting) \in Nat /\ Cardinality(Paid) \in Nat
  BY <1>7, <1>10, FS_RemoveElement, FS_CardinalityType
<1>12. Cardinality(Held') \in Nat /\ Cardinality(Held \cup {k}) \in Nat
  BY <1>8, <1>9, FS_CardinalityType
<1> QED BY <1>2, <1>5, <1>7, <1>8, <1>9, <1>11, <1>12 DEF ChargesPaid

\* What a host pays for waits to be charged to an account.
LEMMA HostPays ==
  ASSUME LoginInv, NEW r \in Req, ChargeHost(r)
  PROVE  ChargesPaid'
<1> DEFINE k == Charged(r)
           new == <<k, Len(log[k]) + 1>>
<1>1. pc[r] = "ip" /\ k \in Ip /\ k \in Key BY ChargedKeys DEF ChargeHost, LoginInv
<1>2. /\ IsFiniteSet(Held) /\ IsFiniteSet(Waiting) /\ IsFiniteSet(Paid)
      /\ Cardinality(Held) + Cardinality(Waiting) <= Cardinality(Paid)
  BY DEF LoginInv, ChargesPaid
<1>3. CASE Refuse(k) /\ HostRefused(r)
  <2>1. Waiting' = Waiting BY <1>1, <1>3 DEF HostRefused, Reply, Waiting, LoginInv, LoginTypeOK
  <2>2. Held' = Held /\ Paid' = Paid BY <1>3 DEF Refuse, vars, Held, Paid
  <2> QED BY <1>2, <2>1, <2>2 DEF ChargesPaid
<1>4. CASE Allow(k) /\ Goto(r, "account")
  <2>1. Logs(k) BY <1>1, <1>4, AllowLogs DEF LoginInv
  <2>2. Waiting' = Waiting \cup {r} BY <1>4 DEF Goto, Waiting, LoginInv, LoginTypeOK
  <2>3. Held' = Held BY <1>1, <2>1, KeyAssumption DEF Held, Logs
  <2>4. /\ Len(log'[k]) = Len(log[k]) + 1 /\ Len(log[k]) \in Nat
        /\ \A ip \in Ip \ {k} : log'[ip] = log[ip]
    BY <1>1, <2>1, LogsGrow, KeyAssumption DEF Logs, LoginInv
  <2> HIDE DEF k
  <2>5. 1..Len(log[k]) + 1 = 1..Len(log[k]) \cup {Len(log[k]) + 1} BY <2>4
  <2> DEFINE At(ip) == {<<ip, i>> : i \in 1..Len(log[ip])}
             Then(ip) == {<<ip, i>> : i \in 1..Len(log'[ip])}
  <2>6. Then(k) = At(k) \cup {new} BY <2>4, <2>5
  <2>7. \A ip \in Ip \ {k} : Then(ip) = At(ip) BY <2>4
  <2>8. Paid = UNION {At(ip) : ip \in Ip} /\ Paid' = UNION {Then(ip) : ip \in Ip} BY DEF Paid
  <2>9. new \notin Paid
    <3> SUFFICES ASSUME NEW ip \in Ip, NEW i \in 1..Len(log[ip]), new = <<ip, i>> PROVE FALSE
      BY DEF Paid
    <3>1. ip = k /\ i = Len(log[k]) + 1 OBVIOUS
    <3> QED BY <2>4, <3>1
  <2> HIDE DEF At, Then, new
  <2>10. Paid' = Paid \cup {new} BY <1>1, <2>6, <2>7, <2>8
  <2>11. IsFiniteSet(Paid') /\ Cardinality(Paid') = Cardinality(Paid) + 1
    BY <1>2, <2>9, <2>10, FS_AddElement
  <2>12. IsFiniteSet(Waiting') /\ Cardinality(Waiting') <= Cardinality(Waiting) + 1
    BY <1>2, <2>2, MaybeOneMore
  <2>13. /\ Cardinality(Held) \in Nat /\ Cardinality(Waiting) \in Nat /\ Cardinality(Paid) \in Nat
         /\ Cardinality(Waiting') \in Nat
    BY <1>2, <2>12, FS_CardinalityType
  <2> QED BY <1>2, <2>3, <2>11, <2>12, <2>13 DEF ChargesPaid
<1> QED BY <1>3, <1>4 DEF ChargeHost

\* What the steps that charge nothing keep.
LEMMA RestKept ==
  ASSUME LoginInv, UNCHANGED <<hits, log, tries>>, now' \in Nat, now <= now', Waiting' = Waiting
  PROVE  /\ \A k \in Key : InOrder(k)'
         /\ \A a \in Address : TriesLogged(a)'
         /\ ChargesPaid'
<1>1. ASSUME NEW k \in Key PROVE InOrder(k)'
  <2>1. InOrder(k) /\ log[k] \in Seq(Pass) /\ now \in Nat BY DEF LoginInv, IInv, TypeOK
  <2>2. \A i \in 1..Len(log[k]) : log[k][i].at \in Nat
    <3>1. \A i \in 1..Len(log[k]) : log[k][i] \in Pass BY <2>1, ElementOfSeq
    <3> QED BY <3>1 DEF Pass
  <2>3. \A i \in 1..Len(log[k]) : log[k][i].at <= now' BY <2>1, <2>2 DEF InOrder
  <2> QED BY <2>1, <2>3 DEF InOrder
<1>2. \A a \in Address : TriesLogged(a)' BY DEF LoginInv, TriesLogged
<1>3. ChargesPaid' BY DEF LoginInv, ChargesPaid, Held, Paid
<1> QED BY <1>1, <1>2, <1>3

LEMMA RequestTyped ==
  ASSUME LoginTypeOK, NEW r \in Req, NEW s \in {200, 403, 429, 500}, pc[r] # "idle",
         Reply(r, s), tries' = tries
  PROVE  LoginTypeOK'
<1> DEFINE v == [arg[r] EXCEPT !.status = s]
<1>1. arg[r] \in [ip : Ip \cup {NULL}, addr : Address \cup {NULL},
                  status : {0, 200, 403, 429, 500}]
  BY DEF LoginTypeOK
<1>2. /\ v \in [ip : Ip \cup {NULL}, addr : Address \cup {NULL},
                status : {0, 200, 403, 429, 500}]
      /\ v.ip = arg[r].ip /\ v.addr = arg[r].addr
  BY <1>1
<1>3. arg' = [arg EXCEPT ![r] = v] /\ pc' = [pc EXCEPT ![r] = "replied"] BY DEF Reply
<1> HIDE DEF v
<1>4. \A q \in Req : /\ arg'[q] = IF q = r THEN v ELSE arg[q]
                     /\ pc'[q] = IF q = r THEN "replied" ELSE pc[q]
  BY <1>3 DEF LoginTypeOK
<1>5. arg' \in [Req -> [ip : Ip \cup {NULL}, addr : Address \cup {NULL},
                        status : {0, 200, 403, 429, 500}]]
  BY <1>2, <1>3 DEF LoginTypeOK
<1>6. pc' \in [Req -> {"idle", "ip", "account", "login", "replied"}]
  BY <1>3 DEF LoginTypeOK
<1>7. \A q \in Req : pc'[q] # "idle" => arg'[q].ip \in Ip /\ arg'[q].addr \in Address
  BY <1>2, <1>4 DEF LoginTypeOK
<1> QED BY <1>5, <1>6, <1>7 DEF LoginTypeOK

LEMMA GotoTyped ==
  ASSUME LoginTypeOK, NEW r \in Req, NEW p \in {"account", "login"}, pc[r] # "idle", Goto(r, p),
         tries' \in [Address -> Seq(Nat)]
  PROVE  LoginTypeOK'
<1>1. pc' = [pc EXCEPT ![r] = p] /\ arg' = arg BY DEF Goto
<1>2. pc' \in [Req -> {"idle", "ip", "account", "login", "replied"}] BY <1>1 DEF LoginTypeOK
<1>3. \A q \in Req : pc'[q] # "idle" => pc[q] # "idle" BY <1>1 DEF LoginTypeOK
<1> QED BY <1>1, <1>2, <1>3 DEF LoginTypeOK

LEMMA ChargeHostKeeps ==
  ASSUME LoginInv, NEW r \in Req, ChargeHost(r)
  PROVE  LoginInv'
<1> DEFINE k == Charged(r)
<1>0. LoginTypeOK /\ IInv /\ pc[r] = "ip" /\ k \in Key /\ tries' = tries
  BY ChargedKeys DEF ChargeHost, LoginInv
<1>1. CASE Allow(k) /\ Goto(r, "account")
  <2>1. Logs(k) /\ IInv' BY <1>0, <1>1, AllowLogs, AllowKeeps
  <2>2. LoginTypeOK' BY <1>0, <1>1, GotoTyped DEF LoginTypeOK
  <2>3. \A q \in Key : InOrder(q)' BY <1>0, <2>1, OrderKept DEF LoginInv
  <2>4. \A a \in Address : TriesLogged(a)' BY <1>0, <2>1, TriesStay DEF LoginInv
  <2> QED BY <2>1, <2>2, <2>3, <2>4, HostPays DEF LoginInv
<1>2. CASE Refuse(k) /\ HostRefused(r)
  <2>1. UNCHANGED vars BY <1>2 DEF Refuse
  <2>2. Waiting' = Waiting BY <1>0, <1>2 DEF HostRefused, Reply, Waiting, LoginTypeOK
  <2>3. LoginTypeOK' BY <1>0, <1>2, RequestTyped DEF HostRefused
  <2>4. IInv' BY <1>0, <2>1, NextKeeps
  <2>5. now' \in Nat /\ now <= now' BY <1>0, <2>1 DEF vars, IInv, TypeOK
  <2> QED BY <1>0, <2>1, <2>2, <2>3, <2>4, <2>5, RestKept DEF LoginInv, vars
<1> QED BY <1>1, <1>2 DEF ChargeHost

LEMMA ChargeAccountKeeps ==
  ASSUME LoginInv, NEW r \in Req, ChargeAccount(r)
  PROVE  LoginInv'
<1>p. PICK k \in Key, b \in Address : k = Charged(r) /\ b = normEmail(arg[r].addr) /\ k = Cut[b]
  BY ChargedKeys DEF ChargeAccount, LoginInv
<1>0. LoginTypeOK /\ IInv /\ pc[r] = "account" /\ tries \in [Address -> Seq(Nat)]
  BY DEF ChargeAccount, LoginInv, LoginTypeOK
<1>1. CASE Allow(k) /\ tries' = [tries EXCEPT ![b] = Append(@, now)] /\ Goto(r, "login")
  <2>1. Logs(Cut[b]) /\ IInv' BY <1>p, <1>0, <1>1, AllowLogs, AllowKeeps
  <2>2. Append(tries[b], now) \in Seq(Nat) BY <1>0, AppendProperties DEF IInv, TypeOK
  <2>3. tries' \in [Address -> Seq(Nat)] /\ tries'[b] = Append(tries[b], now)
        /\ \A a \in Address \ {b} : tries'[a] = tries[a]
    BY <1>0, <1>1, <2>2
  <2>4. LoginTypeOK' BY <1>0, <1>1, <2>3, GotoTyped
  <2>5. \A q \in Key : InOrder(q)' BY <1>p, <1>0, <2>1, OrderKept DEF LoginInv
  <2>6. \A a \in Address \ {b} : TriesLogged(a)' BY <1>p, <1>0, <2>1, <2>3, TriesStay DEF LoginInv
  <2>7. TriesLogged(b) /\ tries[b] \in Seq(Nat) BY <1>0 DEF LoginInv
  <2>9. TriesLogged(b)' BY <1>0, <2>1, <2>3, <2>7, TryLogged
  <2>10. \A a \in Address : TriesLogged(a)'
    <3> SUFFICES ASSUME NEW a \in Address PROVE TriesLogged(a)' OBVIOUS
    <3>1. CASE a = b BY <2>9, <3>1 DEF TriesLogged
    <3>2. CASE a # b BY <2>6, <3>2
    <3> QED BY <3>1, <3>2
  <2>11. ChargesPaid' BY ChargedOnce
  <2> QED BY <2>1, <2>4, <2>5, <2>10, <2>11 DEF LoginInv
<1>2. CASE Refuse(k) /\ Reply(r, 429) /\ tries' = tries
  <2>1. UNCHANGED vars BY <1>2 DEF Refuse
  <2>2. LoginTypeOK' BY <1>0, <1>2, RequestTyped
  <2>3. IInv' BY <1>0, <2>1, NextKeeps
  <2>4. \A q \in Key : InOrder(q)' BY <2>1 DEF vars, InOrder, LoginInv
  <2>5. \A a \in Address : TriesLogged(a)'
    <3>1. log' = log /\ tries' = tries BY <1>2, <2>1 DEF vars
    <3> QED BY <3>1 DEF TriesLogged, LoginInv
  <2> QED BY <2>2, <2>3, <2>4, <2>5, ChargedOnce DEF LoginInv
<1> QED BY <1>p, <1>1, <1>2 DEF ChargeAccount

LEMMA StartKeeps ==
  ASSUME LoginInv, NEW r \in Req, NEW ip \in Ip, NEW a \in Address, Start(r, ip, a)
  PROVE  LoginInv'
<1> DEFINE v == [ip |-> ip, addr |-> a, status |-> 0]
<1>1. /\ pc[r] = "idle" /\ pc' = [pc EXCEPT ![r] = "ip"] /\ arg' = [arg EXCEPT ![r] = v]
      /\ UNCHANGED vars /\ tries' = tries /\ LoginTypeOK /\ IInv
  BY DEF Start, vars, LoginInv
<1>2. v \in [ip : Ip \cup {NULL}, addr : Address \cup {NULL}, status : {0, 200, 403, 429, 500}]
      /\ v.ip \in Ip /\ v.addr \in Address
  OBVIOUS
<1> HIDE DEF v
<1>3. \A q \in Req : /\ arg'[q] = IF q = r THEN v ELSE arg[q]
                     /\ pc'[q] = IF q = r THEN "ip" ELSE pc[q]
  BY <1>1 DEF LoginTypeOK
<1>4. arg' \in [Req -> [ip : Ip \cup {NULL}, addr : Address \cup {NULL},
                        status : {0, 200, 403, 429, 500}]]
  BY <1>1, <1>2 DEF LoginTypeOK
<1>5. pc' \in [Req -> {"idle", "ip", "account", "login", "replied"}]
  BY <1>1 DEF LoginTypeOK
<1>6. \A q \in Req : pc'[q] # "idle" => arg'[q].ip \in Ip /\ arg'[q].addr \in Address
  BY <1>1, <1>2, <1>3 DEF LoginTypeOK
<1>7. LoginTypeOK' BY <1>1, <1>4, <1>5, <1>6 DEF LoginTypeOK
<1>8. Waiting' = Waiting BY <1>1, <1>3 DEF Waiting
<1>9. IInv' /\ now' \in Nat /\ now <= now' BY <1>1, NextKeeps DEF vars, IInv, TypeOK
<1> QED BY <1>1, <1>7, <1>8, <1>9, RestKept DEF LoginInv, vars

LEMMA LoginKeeps ==
  ASSUME LoginInv, NEW r \in Req, Login(r)
  PROVE  LoginInv'
<1>1. PICK s \in {200, 403, 500} : Reply(r, s) BY DEF Login
<1>2. UNCHANGED vars /\ tries' = tries /\ LoginTypeOK /\ IInv /\ pc[r] = "login"
  BY DEF Login, vars, LoginInv
<1>3. LoginTypeOK' BY <1>1, <1>2, RequestTyped
<1>4. Waiting' = Waiting BY <1>1, <1>2 DEF Reply, Waiting, LoginTypeOK
<1>5. IInv' /\ now' \in Nat /\ now <= now' BY <1>2, NextKeeps DEF vars, IInv, TypeOK
<1> QED BY <1>2, <1>3, <1>4, <1>5, RestKept DEF LoginInv, vars

LEMMA ReturnKeeps ==
  ASSUME LoginInv, NEW r \in Req, Return(r)
  PROVE  LoginInv'
<1>1. /\ pc[r] = "replied" /\ pc' = [pc EXCEPT ![r] = "idle"] /\ arg' = [arg EXCEPT ![r] = NoArg]
      /\ UNCHANGED vars /\ tries' = tries /\ LoginTypeOK /\ IInv
  BY DEF Return, vars, LoginInv
<1>2. NoArg \in [ip : Ip \cup {NULL}, addr : Address \cup {NULL}, status : {0, 200, 403, 429, 500}]
  BY DEF NoArg
<1>3. \A q \in Req : /\ arg'[q] = IF q = r THEN NoArg ELSE arg[q]
                     /\ pc'[q] = IF q = r THEN "idle" ELSE pc[q]
  BY <1>1 DEF LoginTypeOK
<1>4. arg' \in [Req -> [ip : Ip \cup {NULL}, addr : Address \cup {NULL},
                        status : {0, 200, 403, 429, 500}]]
  BY <1>1, <1>2 DEF LoginTypeOK
<1>5. pc' \in [Req -> {"idle", "ip", "account", "login", "replied"}]
  BY <1>1 DEF LoginTypeOK
<1>6. LoginTypeOK' BY <1>1, <1>3, <1>4, <1>5 DEF LoginTypeOK
<1>7. Waiting' = Waiting BY <1>1, <1>3 DEF Waiting
<1>8. IInv' /\ now' \in Nat /\ now <= now' BY <1>1, NextKeeps DEF vars, IInv, TypeOK
<1> QED BY <1>1, <1>6, <1>7, <1>8, RestKept DEF LoginInv, vars

\* Nothing has been counted, tried or paid: as at the start, and after a restart.
Blank ==
  /\ \A k \in Key : log[k] = <<>> /\ hits[k] = NULL
  /\ tries = [a \in Address |-> <<>>]
  /\ pc = [r \in Req |-> "idle"] /\ arg = [r \in Req |-> NoArg]

\* What LoginInv adds to IInv.
OfLogins ==
  /\ LoginTypeOK
  /\ \A k \in Key : InOrder(k)
  /\ \A a \in Address : TriesLogged(a)
  /\ ChargesPaid

LEMMA NothingYet == Blank => OfLogins
<1> SUFFICES ASSUME Blank PROVE OfLogins OBVIOUS
<1> USE DEF Blank
<1>0. Len(<<>>) = 0 /\ 1..0 = {} OBVIOUS
<1>1. LoginTypeOK
  <2>1. NoArg \in [ip : Ip \cup {NULL}, addr : Address \cup {NULL},
                   status : {0, 200, 403, 429, 500}]
    BY DEF NoArg
  <2>2. tries \in [Address -> Seq(Nat)] OBVIOUS
  <2> QED BY <2>1, <2>2 DEF LoginTypeOK
<1>2. \A k \in Key : InOrder(k)
  <2>1. \A k \in Key : 1..Len(log[k]) = {} BY <1>0, Zenon
  <2> QED BY <2>1 DEF InOrder
<1>3. ASSUME NEW a \in Address PROVE TriesLogged(a)
  <2>1. Cut[a] \in Key BY CutAssumption, KeyAssumption
  <2>2. 1..Len(tries[a]) = {} BY <1>0
  <2>3. \E f \in [{} -> 1..Len(log[Cut[a]])] : TRUE
    <3>1. [i \in {} |-> 0] \in [{} -> 1..Len(log[Cut[a]])] OBVIOUS
    <3> QED BY <3>1
  <2> QED BY <2>2, <2>3 DEF TriesLogged
<1>4. Held = {} /\ Waiting = {} /\ Paid = {}
  <2>1. Held = {} BY KeyAssumption DEF Held
  <2>2. Waiting = {} BY DEF Waiting
  <2>3. \A ip \in Ip : 1..Len(log[ip]) = {} BY <1>0, KeyAssumption, Zenon
  <2>4. Paid = {} BY <2>3 DEF Paid
  <2> QED BY <2>1, <2>2, <2>4
<1>5. ChargesPaid BY <1>4, FS_EmptySet DEF ChargesPaid
<1> QED BY <1>1, <1>2, <1>3, <1>5 DEF OfLogins

LEMMA LoginInitHolds == LoginInit => LoginInv
<1> SUFFICES ASSUME LoginInit PROVE LoginInv OBVIOUS
<1>1. IInv BY InitHolds DEF LoginInit
<1>2. \A k \in Key : log[k] = <<>> /\ hits[k] = NULL BY DEF LoginInit, Init
<1> QED BY <1>1, <1>2, NothingYet DEF LoginInit, LoginInv, Blank, OfLogins

LEMMA LoginRestartKeeps ==
  ASSUME LoginInv, LoginRestart
  PROVE  LoginInv'
<1>1. IInv' BY RestartKeeps DEF LoginInv, LoginRestart
<1>2. Blank' BY DEF LoginRestart, Restart, Blank
<1>3. OfLogins' BY <1>2, NothingYet, PTL
<1> QED BY <1>1, <1>3 DEF OfLogins, LoginInv

LEMMA LoginTickKeeps ==
  ASSUME LoginInv, LoginTick
  PROVE  LoginInv'
<1>1. UNCHANGED <<hits, log, tries, pc, arg>> /\ now' \in Nat /\ now <= now'
  BY DEF LoginTick, Tick, LoginInv, IInv, TypeOK
<1>2. IInv' BY TickKeeps DEF LoginTick, LoginInv
<1>3. LoginTypeOK' /\ Waiting' = Waiting BY <1>1 DEF LoginInv, LoginTypeOK, Waiting
<1> QED BY <1>1, <1>2, <1>3, RestKept DEF LoginInv

LEMMA LoginNextKeeps == LoginInv /\ [LoginNext]_loginVars => LoginInv'
<1> SUFFICES ASSUME LoginInv, [LoginNext]_loginVars PROVE LoginInv' OBVIOUS
<1>1. CASE UNCHANGED loginVars
  <2>1. UNCHANGED <<hits, log, tries, pc, arg>> /\ now' = now BY <1>1 DEF loginVars
  <2>2. LoginTypeOK' /\ Waiting' = Waiting BY <2>1 DEF LoginInv, LoginTypeOK, Waiting
  <2>3. IInv' /\ now' \in Nat /\ now <= now'
    BY <2>1, NextKeeps DEF LoginInv, vars, IInv, TypeOK
  <2> QED BY <2>1, <2>2, <2>3, RestKept DEF LoginInv
<1>2. ASSUME NEW r \in Req, NEW ip \in Ip, NEW a \in Address, Start(r, ip, a) PROVE LoginInv'
  BY <1>2, StartKeeps
<1>3. ASSUME NEW r \in Req, ChargeHost(r) \/ ChargeAccount(r) \/ Login(r) \/ Return(r)
      PROVE  LoginInv'
  BY <1>3, ChargeHostKeeps, ChargeAccountKeeps, LoginKeeps, ReturnKeeps
<1> QED BY <1>1, <1>2, <1>3, LoginRestartKeeps, LoginTickKeeps DEF LoginNext

-----------------------------------------------------------------------------

\* The inductive invariant of logins, Limiter's among its parts.
THEOREM LoginInvariance == LoginSpec => []LoginInv
<1> QED BY LoginInitHolds, LoginNextKeeps, PTL DEF LoginSpec

\* Whatever requests do between their charges, what they do to the counters is a
\* run of the limiter (AuthLogin), so all that is proved of it holds here.
THEOREM LoginsLimited == LoginSpec => Spec
<1>1. LoginInit => Init BY DEF LoginInit
<1>2. LoginInv => LoginTypeOK BY DEF LoginInv
<1>3. LoginTypeOK /\ [LoginNext]_loginVars => [Next]_vars BY LoginStepsLimit
<1> QED BY <1>1, <1>2, <1>3, LoginInvariance, PTL DEF LoginSpec, Spec

\* Guesses at one account are bounded in every stretch of one Window, whatever
\* hosts make them, however the address is typed and however requests
\* interleave: each is an attempt of the account's key (AuthLogin, emailKey).
THEOREM GuessesBounded == LoginSpec => []GuessBound
<1>1. LoginInv => GuessBound
  <2> SUFFICES ASSUME LoginInv, NEW a \in Address, NEW i \in 1..Len(tries[a]),
                      i + 2 * MaxHits <= Len(tries[a])
               PROVE  tries[a][i] + Window < tries[a][i + 2 * MaxHits]
    BY DEF GuessBound
  <2> DEFINE k == Cut[a]
             L == log[k]
             n == Len(tries[a])
             j == i + 2 * MaxHits
  <2>1. k \in Key BY CutAssumption, KeyAssumption
  <2>2. MaxHits \in Nat \ {0} /\ Window \in Nat BY LimitAssumption
  <2>3. n \in Nat /\ L \in Seq(Pass) /\ Len(L) \in Nat
    BY <2>1 DEF LoginInv, LoginTypeOK, IInv, TypeOK
  <2>4. PICK f \in [1..n -> 1..Len(L)] :
          /\ \A h \in 1..n : L[f[h]].at = tries[a][h]
          /\ \A g, h \in 1..n : g <= h => f[g] + (h - g) <= f[h]
    BY DEF LoginInv, TriesLogged
  <2>5. j \in 1..n /\ i <= j /\ j - i = 2 * MaxHits /\ i \in 1..n BY <2>2, <2>3
  <2> HIDE DEF n
  <2>6. f[i] \in 1..Len(L) /\ f[j] \in 1..Len(L) BY <2>4, <2>5
  <2>7. f[i] + 2 * MaxHits <= f[j] BY <2>4, <2>5
  <2> DEFINE m == f[i] + 2 * MaxHits
  <2>8. m \in 1..Len(L) /\ m <= f[j] /\ m <= Len(L) BY <2>2, <2>3, <2>6, <2>7
  <2>9. L[f[i]].at + Window < L[m].at
    BY <2>1, <2>6, <2>8, WindowsBoundBursts DEF LoginInv, IInv
  <2>10. L[m].at <= L[f[j]].at BY <2>1, <2>6, <2>8 DEF LoginInv, InOrder
  <2>11. L[f[i]].at = tries[a][i] /\ L[f[j]].at = tries[a][j] BY <2>4, <2>5
  <2>12. L[f[i]].at \in Nat /\ L[m].at \in Nat /\ L[f[j]].at \in Nat
    <3>1. L[f[i]] \in Pass /\ L[m] \in Pass /\ L[f[j]] \in Pass
      BY <2>3, <2>6, <2>8, ElementOfSeq
    <3> QED BY <3>1 DEF Pass
  <2> HIDE DEF m, j, L
  <2>13. \A x, y, z \in Nat : x + Window < y /\ y <= z => x + Window < z BY <2>2
  <2>14. L[f[i]].at + Window < L[f[j]].at BY <2>9, <2>10, <2>12, <2>13
  <2> QED BY <2>11, <2>14 DEF j
<1> QED BY <1>1, LoginInvariance, PTL

\* A host that is refused leaves nothing behind: at any time the map holds no
\* more accounts than hosts were allowed attempts (AuthLogin).
THEOREM AccountsArePaidFor == LoginSpec => []AccountsPaidFor
<1>1. LoginInv => AccountsPaidFor
  <2> SUFFICES ASSUME LoginInv PROVE Cardinality(Held) <= Cardinality(Paid)
    BY DEF AccountsPaidFor
  <2>1. /\ Cardinality(Held) \in Nat /\ Cardinality(Waiting) \in Nat /\ Cardinality(Paid) \in Nat
        /\ Cardinality(Held) + Cardinality(Waiting) <= Cardinality(Paid)
    BY FS_CardinalityType DEF LoginInv, ChargesPaid
  <2> QED BY <2>1
<1> QED BY <1>1, LoginInvariance, PTL
=============================================================================
