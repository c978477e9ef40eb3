--------------------------- MODULE SessionsProofs ---------------------------
(***************************************************************************)
(* The invariants of Sessions, for any number of requests, users and       *)
(* sessions and any SessionTTL that leaves room for two Timeouts after its *)
(* first half.  An action of request r changes pc and arg of r alone, and  *)
(* the session rows in one of the four ways of RowStep; OthersKeep shows   *)
(* once and for all that this cannot hurt what another request relies on,  *)
(* so that each action owes only its own request.                          *)
(***************************************************************************)
EXTENDS Sessions, TLAPS

Answers(r) ==
  /\ pc[r] = "replied" /\ arg[r].op = "change" /\ arg[r].status = 204 =>
       \A id \in arg[r].before : sess[id] = Gone
  /\ pc[r] = "replied" /\ arg[r].op = "logout" /\ arg[r].status = 204 /\ ~arg[r].lost =>
       sess[arg[r].id] = Gone
  /\ pc[r] = "replied" /\ arg[r].op = "me" /\ arg[r].status = 200 /\ ~arg[r].lost
       /\ Open(arg[r].id) => arg[r].at + Half <= sess[arg[r].id].expires

ReqOK(r) == ArgFits(r) /\ ChangeCovers(r) /\ ExpiryCovers(r) /\ Answers(r)

Pc == Steps \cup {"idle", "replied"}

\* How an action of request r may change the row of session id: not at all,
\* insert it, delete it, or write an expiry computed at most Timeout ago.
RowStep(r, id) ==
  \/ sess'[id] = sess[id]
  \/ sess[id] = NULL /\ pc[r] \in Opening /\ arg[r].id = id /\ Open(id)'
  \/ Open(id) /\ sess'[id] = Gone
  \/ /\ Open(id) /\ Open(id)' /\ sess'[id].user = sess[id].user
     /\ now + SessionTTL <= sess'[id].expires + Timeout

\* An action of request r moves no other request, and ends in a known state.
Moves(r) ==
  /\ pc' \in [Req -> Pc] /\ arg' \in [Req -> Arg]
  /\ \A q \in Req : q # r => pc'[q] = pc[q] /\ arg'[q] = arg[q]

\* It heads for an insertion only with an id that nobody else has drawn.
KeepsIds(r) ==
  pc'[r] \in Opening => \/ pc[r] \in Opening /\ arg'[r].id = arg[r].id
                        \/ \A q \in Req : arg[q].id # arg'[r].id

\* Half of the lifetime is a natural number.
LEMMA HalfNat == Half \in Nat
BY ClockAssumption DEF Half

\* The invariant is a property of the rows and of each request by itself.
LEMMA Split == IInv <=> TypeOK /\ IdsReserved /\ \A r \in Req : ReqOK(r)
BY DEF IInv, ReqOK, Answers, ChangeEndsEarlierSessions, LogoutEndsSession,
       UseKeepsAlive

\* The same after a step.
LEMMA Joined ==
  ASSUME TypeOK', IdsReserved', \A r \in Req : ReqOK(r)'
  PROVE  IInv'
<1>1. \A r \in Req : ArgFits(r)' /\ ChangeCovers(r)' /\ ExpiryCovers(r)' /\ Answers(r)'
  BY DEF ReqOK
<1>2. ChangeEndsEarlierSessions' /\ LogoutEndsSession' /\ UseKeepsAlive'
  BY <1>1 DEF Answers, ChangeEndsEarlierSessions, LogoutEndsSession, UseKeepsAlive
<1> QED
  BY <1>1, <1>2 DEF IInv

\* What a request relies on survives a step of any other request.
LEMMA OthersKeep ==
  ASSUME IInv, TypeOK', NEW r \in Req, NEW q \in Req, q # r,
         pc'[q] = pc[q], arg'[q] = arg[q], now' = now,
         \A id \in SessionId : RowStep(r, id)
  PROVE  ReqOK(q)'
<1> USE NullAssumption, RowAssumption, HalfNat, ClockAssumption, TimeoutAssumption
<1>1. TypeOK /\ IdsReserved /\ ReqOK(q) /\ ReqOK(r)
  BY Split
<1>2. \A id \in SessionId : sess[id] = Gone => sess'[id] = Gone
  BY DEF RowStep, Open
<1>3. arg[q] \in Arg /\ pc[q] \in Pc
  BY <1>1 DEF TypeOK, Pc
<1>4. ArgFits(q)'
  <2>1. pc[q] \in Opening => sess'[arg[q].id] = NULL
    <3>1. SUFFICES ASSUME pc[q] \in Opening PROVE sess'[arg[q].id] = NULL
      OBVIOUS
    <3>2. sess[arg[q].id] = NULL /\ arg[q].id \in SessionId
      BY <1>1, <1>3, <3>1 DEF ReqOK, ArgFits, Arg, Opt, Op, Status, IdSet
    <3>3. ~(pc[r] \in Opening /\ arg[r].id = arg[q].id)
      BY <1>1, <3>1 DEF IdsReserved
    <3> QED
      BY <3>2, <3>3 DEF RowStep, Open
  <2>2. arg[q].op \in WithCookie => sess'[arg[q].id] # NULL
    BY <1>1, <1>3 DEF ReqOK, ArgFits, Arg, Opt, Op, Status, IdSet, RowStep, Open
  <2> QED
    BY <1>1, <2>1, <2>2 DEF ReqOK, ArgFits
<1>5. ChangeCovers(q)'
  <2>1. \A id \in arg[q].before : id \in SessionId
    BY <1>3 DEF Arg, Opt, Op, Status, IdSet
  <2>2. \A id \in SessionId : Open(id) =>
          sess'[id] = Gone \/ (Open(id)' /\ sess'[id].user = sess[id].user)
    BY DEF RowStep, Open
  <2> QED
    BY <1>1, <1>2, <2>1, <2>2 DEF ReqOK, ChangeCovers
<1>6. \A id \in SessionId : Open(id)' =>
        sess[id] = NULL \/ sess'[id] = sess[id]
        \/ now + SessionTTL <= sess'[id].expires + Timeout
  BY DEF RowStep, Open
<1>7. \A id \in SessionId : Open(id)' => sess'[id].expires \in Nat
  BY DEF TypeOK, Open, Session
<1>8. /\ arg[q].start \in Nat /\ arg[q].at \in Nat /\ arg[q].exp \in Nat /\ now \in Nat
      /\ arg[q].start <= now /\ arg[q].at <= now
  BY <1>1, <1>3 DEF Arg, Opt, Op, Status, IdSet, TypeOK, ReqOK, ArgFits
<1>9. ExpiryCovers(q)'
  <2>1. CASE pc[q] = "check" /\ Open(arg[q].id)'
    <3>1. arg[q].id \in SessionId /\ sess[arg[q].id] # NULL
      BY <1>1, <1>3, <2>1 DEF ReqOK, ArgFits, Arg, Opt, Op, Status, IdSet
    <3>2. CASE sess'[arg[q].id] = sess[arg[q].id]
      BY <1>1, <2>1, <3>2 DEF ReqOK, ExpiryCovers, Open
    <3>3. CASE now + SessionTTL <= sess'[arg[q].id].expires + Timeout
      BY <1>7, <1>8, <2>1, <3>1, <3>3 DEF ExpiryCovers
    <3> QED
      BY <1>6, <2>1, <3>1, <3>2, <3>3
  <2>2. CASE pc[q] = "me" /\ ~arg[q].lost /\ Open(arg[q].id)'
             /\ arg[q].at <= arg[q].start + Timeout
    <3>1. arg[q].id \in SessionId /\ sess[arg[q].id] # NULL
      BY <1>1, <1>3, <2>2 DEF ReqOK, ArgFits, Arg, Opt, Op, Status, IdSet, WithCookie
    <3>2. CASE sess'[arg[q].id] = sess[arg[q].id]
      BY <1>1, <2>2, <3>2 DEF ReqOK, ExpiryCovers, Open
    <3>3. CASE now + SessionTTL <= sess'[arg[q].id].expires + Timeout
      BY <1>7, <1>8, <2>2, <3>1, <3>3 DEF ExpiryCovers
    <3> QED
      BY <1>6, <2>2, <3>1, <3>2, <3>3
  <2> QED
    BY <2>1, <2>2 DEF ExpiryCovers
<1>10. Answers(q)'
  <2>1. \A id \in arg[q].before : id \in SessionId
    BY <1>3 DEF Arg, Opt, Op, Status, IdSet
  <2>2. pc[q] = "replied" /\ arg[q].op = "logout" => arg[q].id \in SessionId
    BY <1>1, <1>3 DEF ReqOK, ArgFits, Arg, Opt, Op, Status, IdSet, WithCookie
  <2>3. CASE pc[q] = "replied" /\ arg[q].op = "me" /\ arg[q].status = 200 /\ ~arg[q].lost
             /\ Open(arg[q].id)'
    <3>1. arg[q].id \in SessionId /\ sess[arg[q].id] # NULL
      BY <1>1, <1>3, <2>3 DEF ReqOK, ArgFits, Arg, Opt, Op, Status, IdSet, WithCookie
    <3>2. CASE sess'[arg[q].id] = sess[arg[q].id]
      BY <1>1, <2>3, <3>2 DEF ReqOK, Answers, Open
    <3>3. CASE now + SessionTTL <= sess'[arg[q].id].expires + Timeout
      BY <1>7, <1>8, <2>3, <3>1, <3>3 DEF Answers
    <3> QED
      BY <1>6, <2>3, <3>1, <3>2, <3>3
  <2> QED
    BY <1>1, <1>2, <2>1, <2>2, <2>3 DEF ReqOK, Answers
<1> QED
  BY <1>4, <1>5, <1>9, <1>10 DEF ReqOK

\* A step of one request keeps the invariant as soon as its own part of it and
\* the types are kept, and it takes no session id another request has drawn.
LEMMA StepKeeps ==
  ASSUME IInv, TypeOK', NEW r \in Req, Moves(r), KeepsIds(r), now' = now,
         \A id \in SessionId : RowStep(r, id),
         ReqOK(r)'
  PROVE  IInv'
<1>1. IdsReserved
  BY Split
<1>2. \A q \in Req : ReqOK(q)'
  BY OthersKeep DEF Moves
<1>3. IdsReserved'
  BY <1>1 DEF IdsReserved, Moves, KeepsIds
<1> QED
  BY <1>2, <1>3, Joined

\* The same for a step that leaves the session rows alone.
LEMMA QuietStep ==
  ASSUME IInv, NEW r \in Req, Moves(r), KeepsIds(r),
         now' = now, sess' = sess, pw' \in [User -> Opt(Password)],
         ReqOK(r)'
  PROVE  IInv'
<1>1. TypeOK
  BY Split
<1>2. TypeOK'
  BY <1>1 DEF TypeOK, Pc, Moves
<1>3. \A id \in SessionId : RowStep(r, id)
  BY DEF RowStep
<1> QED
  BY <1>2, <1>3, StepKeeps

-----------------------------------------------------------------------------
(* One lemma per group of actions *)

\* What a reply does to the record of its request.
LEMMA ReplyMoves ==
  ASSUME TypeOK, NEW r \in Req, NEW s \in {200, 204, 401, 403, 404, 422, 500},
         Reply(r, s)
  PROVE  /\ Moves(r) /\ KeepsIds(r) /\ pc'[r] = "replied"
         /\ arg'[r].op = arg[r].op /\ arg'[r].user = arg[r].user
         /\ arg'[r].id = arg[r].id /\ arg'[r].given = arg[r].given
         /\ arg'[r].next = arg[r].next /\ arg'[r].start = arg[r].start
         /\ arg'[r].at = arg[r].at /\ arg'[r].exp = arg[r].exp
         /\ arg'[r].before = arg[r].before /\ arg'[r].doomed = arg[r].doomed
         /\ arg'[r].lost = arg[r].lost /\ arg'[r].status = s
<1> DEFINE a == [arg[r] EXCEPT !.status = s]
<1>1. arg[r] \in Arg
  BY DEF TypeOK
<1>2. /\ a \in Arg
      /\ a.op = arg[r].op /\ a.user = arg[r].user /\ a.id = arg[r].id
      /\ a.given = arg[r].given /\ a.next = arg[r].next /\ a.start = arg[r].start
      /\ a.at = arg[r].at /\ a.exp = arg[r].exp /\ a.before = arg[r].before
      /\ a.doomed = arg[r].doomed /\ a.lost = arg[r].lost /\ a.status = s
  BY <1>1 DEF Arg, Opt, Op, Status, IdSet
<1>3. /\ pc' = [pc EXCEPT ![r] = "replied"]
      /\ arg' = [arg EXCEPT ![r] = a]
  BY DEF Reply
<1> HIDE DEF a
<1>4. Moves(r) /\ pc'[r] = "replied" /\ arg'[r] = a
  BY <1>2, <1>3 DEF TypeOK, Moves, Pc
<1>5. KeepsIds(r)
  BY <1>4 DEF KeepsIds, Opening
<1> QED
  BY <1>2, <1>4, <1>5

\* What a request was sent is typed, and keeps what it was built from.
LEMMA SentTyped ==
  ASSUME NEW op \in Op, NEW u \in Opt(User), NEW id \in Opt(SessionId),
         NEW p \in Opt(Password), NEW n \in Opt(Password), NEW t \in Nat
  PROVE  /\ Sent(op, u, id, p, n, t) \in Arg
         /\ Sent(op, u, id, p, n, t).op = op /\ Sent(op, u, id, p, n, t).user = u
         /\ Sent(op, u, id, p, n, t).id = id /\ Sent(op, u, id, p, n, t).given = p
         /\ Sent(op, u, id, p, n, t).next = n /\ Sent(op, u, id, p, n, t).start = t
         /\ Sent(op, u, id, p, n, t).at = 0
<1>1. \A l \in BOOLEAN, S \in SUBSET SessionId, c \in Status :
        [op |-> op, user |-> u, id |-> id, given |-> p, next |-> n, start |-> t,
         at |-> 0, exp |-> 0, before |-> S, doomed |-> S, lost |-> l, status |-> c] \in Arg
  BY DEF Arg, IdSet
<1>2. FALSE \in BOOLEAN /\ {} \in SUBSET SessionId /\ 0 \in Status
  BY DEF Status
<1>3. Sent(op, u, id, p, n, t) \in Arg
  BY <1>1, <1>2, Zenon DEF Sent
<1> QED
  BY <1>3 DEF Sent

\* A failure that is only ignored leaves its mark and nothing else.
LEMMA LostTyped ==
  ASSUME NEW c \in Arg
  PROVE  LET a == [c EXCEPT !.lost = TRUE]
         IN  /\ a \in Arg /\ a.op = c.op /\ a.user = c.user /\ a.id = c.id
             /\ a.given = c.given /\ a.next = c.next /\ a.start = c.start
             /\ a.at = c.at /\ a.before = c.before /\ a.lost
<1>1. \A t \in BOOLEAN : [c EXCEPT !.lost = t] \in Arg
  BY DEF Arg
<1>2. [c EXCEPT !.lost = TRUE] \in Arg
  BY <1>1, Zenon
<1> QED
  BY <1>2 DEF Arg

\* Starting a request.
LEMMA StartKeeps ==
  ASSUME IInv, NEW r \in Req, Start(r)
  PROVE  IInv'
<1> USE NullAssumption, RowAssumption
<1>1. TypeOK
  BY Split
<1>2. ASSUME NEW p \in Opening \cup {"auth"}, NEW a \in Arg, Begin(r, p, a),
             a.start = now, a.at = 0,
             p \in Opening => /\ a.op \in {"signup", "login"} /\ a.user # NULL
                              /\ a.given # NULL /\ a.id # NULL /\ sess[a.id] = NULL
                              /\ \A q \in Req : arg[q].id # a.id,
             p = "auth" => /\ a.op \in WithCookie /\ a.id # NULL /\ sess[a.id] # NULL
                           /\ (a.op = "change" => a.next # NULL)
      PROVE  IInv'
  <2>1. pc' = [pc EXCEPT ![r] = p] /\ arg' = [arg EXCEPT ![r] = a]
        /\ now' = now /\ pw' = pw /\ sess' = sess
    BY <1>2 DEF Begin
  <2>2. Moves(r) /\ KeepsIds(r) /\ pc'[r] = p /\ arg'[r] = a
    BY <1>1, <1>2, <2>1 DEF TypeOK, Moves, KeepsIds, Pc, Steps, Opening
  <2>3. now \in Nat /\ pw' \in [User -> Opt(Password)]
    BY <1>1, <2>1 DEF TypeOK
  <2>4. ReqOK(r)'
    <3>1. ArgFits(r)'
      <4>1. /\ arg'[r].start <= now' /\ arg'[r].at <= now'
            /\ pc'[r] \notin {"me", "delete", "touch", "check"} \cup ChangeSteps
        BY <1>2, <2>1, <2>2, <2>3 DEF Opening, ChangeSteps
      <4>2. CASE p \in Opening
        BY <1>2, <2>1, <2>2, <4>1, <4>2 DEF ArgFits, Opening, WithCookie
      <4>3. CASE p = "auth"
        BY <1>2, <2>1, <2>2, <4>1, <4>3 DEF ArgFits, Opening, WithCookie
      <4> QED
        BY <4>2, <4>3
    <3>2. ChangeCovers(r)' /\ ExpiryCovers(r)' /\ Answers(r)'
      BY <1>2, <2>2 DEF ChangeCovers, ExpiryCovers, Answers, Opening, ChangeSteps
    <3> QED
      BY <3>1, <3>2 DEF ReqOK
  <2> QED
    BY <2>1, <2>2, <2>3, <2>4, QuietStep
<1>3. now \in Nat
  BY <1>1 DEF TypeOK
<1>4. ASSUME NEW u \in User, NEW q \in Password, NEW id \in SessionId,
             StartSignUp(r, u, q, id)
      PROVE  IInv'
  <2>1. PICK a : a = Sent("signup", u, id, q, NULL, now)
    OBVIOUS
  <2>2. /\ a \in Arg /\ a.start = now /\ a.at = 0 /\ a.op = "signup"
        /\ a.user = u /\ a.given = q /\ a.id = id
    BY <1>3, <2>1, SentTyped DEF Op, Opt
  <2>3. Begin(r, "signUp", a) /\ sess[id] = NULL /\ \A w \in Req : arg[w].id # id
    BY <1>4, <2>1 DEF StartSignUp, FreshSession
  <2> QED
    BY <1>2, <2>2, <2>3 DEF Opening
<1>5. ASSUME NEW u \in User, NEW q \in Password, NEW id \in SessionId,
             StartLogin(r, u, q, id)
      PROVE  IInv'
  <2>1. PICK a : a = Sent("login", u, id, q, NULL, now)
    OBVIOUS
  <2>2. /\ a \in Arg /\ a.start = now /\ a.at = 0 /\ a.op = "login"
        /\ a.user = u /\ a.given = q /\ a.id = id
    BY <1>3, <2>1, SentTyped DEF Op, Opt
  <2>3. Begin(r, "read", a) /\ sess[id] = NULL /\ \A w \in Req : arg[w].id # id
    BY <1>5, <2>1 DEF StartLogin, FreshSession
  <2> QED
    BY <1>2, <2>2, <2>3 DEF Opening
<1>6. ASSUME NEW id \in SessionId, StartWithCookie(r, id)
      PROVE  IInv'
  <2>1. PICK op \in WithCookie, p \in Opt(Password), n \in Opt(Password) :
          /\ Begin(r, "auth", Sent(op, NULL, id, p, n, now))
          /\ op = "change" => n \in Password
    BY <1>6 DEF StartWithCookie, WithCookie, Opt
  <2>2. PICK a : a = Sent(op, NULL, id, p, n, now)
    OBVIOUS
  <2>3. op \in Op /\ NULL \in Opt(User) /\ id \in Opt(SessionId)
    BY DEF WithCookie, Op, Opt
  <2>4. /\ a \in Arg /\ a.start = now /\ a.at = 0 /\ a.op = op
        /\ a.id = id /\ a.next = n
    BY <1>3, <2>2, <2>3, SentTyped
  <2>5. Begin(r, "auth", a) /\ sess[id] # NULL
    BY <1>6, <2>1, <2>2 DEF StartWithCookie
  <2> QED
    BY <1>2, <2>1, <2>4, <2>5 DEF Opening
<1> QED
  BY <1>4, <1>5, <1>6 DEF Start

\* A reply that changes no row: whatever the status says must hold by then.
LEMMA AnswerKeeps ==
  ASSUME IInv, NEW r \in Req, NEW s \in {200, 204, 401, 403, 404, 422, 500},
         pc[r] \in Steps, Reply(r, s),
         now' = now, sess' = sess, pw' \in [User -> Opt(Password)],
         arg[r].op = "change" => s # 204,
         arg[r].op = "logout" /\ s = 204 /\ ~arg[r].lost => sess[arg[r].id] = Gone,
         arg[r].op = "me" /\ s = 200 => pc[r] = "me" /\ InTime(r)
  PROVE  IInv'
<1>1. TypeOK /\ ReqOK(r)
  BY Split
<1>2. arg[r] \in Arg /\ now \in Nat
  BY <1>1 DEF TypeOK
<1>3. /\ Moves(r) /\ KeepsIds(r) /\ pc'[r] = "replied"
      /\ arg'[r].op = arg[r].op /\ arg'[r].user = arg[r].user
      /\ arg'[r].id = arg[r].id /\ arg'[r].given = arg[r].given
      /\ arg'[r].next = arg[r].next /\ arg'[r].start = arg[r].start
      /\ arg'[r].at = arg[r].at /\ arg'[r].before = arg[r].before
      /\ arg'[r].lost = arg[r].lost /\ arg'[r].status = s
  BY <1>1, ReplyMoves
<1>4. arg[r].at <= now /\ arg[r].at \in Nat /\ arg[r].start \in Nat
  BY <1>1, <1>2 DEF ReqOK, ArgFits, Arg, Opt, Op, Status, IdSet
<1>5. ArgFits(r)'
  BY <1>1, <1>3 DEF ReqOK, ArgFits, Opening, WithCookie, ChangeSteps
<1>6. ChangeCovers(r)' /\ ExpiryCovers(r)'
  BY <1>3 DEF ChangeCovers, ExpiryCovers, ChangeSteps
<1>7. Answers(r)'
  <2>1. arg[r].op = "me" /\ s = 200 /\ ~arg[r].lost /\ Open(arg[r].id) =>
          arg[r].at + Half <= sess[arg[r].id].expires
    BY <1>1, <1>2, <1>4, ClockAssumption DEF ReqOK, ExpiryCovers, InTime
  <2> QED
    BY <1>3, <2>1 DEF Answers, Open
<1>8. ReqOK(r)'
  BY <1>5, <1>6, <1>7 DEF ReqOK
<1> QED
  BY <1>3, <1>8, QuietStep

\* Moving on to another step, the record unchanged.
LEMMA GotoMoves ==
  ASSUME TypeOK, NEW r \in Req, NEW p \in Steps, Goto(r, p),
         p \in Opening => pc[r] \in Opening
  PROVE  Moves(r) /\ KeepsIds(r) /\ pc'[r] = p /\ arg'[r] = arg[r]
BY DEF TypeOK, Goto, Moves, KeepsIds, Pc

\* Signing up and logging in, up to the insert.
LEMMA SignInKeeps ==
  ASSUME IInv, NEW r \in Req, SignUp(r) \/ Login(r)
  PROVE  IInv'
<1>1. TypeOK /\ ReqOK(r) /\ arg[r] \in Arg
  BY Split DEF TypeOK
<1>2. ASSUME pc[r] \in {"signUp", "read"}, Goto(r, "open"), now' = now, sess' = sess,
             pw' \in [User -> Opt(Password)]
      PROVE  IInv'
  <2>1. Moves(r) /\ KeepsIds(r) /\ pc'[r] = "open" /\ arg'[r] = arg[r]
    BY <1>1, <1>2, GotoMoves DEF Steps, Opening
  <2>2. ReqOK(r)'
    BY <1>1, <1>2, <2>1 DEF ReqOK, ArgFits, ChangeCovers, ExpiryCovers, Answers,
       Opening, ChangeSteps, WithCookie
  <2> QED
    BY <1>2, <2>1, <2>2, QuietStep
<1>3. CASE SignUp(r)
  <2>1. arg[r].given \in Password
    BY <1>1, <1>3 DEF SignUp, ReqOK, ArgFits, Arg, Opt, Op, Status, IdSet, Opening
  <2>2. pw' \in [User -> Opt(Password)]
    BY <1>1, <1>3, <2>1 DEF SignUp, TypeOK, Opt
  <2> QED
    BY <1>2, <1>3, <2>2 DEF SignUp
<1>4. CASE Login(r)
  <2>1. pw' \in [User -> Opt(Password)]
    BY <1>1, <1>4 DEF Login, TypeOK
  <2>2. CASE Reply(r, 403)
    <3>1. arg[r].op \in {"login", "signup"}
      BY <1>1, <1>4 DEF Login, ReqOK, ArgFits, Opening
    <3> QED
      BY <1>4, <2>1, <2>2, <3>1, AnswerKeeps DEF Login, Steps
  <2> QED
    BY <1>2, <1>4, <2>1, <2>2 DEF Login
<1> QED
  BY <1>3, <1>4

\* The new session belongs to the user who signed in.
LEMMA StartSessionKeeps ==
  ASSUME IInv, NEW r \in Req, StartSession(r)
  PROVE  IInv'
<1> USE NullAssumption, RowAssumption
<1>1. TypeOK /\ ReqOK(r) /\ arg[r] \in Arg
  BY Split DEF TypeOK
<1>2. /\ arg[r].op \in {"signup", "login"} /\ sess[arg[r].id] = NULL
      /\ arg[r].user \in User /\ arg[r].id \in SessionId
      /\ pc[r] = "open" /\ now' = now /\ pw' = pw /\ Reply(r, 200)
  BY <1>1 DEF StartSession, ReqOK, ArgFits, Opening, Arg, Opt, Op, Status, IdSet
<1>3. /\ Moves(r) /\ KeepsIds(r) /\ pc'[r] = "replied"
      /\ arg'[r].op = arg[r].op /\ arg'[r].user = arg[r].user
      /\ arg'[r].id = arg[r].id /\ arg'[r].given = arg[r].given
      /\ arg'[r].start = arg[r].start /\ arg'[r].at = arg[r].at
  BY <1>1, <1>2, ReplyMoves
<1> DEFINE row == [user |-> arg[r].user, expires |-> now + SessionTTL]
<1>4. /\ row \in Session /\ row.expires <= now + SessionTTL
      /\ sess' = [sess EXCEPT ![arg[r].id] = row]
  BY <1>1, <1>2, ClockAssumption DEF Session, StartSession, TypeOK
<1> HIDE DEF row
<1>5. TypeOK'
  BY <1>1, <1>2, <1>3, <1>4 DEF TypeOK, Moves, Pc
<1>6. \A id \in SessionId : RowStep(r, id)
  BY <1>1, <1>2, <1>4 DEF RowStep, Opening, Open, TypeOK
<1>7. ReqOK(r)'
  BY <1>1, <1>2, <1>3 DEF ReqOK, ArgFits, ChangeCovers, ExpiryCovers, Answers,
     Opening, ChangeSteps, WithCookie
<1> QED
  BY <1>2, <1>3, <1>5, <1>6, <1>7, StepKeeps

\* The look-up: what it finds is what the rest of the request relies on.
LEMMA GetSessionKeeps ==
  ASSUME IInv, NEW r \in Req, GetSession(r)
  PROVE  IInv'
<1> USE NullAssumption, RowAssumption
<1>1. TypeOK /\ ReqOK(r) /\ arg[r] \in Arg
  BY Split DEF TypeOK
<1>2. /\ pc[r] = "auth" /\ arg[r].op \in WithCookie /\ arg[r].id \in SessionId
      /\ now' = now /\ pw' = pw /\ sess' = sess
      /\ pw' \in [User -> Opt(Password)]
  BY <1>1 DEF GetSession, ReqOK, ArgFits, Arg, Opt, Op, Status, IdSet, WithCookie, TypeOK
<1>3. CASE Reply(r, 401)
  BY <1>2, <1>3, AnswerKeeps DEF Steps
<1>4. CASE Valid(arg[r].id) /\ pc' = [pc EXCEPT ![r] = "check"]
           /\ arg' = [arg EXCEPT ![r] = Resolved(r)]
  <2>1. sess[arg[r].id] \in Session /\ Open(arg[r].id)
    BY <1>1, <1>2, <1>4 DEF Valid, Open, TypeOK
  <2>2. PICK u \in User, e \in Nat, b \in IdSet :
          /\ u = sess[arg[r].id].user /\ e = sess[arg[r].id].expires
          /\ b = IF arg[r].op = "change" THEN SessionsOf(u) ELSE {}
    <3>1. sess[arg[r].id].user \in User /\ sess[arg[r].id].expires \in Nat
      BY <2>1 DEF Session
    <3>2. \A w \in User :
            (IF arg[r].op = "change" THEN SessionsOf(w) ELSE {}) \in IdSet
      BY DEF SessionsOf, IdSet
    <3> QED
      BY <3>1, <3>2
  <2> DEFINE a == [arg[r] EXCEPT !.user = u, !.exp = e, !.before = b]
  <2>3. Resolved(r) = a
    <3>1. Resolved(r) =
            [arg[r] EXCEPT !.user = sess[arg[r].id].user, !.exp = sess[arg[r].id].expires,
               !.before = IF arg[r].op = "change"
                            THEN SessionsOf(sess[arg[r].id].user) ELSE {}]
      BY DEF Resolved
    <3>2. b = IF arg[r].op = "change" THEN SessionsOf(sess[arg[r].id].user) ELSE {}
      BY <2>2
    <3> QED
      BY <2>2, <3>1, <3>2, Zenon
  <2>4. /\ a \in Arg /\ a.op = arg[r].op /\ a.user = u /\ a.id = arg[r].id
        /\ a.given = arg[r].given /\ a.next = arg[r].next /\ a.start = arg[r].start
        /\ a.at = arg[r].at /\ a.exp = e /\ a.before = b
    <3>1. PICK x \in Arg : x = arg[r]
      BY <1>1
    <3>2. PICK y : y = [x EXCEPT !.user = u, !.exp = e, !.before = b]
      OBVIOUS
    <3>3. y = a
      BY <3>1, <3>2
    <3>4. u \in Opt(User)
      BY DEF Opt
    <3>5. y \in Arg
      BY <3>2, <3>4 DEF Arg
    <3>6. /\ y.op = x.op /\ y.user = u /\ y.id = x.id
          /\ y.given = x.given /\ y.next = x.next /\ y.start = x.start
          /\ y.at = x.at /\ y.exp = e /\ y.before = b
      BY <3>2 DEF Arg
    <3> HIDE DEF a
    <3> QED
      BY <3>1, <3>3, <3>5, <3>6
  <2> HIDE DEF a
  <2>5. /\ Moves(r) /\ KeepsIds(r) /\ pc'[r] = "check" /\ arg'[r] = a
    BY <1>1, <1>4, <2>3, <2>4 DEF TypeOK, Moves, KeepsIds, Pc, Steps, Opening
  <2>6. ArgFits(r)'
    BY <1>1, <1>2, <2>2, <2>4, <2>5 DEF ReqOK, ArgFits, Opening, WithCookie, ChangeSteps
  <2>7. ChangeCovers(r)'
    BY <1>2, <2>2, <2>4, <2>5 DEF ChangeCovers, ChangeSteps, SessionsOf, Open
  <2>8. ExpiryCovers(r)' /\ Answers(r)'
    BY <1>2, <2>2, <2>4, <2>5 DEF ExpiryCovers, Answers, Open
  <2> QED
    BY <1>2, <2>5, <2>6, <2>7, <2>8, QuietStep DEF ReqOK
<1> QED
  BY <1>3, <1>4 DEF GetSession

\* The step a look-up leads to is a step of the operation asked for.
LEMMA HandlerFits ==
  ASSUME NEW r \in Req, arg[r].op \in WithCookie
  PROVE  /\ Handler(r) \in {"me", "delete", "cpRead"}
         /\ Handler(r) = "me" <=> arg[r].op = "me"
         /\ Handler(r) = "delete" <=> arg[r].op = "logout"
         /\ Handler(r) = "cpRead" <=> arg[r].op = "change"
BY DEF Handler, WithCookie

\* No touch is needed only if the expiry is far off, or was overwritten by one
\* that is.
LEMMA CheckKeeps ==
  ASSUME IInv, NEW r \in Req, CheckExpiry(r)
  PROVE  IInv'
<1> USE NullAssumption, RowAssumption
<1>1. TypeOK /\ ReqOK(r) /\ arg[r] \in Arg
  BY Split DEF TypeOK
<1>2. /\ pc[r] = "check" /\ arg[r].op \in WithCookie /\ arg[r].id \in SessionId
      /\ now' = now /\ pw' = pw /\ sess' = sess /\ now \in Nat
      /\ pw' \in [User -> Opt(Password)]
  BY <1>1 DEF CheckExpiry, ReqOK, ArgFits, Arg, Opt, Op, Status, IdSet, WithCookie, TypeOK
<1> DEFINE a == [arg[r] EXCEPT !.at = now]
           p == IF NearExpiry(arg[r].exp) THEN "touch" ELSE Handler(r)
<1>3. /\ a \in Arg /\ a.op = arg[r].op /\ a.user = arg[r].user /\ a.id = arg[r].id
      /\ a.given = arg[r].given /\ a.next = arg[r].next /\ a.start = arg[r].start
      /\ a.at = now /\ a.exp = arg[r].exp /\ a.before = arg[r].before
      /\ a.lost = arg[r].lost
  BY <1>1, <1>2 DEF Arg, Opt, Op, Status, IdSet
<1>4. arg' = [arg EXCEPT ![r] = a] /\ pc' = [pc EXCEPT ![r] = p]
  BY DEF CheckExpiry
<1>5. p \in {"touch", "me", "delete", "cpRead"}
  BY <1>2, HandlerFits
<1>6. /\ p = "me" => arg[r].op = "me" /\ ~NearExpiry(arg[r].exp)
      /\ p = "delete" => arg[r].op = "logout"
      /\ p = "cpRead" => arg[r].op = "change"
  BY <1>2, HandlerFits
<1> HIDE DEF a, p
<1>7. Moves(r) /\ KeepsIds(r) /\ pc'[r] = p /\ arg'[r] = a
  BY <1>1, <1>3, <1>4, <1>5 DEF TypeOK, Moves, KeepsIds, Pc, Steps, Opening
<1>8. ArgFits(r)'
  BY <1>1, <1>2, <1>3, <1>5, <1>6, <1>7
  DEF ReqOK, ArgFits, Opening, WithCookie, ChangeSteps
<1>9. ChangeCovers(r)'
  BY <1>1, <1>2, <1>3, <1>5, <1>6, <1>7 DEF ReqOK, ChangeCovers, ChangeSteps, Open
<1>10. Answers(r)'
  BY <1>5, <1>7 DEF Answers
<1>11. ExpiryCovers(r)'
  <2>1. SUFFICES ASSUME p = "me", Open(arg[r].id), now <= arg[r].start + Timeout
                 PROVE  now + Half <= sess[arg[r].id].expires
    BY <1>2, <1>3, <1>5, <1>7 DEF ExpiryCovers, Open
  <2>2. sess[arg[r].id].expires \in Nat /\ arg[r].start \in Nat /\ arg[r].exp \in Nat
    BY <1>1, <1>2, <2>1 DEF TypeOK, Open, Session, Arg, Opt, Op, Status, IdSet
  <2>3. now + Half <= arg[r].exp
    BY <1>2, <1>6, <2>1, <2>2, HalfNat DEF NearExpiry
  <2>4. \/ arg[r].exp <= sess[arg[r].id].expires
        \/ arg[r].start + SessionTTL <= sess[arg[r].id].expires + Timeout
    BY <1>1, <1>2, <2>1 DEF ReqOK, ExpiryCovers
  <2> QED
    BY <1>2, <2>1, <2>2, <2>3, <2>4, HalfNat, ClockAssumption, TimeoutAssumption
<1> QED
  BY <1>2, <1>7, <1>8, <1>9, <1>10, <1>11, QuietStep DEF ReqOK

\* A touch writes an expiry computed in time, and only to a row that is there.
LEMMA TouchKeeps ==
  ASSUME IInv, NEW r \in Req, TouchSession(r)
  PROVE  IInv'
<1> USE NullAssumption, RowAssumption
<1>1. TypeOK /\ ReqOK(r) /\ arg[r] \in Arg
  BY Split DEF TypeOK
<1>2. /\ pc[r] = "touch" /\ arg[r].op \in WithCookie /\ arg[r].id \in SessionId
      /\ now' = now /\ pw' = pw /\ sess' = Touched(r) /\ Goto(r, Handler(r))
      /\ sess[arg[r].id] # NULL
  BY <1>1 DEF TouchSession, ReqOK, ArgFits, Arg, Opt, Op, Status, IdSet, WithCookie, TypeOK
<1>3. /\ arg[r].start \in Nat /\ arg[r].at \in Nat /\ now \in Nat
      /\ arg[r].start <= arg[r].at /\ arg[r].at <= now /\ now <= arg[r].start + Timeout
  BY <1>1, <1>2 DEF ReqOK, ArgFits, Arg, Opt, Op, Status, IdSet, TypeOK, TouchSession, InTime
<1>4. /\ Handler(r) \in {"me", "delete", "cpRead"}
      /\ Handler(r) = "me" => arg[r].op = "me"
      /\ Handler(r) = "delete" => arg[r].op = "logout"
      /\ Handler(r) = "cpRead" => arg[r].op = "change"
  BY <1>2, HandlerFits
<1>5. Moves(r) /\ KeepsIds(r) /\ pc'[r] = Handler(r) /\ arg'[r] = arg[r]
  BY <1>1, <1>2, <1>4, GotoMoves DEF Steps, Opening
<1> DEFINE row == [user |-> sess[arg[r].id].user, expires |-> NewExpiry(r)]
<1>6. Open(arg[r].id) =>
        /\ row \in Session /\ row.expires = arg[r].at + SessionTTL
        /\ row.user = sess[arg[r].id].user
        /\ sess' = [sess EXCEPT ![arg[r].id] = row]
  BY <1>1, <1>2, <1>3, ClockAssumption DEF TypeOK, Open, Session, NewExpiry, Touched
<1>7. ~Open(arg[r].id) => sess' = sess
  BY <1>2 DEF Touched
<1> HIDE DEF row
<1>8. Open(arg[r].id) =>
        /\ Open(arg[r].id)' /\ sess'[arg[r].id].user = sess[arg[r].id].user
        /\ sess'[arg[r].id].expires = arg[r].at + SessionTTL
  BY <1>1, <1>2, <1>5, <1>6 DEF TypeOK, Open
<1>9. TypeOK'
  <2>1. CASE Open(arg[r].id)
    BY <1>1, <1>2, <1>3, <1>5, <1>6, <2>1, ClockAssumption DEF TypeOK, Moves, Pc
  <2>2. CASE ~Open(arg[r].id)
    BY <1>1, <1>2, <1>5, <1>7, <2>2 DEF TypeOK, Moves, Pc
  <2> QED
    BY <2>1, <2>2
<1>10. \A id \in SessionId : RowStep(r, id)
  <2>1. \A id \in SessionId : id # arg[r].id => sess'[id] = sess[id]
    BY <1>1, <1>6, <1>7 DEF TypeOK
  <2>2. Open(arg[r].id) => now + SessionTTL <= sess'[arg[r].id].expires + Timeout
    BY <1>3, <1>8, ClockAssumption
  <2> QED
    BY <1>5, <1>7, <1>8, <2>1, <2>2 DEF RowStep, Open
<1>11. Open(arg[r].id)' => Open(arg[r].id)
  BY <1>5, <1>7 DEF Open
<1>12. ArgFits(r)'
  BY <1>1, <1>2, <1>4, <1>5, <1>7, <1>8
  DEF ReqOK, ArgFits, Opening, WithCookie, ChangeSteps, Open
<1>13. ChangeCovers(r)'
  <2>1. \A id \in arg[r].before : id \in SessionId
    BY <1>1 DEF Arg, Opt, Op, Status, IdSet
  <2>2. \A id \in SessionId : Open(id) => Open(id)' /\ sess'[id].user = sess[id].user
    BY <1>1, <1>6, <1>7, <1>8 DEF TypeOK, Open
  <2>3. \A id \in SessionId : sess[id] = Gone => sess'[id] = Gone
    BY <1>10 DEF RowStep, Open
  <2> QED
    BY <1>1, <1>2, <1>4, <1>5, <2>1, <2>2, <2>3 DEF ReqOK, ChangeCovers, ChangeSteps
<1>14. ExpiryCovers(r)' /\ Answers(r)'
  BY <1>3, <1>4, <1>5, <1>8, <1>11, HalfNat, ClockAssumption, TimeoutAssumption
  DEF ExpiryCovers, Answers
<1> QED
  BY <1>2, <1>5, <1>9, <1>10, <1>12, <1>13, <1>14, StepKeeps DEF ReqOK

\* GET /auth/me answers from what the look-up left.
LEMMA MeKeeps ==
  ASSUME IInv, NEW r \in Req, Me(r)
  PROVE  IInv'
<1>1. TypeOK /\ ReqOK(r)
  BY Split
<1>2. /\ pc[r] = "me" /\ arg[r].op = "me" /\ InTime(r) /\ Reply(r, 200)
      /\ now' = now /\ sess' = sess /\ pw' \in [User -> Opt(Password)]
  BY <1>1 DEF Me, ReqOK, ArgFits, TypeOK
<1> QED
  BY <1>2, AnswerKeeps DEF Steps

\* Deleting rows and answering, for a request whose own claim then holds.
LEMMA DeleteKeeps ==
  ASSUME IInv, NEW r \in Req, NEW ids \in SUBSET SessionId,
         arg[r].op \in {"logout", "change"}, pc[r] \in {"delete", "cpCommit"},
         sess' = Deleted(ids), Reply(r, 204), now' = now,
         pw' \in [User -> Opt(Password)],
         arg[r].op = "logout" => sess'[arg[r].id] = Gone,
         arg[r].op = "change" => \A id \in arg[r].before : sess'[id] = Gone
  PROVE  IInv'
<1> USE NullAssumption, RowAssumption
<1>1. TypeOK /\ ReqOK(r)
  BY Split
<1>2. /\ Moves(r) /\ KeepsIds(r) /\ pc'[r] = "replied"
      /\ arg'[r].op = arg[r].op /\ arg'[r].user = arg[r].user
      /\ arg'[r].id = arg[r].id /\ arg'[r].given = arg[r].given
      /\ arg'[r].next = arg[r].next /\ arg'[r].start = arg[r].start
      /\ arg'[r].at = arg[r].at /\ arg'[r].before = arg[r].before
  BY <1>1, ReplyMoves
<1>3. \A id \in SessionId : sess'[id] = sess[id] \/ (Open(id) /\ sess'[id] = Gone)
  BY DEF Deleted
<1>4. sess' \in [SessionId -> Session \cup {NULL, Gone}]
  <2>1. \A id \in SessionId : sess[id] \in Session \cup {NULL, Gone}
    BY <1>1 DEF TypeOK
  <2>2. \A id \in SessionId : sess'[id] \in Session \cup {NULL, Gone}
    BY <1>3, <2>1
  <2>3. sess' = [id \in SessionId |-> sess'[id]]
    BY DEF Deleted
  <2> QED
    BY <2>2, <2>3
<1>5. TypeOK'
  BY <1>1, <1>2, <1>3, <1>4 DEF TypeOK, Moves, Pc, Open
<1>6. \A id \in SessionId : RowStep(r, id)
  BY <1>3 DEF RowStep
<1>7. ArgFits(r)'
  <2>1. arg[r].id \in SessionId /\ sess[arg[r].id] # NULL
    BY <1>1 DEF ReqOK, ArgFits, TypeOK, Arg, Opt, Op, Status, IdSet, WithCookie
  <2>2. sess'[arg[r].id] # NULL
    BY <1>3, <2>1
  <2> QED
    BY <1>1, <1>2, <2>2 DEF ReqOK, ArgFits, Opening, WithCookie, ChangeSteps
<1>8. ChangeCovers(r)' /\ ExpiryCovers(r)' /\ Answers(r)'
  BY <1>2 DEF ChangeCovers, ExpiryCovers, Answers, ChangeSteps
<1> QED
  BY <1>2, <1>5, <1>6, <1>7, <1>8, StepKeeps DEF ReqOK

\* A logout deletes its session whether or not it has expired.
LEMMA LogoutKeeps ==
  ASSUME IInv, NEW r \in Req, Logout(r)
  PROVE  IInv'
<1> USE NullAssumption, RowAssumption
<1>1. TypeOK /\ ReqOK(r)
  BY Split
<1>2. /\ pc[r] = "delete" /\ arg[r].op = "logout" /\ Reply(r, 204)
      /\ arg[r].id \in SessionId /\ sess[arg[r].id] # NULL
      /\ sess' = Deleted({arg[r].id})
      /\ now' = now /\ pw' \in [User -> Opt(Password)]
  BY <1>1 DEF Logout, ReqOK, ArgFits, TypeOK, Arg, Opt, WithCookie
<1>3. sess'[arg[r].id] = Gone
  BY <1>2 DEF Deleted, Open
<1>4. PICK ids \in SUBSET SessionId : ids = {arg[r].id}
  BY <1>2
<1> QED
  BY <1>2, <1>3, <1>4, DeleteKeeps

\* Verifying the current password and updating the row change no session.
LEMMA VerifyKeeps ==
  ASSUME IInv, NEW r \in Req, VerifyCurrent(r) \/ UpdatePassword(r)
  PROVE  IInv'
<1>1. TypeOK /\ ReqOK(r)
  BY Split
<1>2. /\ pc[r] \in {"cpRead", "cpUpdate"} /\ arg[r].op = "change"
      /\ now' = now /\ sess' = sess /\ pw' = pw /\ pw' \in [User -> Opt(Password)]
  BY <1>1 DEF VerifyCurrent, UpdatePassword, ReqOK, ArgFits, TypeOK, ChangeSteps
<1>3. ASSUME NEW s \in {403, 422}, Reply(r, s)
      PROVE  IInv'
  BY <1>2, <1>3, AnswerKeeps DEF Steps
<1>4. ASSUME NEW p \in {"cpUpdate", "cpDelete"}, Goto(r, p)
      PROVE  IInv'
  <2>1. Moves(r) /\ KeepsIds(r) /\ pc'[r] = p /\ arg'[r] = arg[r]
    BY <1>1, <1>4, GotoMoves DEF Steps, Opening
  <2>2. ReqOK(r)'
    BY <1>1, <1>2, <1>4, <2>1 DEF ReqOK, ArgFits, ChangeCovers, ExpiryCovers, Answers,
       Opening, ChangeSteps, WithCookie, Open
  <2> QED
    BY <1>2, <2>1, <2>2, QuietStep
<1> QED
  BY <1>3, <1>4 DEF VerifyCurrent, UpdatePassword

\* The delete takes in every session of the user that is committed.
LEMMA DropKeeps ==
  ASSUME IInv, NEW r \in Req, DeleteUserSessions(r)
  PROVE  IInv'
<1>1. TypeOK /\ ReqOK(r) /\ arg[r] \in Arg
  BY Split DEF TypeOK
<1>2. /\ pc[r] = "cpDelete" /\ arg[r].op = "change"
      /\ now' = now /\ sess' = sess /\ pw' = pw /\ pw' \in [User -> Opt(Password)]
      /\ pc' = [pc EXCEPT ![r] = "cpCommit"]
      /\ arg' = [arg EXCEPT ![r].doomed = ToDrop(r)]
  BY <1>1 DEF DeleteUserSessions, ReqOK, ArgFits, TypeOK, ChangeSteps
<1>3. ToDrop(r) \in IdSet
  BY DEF ToDrop, SessionsOf, IdSet
<1> DEFINE a == [arg[r] EXCEPT !.doomed = ToDrop(r)]
<1>4. /\ a \in Arg /\ a.op = arg[r].op /\ a.user = arg[r].user /\ a.id = arg[r].id
      /\ a.given = arg[r].given /\ a.next = arg[r].next /\ a.start = arg[r].start
      /\ a.at = arg[r].at /\ a.before = arg[r].before /\ a.doomed = ToDrop(r)
  BY <1>1, <1>3 DEF Arg
<1>5. arg' = [arg EXCEPT ![r] = a]
  BY <1>2
<1> HIDE DEF a
<1>6. Moves(r) /\ KeepsIds(r) /\ pc'[r] = "cpCommit" /\ arg'[r] = a
  BY <1>1, <1>2, <1>4, <1>5 DEF TypeOK, Moves, KeepsIds, Pc, Steps, Opening
<1>7. ArgFits(r)'
  BY <1>1, <1>2, <1>4, <1>6 DEF ReqOK, ArgFits, Opening, WithCookie, ChangeSteps
<1>8. ChangeCovers(r)'
  <2>1. \A id \in arg[r].before : id \in SessionId
    BY <1>1 DEF Arg, IdSet
  <2> QED
    BY <1>1, <1>2, <1>4, <1>6, <2>1
    DEF ReqOK, ChangeCovers, ChangeSteps, ToDrop, SessionsOf, Open
<1>9. ExpiryCovers(r)' /\ Answers(r)'
  BY <1>6 DEF ExpiryCovers, Answers
<1> QED
  BY <1>2, <1>6, <1>7, <1>8, <1>9, QuietStep DEF ReqOK

\* The commit makes the deletions real, and covers what the request had found.
LEMMA CommitKeeps ==
  ASSUME IInv, NEW r \in Req, CommitPassword(r)
  PROVE  IInv'
<1> USE NullAssumption, RowAssumption
<1>1. TypeOK /\ ReqOK(r) /\ arg[r] \in Arg
  BY Split DEF TypeOK
<1>2. /\ pc[r] = "cpCommit" /\ arg[r].op = "change" /\ Reply(r, 204)
      /\ sess' = Deleted(arg[r].doomed) /\ now' = now
      /\ arg[r].next \in Password
      /\ arg[r].doomed \in SUBSET SessionId /\ arg[r].before \in SUBSET SessionId
  BY <1>1 DEF CommitPassword, ReqOK, ArgFits, Arg, Opt, IdSet, ChangeSteps
<1>3. pw' \in [User -> Opt(Password)]
  BY <1>1, <1>2 DEF CommitPassword, TypeOK, Opt
<1>4. \A id \in arg[r].before : sess'[id] = Gone
  BY <1>1, <1>2 DEF ReqOK, ChangeCovers, Deleted
<1>5. PICK ids \in SUBSET SessionId : ids = arg[r].doomed
  BY <1>2
<1> QED
  BY <1>2, <1>3, <1>4, <1>5, DeleteKeeps

\* A failure never claims more than was done.
LEMMA FailKeeps ==
  ASSUME IInv, NEW r \in Req, Fail(r)
  PROVE  IInv'
<1> USE NullAssumption, RowAssumption
<1>1. TypeOK /\ ReqOK(r) /\ arg[r] \in Arg
  BY Split DEF TypeOK
<1>2. now' = now /\ sess' = sess /\ pw' = pw /\ pw' \in [User -> Opt(Password)]
  BY <1>1 DEF Fail, TypeOK
<1>3. ASSUME NEW s \in {401, 403, 404, 500}, Reply(r, s), pc[r] \in Steps
      PROVE  IInv'
  BY <1>2, <1>3, AnswerKeeps
<1>4. CASE pc[r] = "touch" /\ pc' = [pc EXCEPT ![r] = Handler(r)]
           /\ arg' = [arg EXCEPT ![r].lost = TRUE]
  <2> DEFINE a == [arg[r] EXCEPT !.lost = TRUE]
  <2>1. /\ a \in Arg /\ a.op = arg[r].op /\ a.user = arg[r].user /\ a.id = arg[r].id
        /\ a.given = arg[r].given /\ a.next = arg[r].next /\ a.start = arg[r].start
        /\ a.at = arg[r].at /\ a.before = arg[r].before /\ a.lost
    BY <1>1, LostTyped
  <2>2. arg' = [arg EXCEPT ![r] = a]
    BY <1>4
  <2> HIDE DEF a
  <2>3. arg[r].op \in WithCookie
    BY <1>1, <1>4 DEF ReqOK, ArgFits
  <2>4. /\ Handler(r) \in {"me", "delete", "cpRead"}
        /\ Handler(r) = "me" => arg[r].op = "me"
        /\ Handler(r) = "delete" => arg[r].op = "logout"
        /\ Handler(r) = "cpRead" => arg[r].op = "change"
    BY <2>3, HandlerFits
  <2>5. Moves(r) /\ KeepsIds(r) /\ pc'[r] = Handler(r) /\ arg'[r] = a
    BY <1>1, <1>4, <2>1, <2>2, <2>4 DEF TypeOK, Moves, KeepsIds, Pc, Steps, Opening
  <2>6. ReqOK(r)'
    BY <1>1, <1>2, <1>4, <2>1, <2>4, <2>5 DEF ReqOK, ArgFits, ChangeCovers, ExpiryCovers,
       Answers, Opening, ChangeSteps, WithCookie, Open
  <2> QED
    BY <1>2, <2>5, <2>6, QuietStep
<1>5. CASE pc[r] = "delete" /\ pc' = [pc EXCEPT ![r] = "replied"]
           /\ arg' = [arg EXCEPT ![r] = [arg[r] EXCEPT !.lost = TRUE, !.status = 204]]
  <2> DEFINE a == [arg[r] EXCEPT !.lost = TRUE, !.status = 204]
  <2>1. 204 \in Status
    BY DEF Status
  <2> DEFINE b == [arg[r] EXCEPT !.lost = TRUE]
  <2>a. /\ b \in Arg /\ b.op = arg[r].op /\ b.user = arg[r].user /\ b.id = arg[r].id
        /\ b.given = arg[r].given /\ b.next = arg[r].next /\ b.start = arg[r].start
        /\ b.at = arg[r].at /\ b.before = arg[r].before /\ b.lost
    BY <1>1, LostTyped
  <2>b. a = [b EXCEPT !.status = 204]
    BY <1>1
  <2> HIDE DEF a, b
  <2>2. /\ a \in Arg /\ a.op = arg[r].op /\ a.user = arg[r].user /\ a.id = arg[r].id
        /\ a.given = arg[r].given /\ a.next = arg[r].next /\ a.start = arg[r].start
        /\ a.at = arg[r].at /\ a.before = arg[r].before /\ a.lost
    BY <2>1, <2>a, <2>b DEF Arg
  <2> HIDE DEF a
  <2>3. arg[r].op = "logout"
    BY <1>1, <1>5 DEF ReqOK, ArgFits
  <2>4. Moves(r) /\ KeepsIds(r) /\ pc'[r] = "replied" /\ arg'[r] = a
    BY <1>1, <1>5, <2>2 DEF TypeOK, Moves, KeepsIds, Pc, Steps, Opening, a
  <2>5. ReqOK(r)'
    BY <1>1, <1>2, <2>2, <2>3, <2>4 DEF ReqOK, ArgFits, ChangeCovers, ExpiryCovers,
       Answers, Opening, ChangeSteps, WithCookie
  <2> QED
    BY <1>2, <2>4, <2>5, QuietStep
<1> QED
  BY <1>3, <1>4, <1>5 DEF Fail, Failed, Steps

\* Answers are forgotten, and a crash forgets every request.
LEMMA RestKeeps ==
  ASSUME IInv, Crash \/ Tick \/ (\E r \in Req : Return(r)) \/ UNCHANGED vars
  PROVE  IInv'
<1> USE NullAssumption, RowAssumption
<1>1. TypeOK /\ IdsReserved /\ \A r \in Req : ReqOK(r)
  BY Split
<1>2. NoArg \in Arg
  BY DEF NoArg, Sent, Arg, Opt, Op, Status, IdSet
<1>3. ASSUME NEW r, pc'[r] = "idle", arg'[r] = NoArg, now' = now, now \in Nat
      PROVE  ReqOK(r)'
  BY <1>3 DEF NoArg, Sent, ReqOK, ArgFits, ChangeCovers, ExpiryCovers, Answers,
     Opening, ChangeSteps, WithCookie
<1>4. now \in Nat
  BY <1>1 DEF TypeOK
<1>5. CASE Crash
  <2>1. TypeOK'
    BY <1>1, <1>2, <1>5 DEF Crash, TypeOK
  <2>2. \A r \in Req : ReqOK(r)'
    BY <1>3, <1>4, <1>5 DEF Crash
  <2>3. IdsReserved'
    BY <1>5 DEF Crash, IdsReserved, Opening
  <2> QED
    BY <2>1, <2>2, <2>3, Joined
<1>6. ASSUME NEW r \in Req, Return(r)
      PROVE  IInv'
  <2>1. Moves(r) /\ KeepsIds(r) /\ pc'[r] = "idle" /\ arg'[r] = NoArg
    BY <1>1, <1>2, <1>6 DEF Return, TypeOK, Moves, KeepsIds, Pc, Opening
  <2>2. now' = now /\ sess' = sess /\ pw' = pw /\ pw' \in [User -> Opt(Password)]
    BY <1>1, <1>6 DEF Return, TypeOK
  <2>3. ReqOK(r)'
    BY <1>3, <1>4, <2>1, <2>2
  <2> QED
    BY <2>1, <2>2, <2>3, QuietStep
<1>7. CASE Tick
  <2>1. now' = now + 1 /\ now < MaxTime /\ pw' = pw /\ sess' = sess /\ pc' = pc /\ arg' = arg
    BY <1>7 DEF Tick
  <2>2. TypeOK'
    <3>1. now' \in 0..MaxTime
      BY <1>1, <2>1, ClockAssumption DEF TypeOK
    <3>2. \A id \in SessionId :
            sess[id] \notin {NULL, Gone} => sess[id].expires \in Nat
      BY <1>1 DEF TypeOK, Session
    <3>3. \A id \in SessionId :
            sess[id] \notin {NULL, Gone} => sess[id].expires <= now' + SessionTTL
      BY <1>1, <1>4, <2>1, <3>2, ClockAssumption DEF TypeOK
    <3> QED
      BY <1>1, <2>1, <3>1, <3>3 DEF TypeOK
  <2>3. ASSUME NEW r \in Req
        PROVE  ReqOK(r)'
    <3>1. arg[r].start \in Nat /\ arg[r].at \in Nat
      BY <1>1 DEF TypeOK, Arg
    <3>2. ReqOK(r) /\ now \in Nat /\ now' = now + 1
      BY <1>1, <1>4, <2>1
    <3>3. ArgFits(r)'
      BY <2>1, <3>1, <3>2 DEF ReqOK, ArgFits, Opening, WithCookie
    <3>4. ChangeCovers(r)'
      BY <2>1, <3>2 DEF ReqOK, ChangeCovers, ChangeSteps, Open
    <3>5. ExpiryCovers(r)'
      BY <2>1, <3>2 DEF ReqOK, ExpiryCovers, Open
    <3>6. Answers(r)'
      BY <2>1, <3>2 DEF ReqOK, Answers, Open
    <3> QED
      BY <3>3, <3>4, <3>5, <3>6 DEF ReqOK
  <2>4. IdsReserved'
    BY <1>1, <2>1 DEF IdsReserved
  <2> QED
    BY <2>2, <2>3, <2>4, Joined
<1>8. CASE UNCHANGED vars
  <2>1. now' = now /\ pw' = pw /\ sess' = sess /\ pc' = pc /\ arg' = arg
    BY <1>8 DEF vars
  <2>2. TypeOK' /\ IdsReserved'
    BY <1>1, <2>1 DEF TypeOK, IdsReserved
  <2>3. ASSUME NEW r \in Req
        PROVE  ReqOK(r)'
    <3>1. ReqOK(r)
      BY <1>1
    <3>2. ArgFits(r)' /\ ChangeCovers(r)'
      BY <2>1, <3>1 DEF ReqOK, ArgFits, ChangeCovers, Open
    <3>3. ExpiryCovers(r)'
      BY <2>1, <3>1 DEF ReqOK, ExpiryCovers, Open
    <3>4. Answers(r)'
      BY <2>1, <3>1 DEF ReqOK, Answers, Open
    <3> QED
      BY <3>2, <3>3, <3>4 DEF ReqOK
  <2> QED
    BY <2>2, <2>3, Joined
<1> QED
  BY <1>5, <1>6, <1>7, <1>8

-----------------------------------------------------------------------------

\* The invariant holds at the start.
LEMMA InitHolds == Init => IInv
<1> USE NullAssumption, RowAssumption
<1> SUFFICES ASSUME Init PROVE IInv
  OBVIOUS
<1>1. NoArg \in Arg
  BY DEF NoArg, Sent, Arg, Opt, Op, Status, IdSet
<1>2. TypeOK
  BY <1>1, ClockAssumption DEF Init, TypeOK, Opt
<1>3. \A r \in Req : pc[r] = "idle" /\ arg[r] = NoArg /\ now = 0
  BY DEF Init
<1>4. NoArg.op = "none" /\ NoArg.start = 0 /\ NoArg.at = 0
  BY DEF NoArg, Sent
<1> QED
  <2>1. IdsReserved
    BY <1>3 DEF IdsReserved, Opening
  <2>2. ASSUME NEW r \in Req
        PROVE  ReqOK(r)
    <3>1. pc[r] = "idle" /\ arg[r].op = "none" /\ arg[r].start = 0 /\ arg[r].at = 0 /\ now = 0
      BY <1>3, <1>4
    <3>2. ArgFits(r)
      BY <3>1 DEF ArgFits, Opening, ChangeSteps, WithCookie
    <3> QED
      BY <3>1, <3>2 DEF ReqOK, ChangeCovers, ExpiryCovers, Answers, ChangeSteps
  <2> QED
    BY <1>2, <2>1, <2>2, Split

\* Every step keeps the invariant.
LEMMA NextKeeps == IInv /\ [Next]_vars => IInv'
<1> SUFFICES ASSUME IInv, [Next]_vars PROVE IInv'
  OBVIOUS
<1>1. ASSUME NEW r \in Req, Serve(r)
      PROVE  IInv'
  BY <1>1, SignInKeeps, StartSessionKeeps, GetSessionKeeps, CheckKeeps, TouchKeeps,
     MeKeeps, LogoutKeeps, VerifyKeeps, DropKeeps, CommitKeeps DEF Serve
<1> QED
  BY <1>1, StartKeeps, FailKeeps, RestKeeps DEF Next

\* The inductive invariant of Sessions: sessions and requests agree, and the
\* promises below hold, in every reachable state.
THEOREM Invariance == Spec => []IInv
BY InitHolds, NextKeeps, PTL DEF Spec

\* Types; in particular no session is valid for longer than SessionTTL.
THEOREM TypeCorrect == Spec => []TypeOK
<1>1. IInv => TypeOK
  BY DEF IInv
<1> QED
  BY <1>1, Invariance, PTL

\* A password change answered 204 has ended every earlier session of its user.
THEOREM ChangesEndSessions == Spec => []ChangeEndsEarlierSessions
<1>1. IInv => ChangeEndsEarlierSessions
  BY DEF IInv
<1> QED
  BY <1>1, Invariance, PTL

\* A logout answered 204 whose delete went through has ended its session.
THEOREM LogoutsEndSessions == Spec => []LogoutEndsSession
<1>1. IInv => LogoutEndsSession
  BY DEF IInv
<1> QED
  BY <1>1, Invariance, PTL

\* A session that served a request stays valid for another half lifetime.
THEOREM SessionsRoll == Spec => []UseKeepsAlive
<1>1. IInv => UseKeepsAlive
  BY DEF IInv
<1> QED
  BY <1>1, Invariance, PTL

\* An ended session stays ended, for touches under way included: only
\* StartSession inserts, and only an id that was never used.
THEOREM EndedStaysEnded == Spec => EndedForGood
<1>1. IInv /\ [Next]_vars => \A id \in SessionId : sess[id] = Gone => sess'[id] = Gone
  <2> USE RowAssumption
  <2> SUFFICES ASSUME IInv, [Next]_vars, NEW id \in SessionId, sess[id] = Gone
               PROVE  sess'[id] = Gone
    OBVIOUS
  <2>1. ASSUME NEW r \in Req, StartSession(r)
        PROVE  sess'[id] = Gone
    <3>1. sess[arg[r].id] = NULL /\ sess \in [SessionId -> Session \cup {NULL, Gone}]
      BY <2>1 DEF StartSession, IInv, ArgFits, Opening, TypeOK
    <3> QED
      BY <2>1, <3>1 DEF StartSession
  <2>2. ASSUME NEW r \in Req, TouchSession(r)
        PROVE  sess'[id] = Gone
    <3>1. sess \in [SessionId -> Session \cup {NULL, Gone}]
      BY DEF IInv, TypeOK
    <3>2. CASE ~Open(arg[r].id)
      BY <2>2, <3>2 DEF TouchSession, Touched
    <3>3. CASE Open(arg[r].id)
      BY <2>2, <3>1, <3>3 DEF TouchSession, Touched, Open
    <3> QED
      BY <3>2, <3>3
  <2>3. ASSUME NEW r \in Req, Logout(r)
        PROVE  sess'[id] = Gone
    BY <2>3 DEF Logout, Deleted
  <2>4. ASSUME NEW r \in Req, CommitPassword(r)
        PROVE  sess'[id] = Gone
    BY <2>4 DEF CommitPassword, Deleted
  <2>5. ASSUME NEW r \in Req,
               \/ SignUp(r) \/ Login(r) \/ GetSession(r) \/ CheckExpiry(r) \/ Me(r)
               \/ VerifyCurrent(r) \/ UpdatePassword(r) \/ DeleteUserSessions(r)
        PROVE  sess'[id] = Gone
    BY <2>5 DEF SignUp, Login, GetSession, CheckExpiry, Me, VerifyCurrent,
       UpdatePassword, DeleteUserSessions
  <2>6. ASSUME NEW r \in Req, Start(r) \/ Fail(r) \/ Return(r)
        PROVE  sess'[id] = Gone
    BY <2>6 DEF Start, StartSignUp, StartLogin, StartWithCookie, Begin, Fail, Return
  <2>7. CASE Crash \/ Tick \/ UNCHANGED vars
    BY <2>7 DEF Crash, Tick, vars
  <2> QED
    BY <2>1, <2>2, <2>3, <2>4, <2>5, <2>6, <2>7 DEF Next, Serve
<1> QED
  BY <1>1, Invariance, PTL DEF Spec, EndedForGood
=============================================================================
