------------------------------ MODULE Accounts ------------------------------
(***************************************************************************)
(* First-run setup, invites and registration: internal/domain/users.go and *)
(* the handlers over it, as concurrent HTTP requests on one PostgreSQL     *)
(* database.                                                               *)
(*                                                                         *)
(* A step is one SQL statement or one commit.  users and invites hold the  *)
(* COMMITTED rows; what a transaction has written and not committed is     *)
(* read off pc and arg of its request, and so are the locks it holds, so   *)
(* that a rollback is nothing but leaving the transaction's states.  A     *)
(* statement sees the committed rows of its own moment (READ COMMITTED),   *)
(* and waits, holding its connection, for a row, unique-index or advisory  *)
(* lock of another transaction.                                            *)
(***************************************************************************)
EXTENDS Naturals, FiniteSets

CONSTANTS
  Req,          \* slots for requests the server is handling
  UserId,       \* user ids the database can generate
  InviteId,     \* invites the database can generate; an invite is its token
  Address,      \* e-mail addresses as callers type them
  Norm,         \* what TrimSpace and ToLower make of each address
  Blank,        \* the empty address
  NULL,         \* SQL null, and a token that belongs to no invite
  InviteTTL,    \* lifetime of an invite
  MaxTime,      \* bound on the clock
  PoolSize,     \* connections of the pool
  Faults        \* whether statements may fail and the process may crash

ASSUME NormAssumption ==
  /\ Norm \in [Address -> Address]
  /\ \A a \in Address : Norm[Norm[a]] = Norm[a]
ASSUME TimeAssumption == InviteTTL \in Nat \ {0} /\ MaxTime \in Nat
ASSUME NullAssumption ==
  NULL \notin UserId \cup InviteId \cup Address \cup Nat
ASSUME RequestAssumption == Faults \in BOOLEAN
\* pgxpool opens no pool of less than one connection.
ASSUME PoolAssumption == PoolSize \in Nat \ {0}

VARIABLES
  now,          \* wall clock
  users,        \* committed users rows, NULL where there is none
  invites,      \* committed invites rows, NULL where there is none
  sessions,     \* users whose sign-up has opened its session
  pc,           \* pc[r]: the statement request r is about to run
  arg           \* arg[r]: what request r asked, and the status it is answered

vars == <<now, users, invites, sessions, pc, arg>>

-----------------------------------------------------------------------------
(* Types *)

Emails == {Norm[a] : a \in Address}
User == [email : Emails, role : {"admin", "member"}]
Bound == (Emails \ {Blank}) \cup {NULL}
Invite == [email : Bound, by : UserId, expires : Nat,
           usedAt : Nat \cup {NULL}, usedBy : UserId \cup {NULL},
           revokedAt : Nat \cup {NULL}]
ASSUME RowAssumption == NULL \notin User \cup Invite
Arg == [op : {"none", "setup", "register", "invite", "revoke"},
        addr : Address \cup {NULL}, inv : InviteId \cup {NULL},
        uid : UserId \cup {NULL}, by : UserId \cup {NULL},
        at : Nat, status : {0, 200, 201, 409, 422, 500}]

SetupSteps == {"setupBegin", "setupLock", "setupCount", "setupCreate", "setupCommit"}
RegisterSteps == {"regBegin", "regFind", "regCreate", "regClaim", "regCommit"}
InviteSteps == {"invInsert", "invName"}
RevokeSteps == {"revBegin", "revUpdate", "revName"}
Active == SetupSteps \cup RegisterSteps \cup InviteSteps \cup RevokeSteps
            \cup {"session"}
Step == Active \cup {"idle", "replied"}

\* Every column holds what its SQL type and its constraints allow; in
\* particular an address in the database is always a normalised one, and no
\* invite is bound to the blank address, which would let nobody in.
TypeOK ==
  /\ now \in 0..MaxTime
  /\ users \in [UserId -> User \cup {NULL}]
  /\ invites \in [InviteId -> Invite \cup {NULL}]
  /\ sessions \in SUBSET UserId
  /\ pc \in [Req -> Step]
  /\ arg \in [Req -> Arg]

Asked(op, a, i, u, by, t) ==
  [op |-> op, addr |-> a, inv |-> i, uid |-> u, by |-> by, at |-> t, status |-> 0]
NoArg == Asked("none", NULL, NULL, NULL, NULL, 0)

Init ==
  /\ now = 0
  /\ users = [u \in UserId |-> NULL]
  /\ invites = [i \in InviteId |-> NULL]
  /\ sessions = {}
  /\ pc = [r \in Req |-> "idle"]
  /\ arg = [r \in Req |-> NoArg]

-----------------------------------------------------------------------------
(* Rows and the predicates of the queries.  A definition named after       *)
(* another with a suffix is a regression the mutants put in its place.     *)

normEmail(a) == Norm[a]

Rows == {u \in UserId : users[u] # NULL}
Known == {i \in InviteId : invites[i] # NULL}
IsAdmin(u) == users[u] # NULL /\ users[u].role = "admin"

UnsettledNotRevoked(i) == invites[i].revokedAt = NULL
Unsettled(i) == invites[i].usedAt = NULL /\ invites[i].revokedAt = NULL

\* Where-clause of FindValidInvite.
FindValid(i, t) == i # NULL /\ Unsettled(i) /\ t < invites[i].expires

\* Where-clause of ClaimInvite, evaluated again on the committed row once its
\* lock is granted.
ClaimableByToken(i, t) == TRUE
ClaimableUnused(i, t) == invites[i].usedAt = NULL /\ t < invites[i].expires
Claimable(i, t) == Unsettled(i) /\ t < invites[i].expires

\* Where-clause of RevokeInvite.
RevocableUnlessRevoked(i) == UnsettledNotRevoked(i)
Revocable(i) == Unsettled(i)

\* The address an invite is bound to: a missing or blank one binds nobody.
BoundTo(a) == IF a = NULL THEN NULL
              ELSE IF normEmail(a) = Blank THEN NULL ELSE normEmail(a)

InviteRow(r) ==
  [email |-> BoundTo(arg[r].addr), by |-> arg[r].by,
   expires |-> arg[r].at + InviteTTL,
   usedAt |-> NULL, usedBy |-> NULL, revokedAt |-> NULL]

UserRow(r, role) == [email |-> normEmail(arg[r].addr), role |-> role]

-----------------------------------------------------------------------------
(* Locks and connections, all derived from pc *)

InTx(r) == pc[r] \in (SetupSteps \cup RegisterSteps) \ {"setupBegin", "regBegin"}
HasConn(r) == InTx(r) \/ pc[r] = "revUpdate"
FreeConn == Cardinality({r \in Req : HasConn(r)}) < PoolSize

HoldsSetupLock(r) == pc[r] \in {"setupCount", "setupCreate", "setupCommit"}
SetupLockAny == TRUE
SetupLockFree == \A r \in Req : ~HoldsSetupLock(r)

\* The request has inserted a users row and not committed it.
PendingUser(r) == pc[r] \in {"setupCommit", "regClaim", "regCommit"}
EmailLocked(r) ==
  \E q \in Req \ {r} :
    PendingUser(q) /\ normEmail(arg[q].addr) = normEmail(arg[r].addr)
EmailTakenNever(r) == FALSE
EmailTaken(r) == \E u \in Rows : users[u].email = normEmail(arg[r].addr)

\* The request has updated an invites row and not committed it.
InviteLocked(i) == \E q \in Req : pc[q] = "regCommit" /\ arg[q].inv = i

-----------------------------------------------------------------------------
(* Moving a request along.  Leaving the steps of a transaction for        *)
(* "replied" rolls it back: its locks and its pending rows are gone.       *)

Goto(r, p) == pc' = [pc EXCEPT ![r] = p] /\ UNCHANGED arg

Reply(r, s) ==
  /\ pc' = [pc EXCEPT ![r] = "replied"]
  /\ arg' = [arg EXCEPT ![r].status = s]

Begin(r, p, a) ==
  /\ pc[r] = "idle"
  /\ pc' = [pc EXCEPT ![r] = p]
  /\ arg' = [arg EXCEPT ![r] = a]
  /\ UNCHANGED <<now, users, invites, sessions>>

\* A random id nobody else has been given.
FreshUser(u) == users[u] = NULL /\ \A r \in Req : arg[r].uid # u
FreshInvite(i) == invites[i] = NULL /\ \A r \in Req : arg[r].inv # i

StartSetup(r, a, u) ==
  /\ FreshUser(u)
  /\ Begin(r, "setupBegin", Asked("setup", a, NULL, u, NULL, 0))

\* The handler reads the clock here, before its transaction begins.
StartRegister(r, a, i, u) ==
  /\ FreshUser(u)
  /\ i \in Known \cup {NULL}
  /\ Begin(r, "regBegin", Asked("register", a, i, u, NULL, now))

StartInvite(r, by, a, i) ==
  /\ IsAdmin(by)
  /\ FreshInvite(i)
  /\ Begin(r, "invInsert", Asked("invite", a, i, NULL, by, now))

StartRevoke(r, by, i) ==
  /\ IsAdmin(by)
  /\ i \in Known \cup {NULL}
  /\ Begin(r, "revBegin", Asked("revoke", NULL, i, NULL, by, now))

-----------------------------------------------------------------------------
(* POST /auth/setup *)

SetupBegin(r) ==
  /\ pc[r] = "setupBegin"
  /\ FreeConn
  /\ Goto(r, "setupLock")
  /\ UNCHANGED <<now, users, invites, sessions>>

LockSetup(r) ==
  /\ pc[r] = "setupLock"
  /\ SetupLockFree
  /\ Goto(r, "setupCount")
  /\ UNCHANGED <<now, users, invites, sessions>>

CountUsers(r) ==
  /\ pc[r] = "setupCount"
  /\ \/ Rows = {} /\ Goto(r, "setupCreate")
     \/ Rows # {} /\ Reply(r, 409)
  /\ UNCHANGED <<now, users, invites, sessions>>

\* Insert into users.  The unique index makes the insert wait for an
\* uncommitted row with the same address and fail on a committed one; the
\* violation is no domain error, so it is answered 500.
CreateUser(r, from, next) ==
  /\ pc[r] = from
  /\ ~EmailLocked(r)
  /\ \/ ~EmailTaken(r) /\ Goto(r, next)
     \/ EmailTaken(r) /\ Reply(r, 500)
  /\ UNCHANGED <<now, users, invites, sessions>>

SetupCreate(r) == CreateUser(r, "setupCreate", "setupCommit")

SetupCommit(r) ==
  /\ pc[r] = "setupCommit"
  /\ users' = [users EXCEPT ![arg[r].uid] = UserRow(r, "admin")]
  /\ Goto(r, "session")
  /\ UNCHANGED <<now, invites, sessions>>

-----------------------------------------------------------------------------
(* POST /auth/register *)

RegisterBegin(r) ==
  /\ pc[r] = "regBegin"
  /\ FreeConn
  /\ Goto(r, "regFind")
  /\ UNCHANGED <<now, users, invites, sessions>>

ForAnyone(r) == TRUE
ForThisAddress(r) ==
  invites[arg[r].inv].email \in {NULL, normEmail(arg[r].addr)}

FindInvite(r) ==
  /\ pc[r] = "regFind"
  /\ \/ /\ ~FindValid(arg[r].inv, arg[r].at)
        /\ Reply(r, 422)
     \/ /\ FindValid(arg[r].inv, arg[r].at)
        /\ ~ForThisAddress(r)
        /\ Reply(r, 422)
     \/ /\ FindValid(arg[r].inv, arg[r].at)
        /\ ForThisAddress(r)
        /\ Goto(r, "regCreate")
  /\ UNCHANGED <<now, users, invites, sessions>>

RegisterCreate(r) == CreateUser(r, "regCreate", "regClaim")

\* The update waits for the row lock.  No row left is pgx.ErrNoRows, which
\* Register hands on as it is: 500, and the inserted user rolled back.
ClaimInvite(r) ==
  /\ pc[r] = "regClaim"
  /\ ~InviteLocked(arg[r].inv)
  /\ \/ Claimable(arg[r].inv, arg[r].at) /\ Goto(r, "regCommit")
     \/ ~Claimable(arg[r].inv, arg[r].at) /\ Reply(r, 500)
  /\ UNCHANGED <<now, users, invites, sessions>>

\* The claimed row: used_by is the id CreateUser returned.
Used(r) ==
  LET row == invites[arg[r].inv] IN
    [email |-> row.email, by |-> row.by, expires |-> row.expires,
     usedAt |-> arg[r].at, usedBy |-> arg[r].uid, revokedAt |-> row.revokedAt]

RegisterCommit(r) ==
  /\ pc[r] = "regCommit"
  /\ users' = [users EXCEPT ![arg[r].uid] = UserRow(r, "member")]
  /\ invites' = [invites EXCEPT ![arg[r].inv] = Used(r)]
  /\ Goto(r, "session")
  /\ UNCHANGED <<now, sessions>>

-----------------------------------------------------------------------------
(* startSession, after either commit and on a connection of its own *)

SessionOnSecondConn(r) ==
  Cardinality({q \in Req : HasConn(q) \/ pc[q] = "session"}) < PoolSize
SessionConn(r) == FreeConn

StartSession(r) ==
  /\ pc[r] = "session"
  /\ SessionConn(r)
  /\ sessions' = sessions \cup {arg[r].uid}
  /\ Reply(r, 201)
  /\ UNCHANGED <<now, users, invites>>

-----------------------------------------------------------------------------
(* POST /invites and POST /invites/{id}/revoke: one statement, committed   *)
(* by itself, then a look-up of the issuer's name for the answer           *)

CreateInvite(r) ==
  /\ pc[r] = "invInsert"
  /\ FreeConn
  /\ invites' = [invites EXCEPT ![arg[r].inv] = InviteRow(r)]
  /\ Goto(r, "invName")
  /\ UNCHANGED <<now, users, sessions>>

InviteName(r) ==
  /\ pc[r] = "invName"
  /\ FreeConn
  /\ Reply(r, 201)
  /\ UNCHANGED <<now, users, invites, sessions>>

RevokeBegin(r) ==
  /\ pc[r] = "revBegin"
  /\ FreeConn
  /\ Goto(r, "revUpdate")
  /\ UNCHANGED <<now, users, invites, sessions>>

RevokeInvite(r) ==
  /\ pc[r] = "revUpdate"
  /\ \/ /\ arg[r].inv # NULL
        /\ ~InviteLocked(arg[r].inv)
        /\ Revocable(arg[r].inv)
        /\ invites' = [invites EXCEPT ![arg[r].inv].revokedAt = arg[r].at]
        /\ Goto(r, "revName")
     \/ /\ \/ arg[r].inv = NULL
           \/ arg[r].inv # NULL /\ ~InviteLocked(arg[r].inv) /\ ~Revocable(arg[r].inv)
        /\ Reply(r, 409)
        /\ UNCHANGED invites
  /\ UNCHANGED <<now, users, sessions>>

RevokeName(r) ==
  /\ pc[r] = "revName"
  /\ FreeConn
  /\ Reply(r, 200)
  /\ UNCHANGED <<now, users, invites, sessions>>

-----------------------------------------------------------------------------
(* The environment *)

\* A lost connection, a cancelled request context, a full disk: the error of
\* any statement or commit ends the request with 500.  In "session", "invName"
\* and "revName" the write before it stays committed.
Fail(r) ==
  /\ Faults
  /\ pc[r] \in Active
  /\ Reply(r, 500)
  /\ UNCHANGED <<now, users, invites, sessions>>

\* The process dies; the database rolls its transactions back.
Crash ==
  /\ Faults
  /\ \E r \in Req : pc[r] # "idle"
  /\ pc' = [r \in Req |-> "idle"]
  /\ arg' = [r \in Req |-> NoArg]
  /\ UNCHANGED <<now, users, invites, sessions>>

\* The client has read its answer; the slot is free for the next request.
Return(r) ==
  /\ pc[r] = "replied"
  /\ pc' = [pc EXCEPT ![r] = "idle"]
  /\ arg' = [arg EXCEPT ![r] = NoArg]
  /\ UNCHANGED <<now, users, invites, sessions>>

Tick ==
  /\ now < MaxTime
  /\ now' = now + 1
  /\ UNCHANGED <<users, invites, sessions, pc, arg>>

-----------------------------------------------------------------------------

Start(r) ==
  \/ \E a \in Address, u \in UserId : StartSetup(r, a, u)
  \/ \E a \in Address, i \in InviteId \cup {NULL}, u \in UserId :
       StartRegister(r, a, i, u)
  \/ \E by \in UserId, a \in Address \cup {NULL}, i \in InviteId :
       StartInvite(r, by, a, i)
  \/ \E by \in UserId, i \in InviteId \cup {NULL} : StartRevoke(r, by, i)

\* What the server does for a request it has accepted, when nothing fails.
Serve(r) ==
  \/ SetupBegin(r) \/ LockSetup(r) \/ CountUsers(r) \/ SetupCreate(r) \/ SetupCommit(r)
  \/ RegisterBegin(r) \/ FindInvite(r) \/ RegisterCreate(r) \/ ClaimInvite(r)
  \/ RegisterCommit(r)
  \/ StartSession(r)
  \/ CreateInvite(r) \/ InviteName(r)
  \/ RevokeBegin(r) \/ RevokeInvite(r) \/ RevokeName(r)

Next ==
  \/ \E r \in Req : Start(r) \/ Serve(r) \/ Fail(r) \/ Return(r)
  \/ Crash
  \/ Tick

Spec == Init /\ [][Next]_vars

\* Lock queues of PostgreSQL and the wait queue of the pool are first come,
\* first served: a request whose turn keeps coming up does get it.
Fairness == \A r \in Req : SF_vars(Serve(r))

-----------------------------------------------------------------------------
(* What must hold of the database and of the answers *)

\* Concurrent first-run setups leave one admin, and as soon as there is any
\* account there is an admin (Users.Setup: the advisory lock is held from
\* before the count until the commit).
OneAdmin ==
  /\ \A u, v \in UserId : IsAdmin(u) /\ IsAdmin(v) => u = v
  /\ Rows # {} => \E u \in UserId : IsAdmin(u)

\* Every member came in on an invite of their own: it was bound to their
\* address or to none, it was live at the time of their request, and nobody
\* else used it, whatever registrations and revocations ran at the same time
\* (Users.Register: find, create and claim in one transaction).
AdmissionByInvite ==
  /\ \A u \in Rows : users[u].role = "member" =>
       \E i \in Known : invites[i].usedBy = u
  /\ \A i, j \in Known :
       invites[i].usedBy # NULL /\ invites[i].usedBy = invites[j].usedBy => i = j
  /\ \A i \in Known : invites[i].usedBy # NULL =>
       LET u == invites[i].usedBy IN
         /\ u \in Rows
         /\ users[u].role = "member"
         /\ invites[i].email \in {NULL, users[u].email}
         /\ invites[i].usedAt # NULL
         /\ invites[i].usedAt < invites[i].expires
         /\ invites[i].revokedAt = NULL

\* No two accounts share an address, however it was typed (normEmail with the
\* unique index on users.email).
EmailsDistinct ==
  \A u, v \in Rows : users[u].email = users[v].email => u = v

\* An answer tells the truth about the database for as long as the client may
\* read it: 201 means the account, its session and the spent invite are there;
\* 409 and 422 mean the request left no account behind; 200 on a revocation
\* means this one stopped the invite before anybody used it, and 409 that the
\* invite is past stopping.
RepliesTruthful ==
  \A r \in Req : pc[r] = "replied" =>
    LET a == arg[r] IN
      /\ a.op = "setup" =>
           /\ a.status = 201 =>
                a.uid \in sessions /\ users[a.uid] = UserRow(r, "admin")
           /\ a.status = 409 => users[a.uid] = NULL /\ Rows # {}
      /\ a.op = "register" =>
           /\ a.status = 201 =>
                /\ a.uid \in sessions
                /\ users[a.uid] = UserRow(r, "member")
                /\ invites[a.inv].usedBy = a.uid
           /\ a.status = 422 => users[a.uid] = NULL
      /\ a.op = "invite" /\ a.status = 201 =>
           /\ a.inv \in Known
           /\ invites[a.inv].email = BoundTo(a.addr)
      /\ a.op = "revoke" =>
           /\ a.status = 200 =>
                /\ invites[a.inv].revokedAt = a.at
                /\ invites[a.inv].usedAt = NULL
           /\ a.status = 409 => a.inv = NULL \/ ~Unsettled(a.inv)

\* Using or revoking an invite is final: no step of any request touches the
\* row again (claimInvite and revokeInvite share the unsettled condition).
SettledForGood ==
  [][\A i \in Known : ~Unsettled(i) => invites'[i] = invites[i]]_vars

\* Every request the server has accepted is answered, unless the process dies:
\* no waiting for the setup lock, an unique index, an invite row or a pooled
\* connection lasts for ever.
RequestsAnswered ==
  \A r \in Req : pc[r] \in Active ~> pc[r] \in {"replied", "idle"}

\* openapi.yaml:193-195 declares two outcomes of POST /auth/register: 201, and
\* 422 when the invite is not valid for the address.
RegisterRefusalIs422 ==
  \A r \in Req : pc[r] = "replied" /\ arg[r].op = "register" =>
    arg[r].status \in {201, 422}

-----------------------------------------------------------------------------
(* The inductive invariant: what the locks, the reserved ids and the       *)
(* checks already made guarantee half-way through a transaction.           *)

\* A request is at a step of its own operation and carries its arguments.
ArgsFit ==
  \A r \in Req :
    /\ pc[r] = "idle" => arg[r] = NoArg
    /\ pc[r] \in SetupSteps => arg[r].op = "setup"
    /\ pc[r] \in RegisterSteps => arg[r].op = "register"
    /\ pc[r] \in InviteSteps => arg[r].op = "invite"
    /\ pc[r] \in RevokeSteps => arg[r].op = "revoke"
    /\ pc[r] = "session" => arg[r].op \in {"setup", "register"}
    /\ arg[r].op \in {"setup", "register"} <=> arg[r].uid # NULL
    /\ arg[r].op \in {"setup", "register"} => arg[r].addr # NULL
    /\ arg[r].op = "invite" => arg[r].inv # NULL /\ arg[r].by # NULL /\ IsAdmin(arg[r].by)
    /\ arg[r].op \in {"register", "revoke"} => arg[r].inv \in Known \cup {NULL}
    /\ arg[r].at <= now

\* The ids requests are about to insert are new and their own.
IdsReserved ==
  /\ \A q, r \in Req : arg[q].uid # NULL /\ arg[q].uid = arg[r].uid => q = r
  /\ \A q, r \in Req :
       arg[q].op = "invite" /\ arg[r].op = "invite" /\ arg[q].inv = arg[r].inv => q = r
  /\ \A r \in Req : pc[r] \in SetupSteps \cup RegisterSteps => users[arg[r].uid] = NULL
  /\ \A r \in Req : pc[r] = "invInsert" => invites[arg[r].inv] = NULL

\* The holder of the setup lock is alone, and what it counted still holds.
SetupSerial ==
  /\ \A q, r \in Req : HoldsSetupLock(q) /\ HoldsSetupLock(r) => q = r
  /\ \A r \in Req : pc[r] \in {"setupCreate", "setupCommit"} => Rows = {}

\* Without an account there is no invite.
InvitesHaveAdmin == \A i \in Known : IsAdmin(invites[i].by)

\* A user row inserted and not committed has its address to itself.
PendingDistinct ==
  \A r \in Req : PendingUser(r) => ~EmailTaken(r) /\ ~EmailLocked(r)

\* A registration past its checks may still rely on them: the binding of an
\* invite never changes, and a claimed row is locked until the commit.
ClaimSound ==
  \A r \in Req :
    /\ pc[r] \in {"regCreate", "regClaim", "regCommit"} =>
         arg[r].inv \in Known /\ ForThisAddress(r)
    /\ pc[r] = "regCommit" =>
         /\ Claimable(arg[r].inv, arg[r].at)
         /\ \A q \in Req : pc[q] = "regCommit" /\ arg[q].inv = arg[r].inv => q = r

\* What a request has written is still there when it is answered, whoever writes
\* meanwhile, and so is what it was refused for.
Written(r) ==
  LET a == arg[r] IN
    /\ a.op = "setup" => users[a.uid] = UserRow(r, "admin")
    /\ a.op = "register" =>
         /\ users[a.uid] = UserRow(r, "member")
         /\ a.inv \in Known /\ invites[a.inv].usedBy = a.uid
    /\ a.op = "invite" => a.inv \in Known /\ invites[a.inv].email = BoundTo(a.addr)
    /\ a.op = "revoke" =>
         a.inv \in Known /\ invites[a.inv].revokedAt = a.at /\ invites[a.inv].usedAt = NULL

Refused(r) ==
  LET a == arg[r] IN
    /\ a.op \in {"setup", "register"} => users[a.uid] = NULL
    /\ a.op = "setup" => Rows # {}
    /\ a.op = "revoke" => a.inv \notin Known \/ ~Unsettled(a.inv)

AnswersStand ==
  \A r \in Req :
    /\ pc[r] \in {"session", "invName", "revName"} => Written(r)
    /\ pc[r] = "replied" =>
         /\ arg[r].status \in {200, 201} => Written(r)
         /\ arg[r].status = 201 /\ arg[r].uid # NULL => arg[r].uid \in sessions
         /\ arg[r].status \in {409, 422} => Refused(r)

IInv ==
  /\ TypeOK /\ ArgsFit /\ IdsReserved /\ SetupSerial /\ InvitesHaveAdmin
  /\ PendingDistinct /\ ClaimSound /\ AnswersStand
  /\ OneAdmin /\ AdmissionByInvite /\ EmailsDistinct

-----------------------------------------------------------------------------
(* Who waits for whom: the safety half of RequestsAnswered *)

Connecting == {"setupBegin", "regBegin", "invInsert", "invName", "revBegin", "revName"}

\* What request r is about to do has to wait.
Blocked(r) ==
  \/ pc[r] \in Connecting /\ ~FreeConn
  \/ pc[r] = "session" /\ ~SessionConn(r)
  \/ pc[r] = "setupLock" /\ ~SetupLockFree
  \/ pc[r] \in {"setupCreate", "regCreate"} /\ EmailLocked(r)
  \/ pc[r] = "regClaim" /\ InviteLocked(arg[r].inv)
  \/ pc[r] = "revUpdate" /\ arg[r].inv # NULL /\ InviteLocked(arg[r].inv)

\* Request q holds a connection or a lock that r is waiting for.
WaitsFor(r, q) ==
  \/ pc[r] \in Connecting \cup {"session"} /\ HasConn(q)
  \/ pc[r] = "setupLock" /\ HoldsSetupLock(q)
  \/ /\ pc[r] \in {"setupCreate", "regCreate"}
     /\ q # r /\ PendingUser(q) /\ normEmail(arg[q].addr) = normEmail(arg[r].addr)
  \/ /\ pc[r] \in {"regClaim", "revUpdate"}
     /\ pc[q] = "regCommit" /\ arg[q].inv = arg[r].inv

\* The order in which the pool, the setup lock, the index on e-mail addresses
\* and the rows of invites are waited for.
Rank(s) ==
  CASE s \in Connecting \cup {"session"} -> 0
    [] s \in {"setupLock", "regFind"} -> 1
    [] s \in {"setupCount", "setupCreate", "regCreate"} -> 2
    [] s \in {"regClaim", "revUpdate"} -> 3
    [] s \in {"setupCommit", "regCommit"} -> 4

\* Nobody waits in a circle (db.go:26-39 with users.go): a request that cannot go
\* on waits for a holder of what it lacks, and every holder is further on in
\* that order; so behind every request that waits there is one that can go on,
\* which needs no second connection to finish.
NobodyStandsStill ==
  /\ \A r \in Req : Blocked(r) => \E q \in Req : WaitsFor(r, q)
  /\ \A r, q \in Req : WaitsFor(r, q) => pc[q] \in Active /\ Rank(pc[r]) < Rank(pc[q])
  /\ \A r \in Req : Blocked(r) =>
       \E q \in Req : pc[q] \in Active /\ ~Blocked(q) /\ Rank(pc[r]) < Rank(pc[q])

-----------------------------------------------------------------------------
(* Every transaction is one atomic step of Admission *)

AddressesOf(role) ==
  {users[u].email : u \in {v \in Rows : users[v].role = role}}

TicketOf(row) ==
  IF row = NULL THEN [state |-> "none", bound |-> NULL, expires |-> 0]
  ELSE [state |-> IF row.usedAt # NULL THEN "used"
                  ELSE IF row.revokedAt # NULL THEN "revoked" ELSE "open",
        bound |-> row.email, expires |-> row.expires]

Contract == INSTANCE Admission WITH
  admins <- AddressesOf("admin"),
  members <- AddressesOf("member"),
  ticket <- [i \in InviteId |-> TicketOf(invites[i])]

\* The account service behaves, request for request, as if setup, invite,
\* registration and revocation were each one indivisible step.
ImplementsAdmission == Contract!Spec
=============================================================================
