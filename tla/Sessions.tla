------------------------------ MODULE Sessions ------------------------------
(***************************************************************************)
(* Sessions and passwords: domain.Sessions, Login and ChangePassword, the  *)
(* cookie branch of auth.Middleware and the handlers over them, again as   *)
(* concurrent requests whose steps are SQL statements and commits.         *)
(*                                                                         *)
(* A sign-up is one step here; module Accounts has it statement by         *)
(* statement.  The deadline of middleware.Timeout cancels the context of a *)
(* request, so a statement only succeeds before it; what a failed          *)
(* statement leads to differs from handler to handler, see Failed.         *)
(***************************************************************************)
EXTENDS Naturals

CONSTANTS
  Req,          \* slots for requests the server is handling
  User,         \* user ids
  Password,     \* passwords, standing for their hashes too
  Short,        \* those of fewer than ten characters
  SessionId,    \* ids NewSessionID can draw
  NULL,         \* no row, no value
  Gone,         \* the row of a session that was deleted
  SessionTTL,   \* lifetime of a session
  Timeout,      \* time the server gives a request
  MaxTime,      \* bound on the clock
  Faults        \* whether statements may fail and the process may crash

Half == SessionTTL \div 2

ASSUME PasswordAssumption == Short \subseteq Password
ASSUME ClockAssumption == SessionTTL \in Nat \ {0} /\ Timeout \in Nat /\ MaxTime \in Nat
\* 30 seconds against 15 days.
ASSUME TimeoutAssumption == 2 * Timeout + Half <= SessionTTL
ASSUME NullAssumption == NULL \notin User \cup Password \cup SessionId
ASSUME FaultsAssumption == Faults \in BOOLEAN

VARIABLES
  now,          \* wall clock
  pw,           \* pw[u]: password_hash of users row u, NULL where there is none
  sess,         \* sess[id]: sessions row; NULL never inserted, Gone deleted
  pc,           \* pc[r]: the statement request r is about to run
  arg           \* arg[r]: what request r was sent and has read so far

vars == <<now, pw, sess, pc, arg>>

-----------------------------------------------------------------------------
(* Types *)

Session == [user : User, expires : Nat]
ASSUME RowAssumption == NULL \notin Session /\ Gone \notin Session /\ NULL # Gone

Opt(S) == S \cup {NULL}
IdSet == SUBSET SessionId
Op == {"none", "signup", "login", "me", "logout", "change"}
Status == {0, 200, 204, 401, 403, 404, 422, 500}

Arg == [op : Op,
        user : Opt(User),               \* principal, or account to sign in
        id : Opt(SessionId),            \* cookie sent, or session to open
        given : Opt(Password), next : Opt(Password),
        start : Nat,                    \* when the request came in
        at : Nat,                       \* the clock Sessions.Principal read
        exp : Nat,                      \* the expiry it read
        before : IdSet,                 \* history: the user's sessions by then
        doomed : IdSet,                 \* rows deleted and not committed
        lost : BOOLEAN,                 \* history: a failure was only ignored
        status : Status]

Steps == {"signUp", "read", "open", "auth", "check", "touch", "me", "delete",
          "cpRead", "cpUpdate", "cpDelete", "cpCommit"}

\* In particular no session is ever valid for longer than SessionTTL from now.
TypeOK ==
  /\ now \in 0..MaxTime
  /\ pw \in [User -> Opt(Password)]
  /\ sess \in [SessionId -> Session \cup {NULL, Gone}]
  /\ \A id \in SessionId :
       sess[id] \notin {NULL, Gone} => sess[id].expires <= now + SessionTTL
  /\ pc \in [Req -> Steps \cup {"idle", "replied"}]
  /\ arg \in [Req -> Arg]

Sent(op, u, id, given, next, t) ==
  [op |-> op, user |-> u, id |-> id, given |-> given, next |-> next, start |-> t,
   at |-> 0, exp |-> 0, before |-> {}, doomed |-> {}, lost |-> FALSE, status |-> 0]
NoArg == Sent("none", NULL, NULL, NULL, NULL, 0)

Init ==
  /\ now = 0
  /\ pw = [u \in User |-> NULL]
  /\ sess = [id \in SessionId |-> NULL]
  /\ pc = [r \in Req |-> "idle"]
  /\ arg = [r \in Req |-> NoArg]

-----------------------------------------------------------------------------
(* Rows, locks, deadlines.  A definition named after another with a suffix *)
(* is a regression the mutants put in its place.                           *)

Open(id) == sess[id] \notin {NULL, Gone}
SessionsOf(u) == {id \in SessionId : Open(id) /\ sess[id].user = u}

\* The update of a password locks its users row until the transaction ends;
\* the foreign key check of an inserted session does not wait for it.
UserLocked(r) ==
  \E q \in Req \ {r} :
    pc[q] \in {"cpDelete", "cpCommit"} /\ arg[q].user = arg[r].user

\* A session row deleted and not committed.
RowLocked(id) == \E q \in Req : pc[q] = "cpCommit" /\ id \in arg[q].doomed

NoDeadline(r) == TRUE
InTime(r) == now <= arg[r].start + Timeout

\* Where-clause of GetSessionWithUser.
Valid(id) == Open(id) /\ now < sess[id].expires

\* time.Until(expires) < SessionTTL/2
NearExpiry(exp) == exp < now + Half

NewExpiryFromOld(r) == arg[r].exp + SessionTTL
NewExpiry(r) == arg[r].at + SessionTTL

\* TouchSession is an update: it does nothing to a row that is not there.
TouchedUpsert(r) ==
  [sess EXCEPT ![arg[r].id] = [user |-> arg[r].user, expires |-> NewExpiry(r)]]
Touched(r) ==
  IF Open(arg[r].id)
    THEN [sess EXCEPT ![arg[r].id] =
            [user |-> sess[arg[r].id].user, expires |-> NewExpiry(r)]]
    ELSE sess

Deleted(ids) ==
  [id \in SessionId |-> IF id \in ids /\ Open(id) THEN Gone ELSE sess[id]]

\* Where-clause of DeleteUserSessions.
ToDropButOwn(r) == SessionsOf(arg[r].user) \ {arg[r].id}
ToDrop(r) == SessionsOf(arg[r].user)

-----------------------------------------------------------------------------
(* Moving a request along.  Leaving the cp steps for "replied" without     *)
(* committing rolls the transaction back.                                  *)

Goto(r, p) == pc' = [pc EXCEPT ![r] = p] /\ UNCHANGED arg

Reply(r, s) ==
  /\ pc' = [pc EXCEPT ![r] = "replied"]
  /\ arg' = [arg EXCEPT ![r].status = s]

Begin(r, p, a) ==
  /\ pc[r] = "idle"
  /\ pc' = [pc EXCEPT ![r] = p]
  /\ arg' = [arg EXCEPT ![r] = a]
  /\ UNCHANGED <<now, pw, sess>>

Handler(r) ==
  CASE arg[r].op = "me" -> "me"
    [] arg[r].op = "logout" -> "delete"
    [] arg[r].op = "change" -> "cpRead"

\* A random id nobody else has drawn.
FreshSession(id) == sess[id] = NULL /\ \A q \in Req : arg[q].id # id

StartSignUp(r, u, p, id) ==
  /\ pw[u] = NULL
  /\ \A q \in Req : arg[q].user # u
  /\ FreshSession(id)
  /\ Begin(r, "signUp", Sent("signup", u, id, p, NULL, now))

StartLogin(r, u, p, id) ==
  /\ pw[u] # NULL
  /\ FreshSession(id)
  /\ Begin(r, "read", Sent("login", u, id, p, NULL, now))

\* Any cookie that was ever handed out may come back, in several tabs at once.
StartWithCookie(r, id) ==
  /\ sess[id] # NULL
  /\ \/ Begin(r, "auth", Sent("me", NULL, id, NULL, NULL, now))
     \/ Begin(r, "auth", Sent("logout", NULL, id, NULL, NULL, now))
     \/ \E p, n \in Password :
          Begin(r, "auth", Sent("change", NULL, id, p, n, now))

-----------------------------------------------------------------------------
(* POST /auth/setup and /auth/register, as far as they matter here: the    *)
(* account is committed with the password as it came, then a session opens *)

SignUp(r) ==
  /\ pc[r] = "signUp"
  /\ InTime(r)
  /\ pw' = [pw EXCEPT ![arg[r].user] = arg[r].given]
  /\ Goto(r, "open")
  /\ UNCHANGED <<now, sess>>

\* POST /auth/login: the hash is read, and verified outside any transaction.
Login(r) ==
  /\ pc[r] = "read"
  /\ InTime(r)
  /\ \/ pw[arg[r].user] = arg[r].given /\ Goto(r, "open")
     \/ pw[arg[r].user] # arg[r].given /\ Reply(r, 403)
  /\ UNCHANGED <<now, pw, sess>>

\* Sessions.Create: a random id, a lifetime from the clock as it is now.
StartSession(r) ==
  /\ pc[r] = "open"
  /\ InTime(r)
  /\ sess' = [sess EXCEPT ![arg[r].id] =
                [user |-> arg[r].user, expires |-> now + SessionTTL]]
  /\ Reply(r, 200)
  /\ UNCHANGED <<now, pw>>

-----------------------------------------------------------------------------
(* The cookie branch of the middleware: Sessions.Principal *)

Resolved(r) ==
  LET row == sess[arg[r].id] IN
    [arg[r] EXCEPT !.user = row.user, !.exp = row.expires,
                   !.before = IF arg[r].op = "change" THEN SessionsOf(row.user) ELSE {}]

GetSession(r) ==
  /\ pc[r] = "auth"
  /\ InTime(r)
  /\ \/ /\ Valid(arg[r].id)
        /\ pc' = [pc EXCEPT ![r] = "check"]
        /\ arg' = [arg EXCEPT ![r] = Resolved(r)]
     \/ ~Valid(arg[r].id) /\ Reply(r, 401)
  /\ UNCHANGED <<now, pw, sess>>

\* Go code between two statements: no deadline stops it.
CheckExpiry(r) ==
  /\ pc[r] = "check"
  /\ pc' = [pc EXCEPT ![r] = IF NearExpiry(arg[r].exp) THEN "touch" ELSE Handler(r)]
  /\ arg' = [arg EXCEPT ![r].at = now]
  /\ UNCHANGED <<now, pw, sess>>

TouchSession(r) ==
  /\ pc[r] = "touch"
  /\ InTime(r)
  /\ ~RowLocked(arg[r].id)
  /\ sess' = Touched(r)
  /\ Goto(r, Handler(r))
  /\ UNCHANGED <<now, pw>>

\* GET /auth/me, standing for every request that needs a user.
Me(r) ==
  /\ pc[r] = "me"
  /\ InTime(r)
  /\ Reply(r, 200)
  /\ UNCHANGED <<now, pw, sess>>

\* POST /auth/logout
Logout(r) ==
  /\ pc[r] = "delete"
  /\ InTime(r)
  /\ ~RowLocked(arg[r].id)
  /\ sess' = Deleted({arg[r].id})
  /\ Reply(r, 204)
  /\ UNCHANGED <<now, pw>>

-----------------------------------------------------------------------------
(* POST /auth/password *)

VerifyCurrent(r) ==
  /\ pc[r] = "cpRead"
  /\ InTime(r)
  /\ \/ pw[arg[r].user] # arg[r].given /\ Reply(r, 403)
     \/ pw[arg[r].user] = arg[r].given /\ arg[r].next \in Short /\ Reply(r, 422)
     \/ pw[arg[r].user] = arg[r].given /\ arg[r].next \notin Short /\ Goto(r, "cpUpdate")
  /\ UNCHANGED <<now, pw, sess>>

UpdatePassword(r) ==
  /\ pc[r] = "cpUpdate"
  /\ InTime(r)
  /\ ~UserLocked(r)
  /\ Goto(r, "cpDelete")
  /\ UNCHANGED <<now, pw, sess>>

\* Deletes the rows committed by now; a session inserted later is not seen.
DeleteUserSessions(r) ==
  /\ pc[r] = "cpDelete"
  /\ InTime(r)
  /\ pc' = [pc EXCEPT ![r] = "cpCommit"]
  /\ arg' = [arg EXCEPT ![r].doomed = ToDrop(r)]
  /\ UNCHANGED <<now, pw, sess>>

CommitPassword(r) ==
  /\ pc[r] = "cpCommit"
  /\ InTime(r)
  /\ pw' = [pw EXCEPT ![arg[r].user] = arg[r].next]
  /\ sess' = Deleted(arg[r].doomed)
  /\ Reply(r, 204)
  /\ UNCHANGED now

-----------------------------------------------------------------------------
(* The environment *)

\* A statement or commit fails, on its own or because the deadline passed.
\* Look-ups swallow the error as "no such row", Principal ignores a failed
\* touch, and AuthLogout logs a failed delete and answers 204 all the same.
Failed(r) ==
  \/ pc[r] = "auth" /\ Reply(r, 401)
  \/ pc[r] = "read" /\ Reply(r, 403)
  \/ pc[r] = "cpRead" /\ Reply(r, 404)
  \/ pc[r] \in {"signUp", "open", "me", "cpUpdate", "cpDelete", "cpCommit"} /\ Reply(r, 500)
  \/ /\ pc[r] = "touch"
     /\ pc' = [pc EXCEPT ![r] = Handler(r)]
     /\ arg' = [arg EXCEPT ![r].lost = TRUE]
  \/ /\ pc[r] = "delete"
     /\ pc' = [pc EXCEPT ![r] = "replied"]
     /\ arg' = [arg EXCEPT ![r] = [arg[r] EXCEPT !.lost = TRUE, !.status = 204]]

Fail(r) ==
  /\ Faults \/ ~InTime(r)
  /\ Failed(r)
  /\ UNCHANGED <<now, pw, sess>>

Crash ==
  /\ Faults
  /\ \E r \in Req : pc[r] # "idle"
  /\ pc' = [r \in Req |-> "idle"]
  /\ arg' = [r \in Req |-> NoArg]
  /\ UNCHANGED <<now, pw, sess>>

Return(r) ==
  /\ pc[r] = "replied"
  /\ pc' = [pc EXCEPT ![r] = "idle"]
  /\ arg' = [arg EXCEPT ![r] = NoArg]
  /\ UNCHANGED <<now, pw, sess>>

Tick ==
  /\ now < MaxTime
  /\ now' = now + 1
  /\ UNCHANGED <<pw, sess, pc, arg>>

-----------------------------------------------------------------------------

Start(r) ==
  \/ \E u \in User, p \in Password, id \in SessionId : StartSignUp(r, u, p, id)
  \/ \E u \in User, p \in Password, id \in SessionId : StartLogin(r, u, p, id)
  \/ \E id \in SessionId : StartWithCookie(r, id)

Serve(r) ==
  \/ SignUp(r) \/ Login(r) \/ StartSession(r)
  \/ GetSession(r) \/ CheckExpiry(r) \/ TouchSession(r) \/ Me(r) \/ Logout(r)
  \/ VerifyCurrent(r) \/ UpdatePassword(r) \/ DeleteUserSessions(r)
  \/ CommitPassword(r)

Next ==
  \/ \E r \in Req : Start(r) \/ Serve(r) \/ Fail(r) \/ Return(r)
  \/ Crash
  \/ Tick

Spec == Init /\ [][Next]_vars

-----------------------------------------------------------------------------
(* What must hold of the sessions *)

\* An ended session stays ended: no touch that was already under way when it
\* was logged out or dropped brings it back (TouchSession is a plain update).
EndedForGood ==
  [][\A id \in SessionId : sess[id] = Gone => sess'[id] = Gone]_vars

\* Once a password change is answered 204, every session its user had when the
\* request was let in is over, the one it came on included, whatever logins,
\* touches, logouts and other changes overlapped it (Users.ChangePassword).
ChangeEndsEarlierSessions ==
  \A r \in Req : pc[r] = "replied" /\ arg[r].op = "change" /\ arg[r].status = 204 =>
    \A id \in arg[r].before : sess[id] = Gone

\* A logout answered 204 whose delete did not fail has ended the session it
\* came with, expired meanwhile or not (AuthLogout).
LogoutEndsSession ==
  \A r \in Req :
    pc[r] = "replied" /\ arg[r].op = "logout" /\ arg[r].status = 204 /\ ~arg[r].lost =>
      sess[arg[r].id] = Gone

\* Rolling expiry: when a request was served with a session at time t, that
\* session, unless somebody ends it, stays valid until t + SessionTTL/2 at
\* least, even if slower requests write older expiry times after it
\* (Sessions.Principal).
UseKeepsAlive ==
  \A r \in Req :
    /\ pc[r] = "replied" /\ arg[r].op = "me" /\ arg[r].status = 200 /\ ~arg[r].lost
    /\ Open(arg[r].id)
    => arg[r].at + Half <= sess[arg[r].id].expires

\* design:165 and openapi.yaml:203: a password change drops all sessions.
PasswordChangeDropsSessions ==
  [][\A r \in Req : CommitPassword(r) =>
       \A id \in SessionId : Open(id)' => sess'[id].user # arg[r].user]_vars

-----------------------------------------------------------------------------
(* The inductive invariant *)

WithCookie == {"me", "logout", "change"}
Opening == {"signUp", "read", "open"}
ChangeSteps == {"cpRead", "cpUpdate", "cpDelete", "cpCommit"}

\* A request is at a step of its own operation, on a session that was issued
\* or, when it signs in, on an id that is still to be inserted.
ArgFits(r) ==
  /\ pc[r] \in Opening => arg[r].op \in {"signup", "login"} /\ sess[arg[r].id] = NULL
  /\ pc[r] \in {"auth", "check", "touch"} => arg[r].op \in WithCookie
  /\ pc[r] = "me" => arg[r].op = "me"
  /\ pc[r] = "delete" => arg[r].op = "logout"
  /\ pc[r] \in ChangeSteps => arg[r].op = "change"
  /\ arg[r].op \in {"signup", "login"} =>
       arg[r].user # NULL /\ arg[r].given # NULL /\ arg[r].id # NULL
  /\ arg[r].op \in WithCookie => arg[r].id # NULL /\ sess[arg[r].id] # NULL
  /\ arg[r].op = "change" => arg[r].next # NULL
  /\ pc[r] \in {"check", "touch"} \cup ChangeSteps => arg[r].user # NULL
  /\ arg[r].start <= now /\ arg[r].at <= now
  /\ pc[r] \in {"touch", "me"} => arg[r].start <= arg[r].at

\* What a password change has found, it will delete or finds deleted.
ChangeCovers(r) ==
  /\ arg[r].op = "change" /\ pc[r] \in {"check", "touch"} \cup (ChangeSteps \ {"cpCommit"}) =>
       \A id \in arg[r].before :
         sess[id] = Gone \/ (Open(id) /\ sess[id].user = arg[r].user)
  /\ pc[r] = "cpCommit" =>
       \A id \in arg[r].before : sess[id] = Gone \/ (Open(id) /\ id \in arg[r].doomed)

\* The expiry a request has read may be overwritten before it looks at it, but
\* only by one that was computed at most Timeout before the request began.
ExpiryCovers(r) ==
  /\ pc[r] = "check" /\ Open(arg[r].id) =>
       \/ arg[r].exp <= sess[arg[r].id].expires
       \/ arg[r].start + SessionTTL <= sess[arg[r].id].expires + Timeout
  /\ pc[r] = "me" /\ ~arg[r].lost /\ Open(arg[r].id) /\ arg[r].at <= arg[r].start + Timeout =>
       arg[r].at + Half <= sess[arg[r].id].expires

\* The ids of sessions yet to be inserted are their request's own.
IdsReserved ==
  \A q, r \in Req :
    pc[q] \in Opening /\ pc[r] \in Opening /\ arg[q].id = arg[r].id => q = r

IInv ==
  /\ TypeOK
  /\ IdsReserved
  /\ \A r \in Req : ArgFits(r) /\ ChangeCovers(r) /\ ExpiryCovers(r)
  /\ ChangeEndsEarlierSessions /\ LogoutEndsSession /\ UseKeepsAlive
=============================================================================
