-------------------------------- MODULE Gate --------------------------------
(***************************************************************************)
(* Who may use which operation, and how a browser keeps its session:       *)
(* auth.Middleware, the gate of router.go and the cookie a client holds    *)
(* beside the sessions row it names.                                       *)
(*                                                                         *)
(* Every client has signed in at time 0.  Login, logout and the statements *)
(* of a touch are in module Sessions; here a touch is one step.  Whatever  *)
(* a handler does is left out: a request that reaches it is answered 200.  *)
(***************************************************************************)
EXTENDS Naturals

CONSTANTS
  Req,          \* slots for requests the server is handling
  Client,       \* browsers, each with a session of its own
  Op,           \* operation ids requests are made for
  NULL,         \* no row, no cookie, nobody
  SessionTTL,   \* lifetime of a session
  Timeout,      \* bound: a request is answered and read within this time
  MaxTime,      \* bound on the clock
  Faults        \* whether answers get lost

Half == SessionTTL \div 2

ASSUME ClockAssumption == SessionTTL \in Nat \ {0} /\ Timeout \in Nat /\ MaxTime \in Nat
ASSUME NullAssumption == NULL \notin Client \cup Nat \cup {"admin", "member"}
ASSUME FaultsAssumption == Faults \in BOOLEAN

VARIABLES
  now,          \* wall clock
  role,         \* role[c]: role of the user of c; nothing changes a role
  row,          \* row[c]: expiry of the sessions row of c, NULL once deleted
  jar,          \* jar[c]: expiry of the cookie c holds
  slipped,      \* history: clients that were refused for their origin or
                \* missed an answer
  pc,           \* pc[r]: how far request r has come
  arg           \* arg[r]: what it carries and what is known of it

vars == <<now, role, row, jar, slipped, pc, arg>>

-----------------------------------------------------------------------------
(* The access tables.  What the contract does not declare is not known.    *)

publicOps == {"authSetup", "authLogin", "authRegister", "authStatus", "previewInvite"}
deviceOps == {"listVessels", "postReadings", "listMetrics"}
adminOps == {"listInvites", "createInvite", "revokeInvite", "listMembers",
             "listDevices", "createDevice", "revokeDevice"}
known == {"authSetup", "authLogin", "authLogout", "authMe", "authRegister",
          "authChangePassword", "authStatus", "listInvites", "createInvite",
          "revokeInvite", "previewInvite", "listMembers", "listVessels",
          "createVessel", "updateVessel", "deleteVessel", "createIngredient",
          "listInventory", "adjustStock"}
\* Operations of the contract that are a GET.
safe == {"authMe", "authStatus", "listInvites", "previewInvite", "listMembers",
         "listVessels", "listInventory"}
\* Operations with a parameter in their path that must be a UUID.
byId == {"revokeInvite", "deleteVessel", "updateVessel", "adjustStock"}

-----------------------------------------------------------------------------

Opt(S) == S \cup {NULL}
Principal == Opt({"admin", "member"})
Arg == [client : Opt(Client),           \* whose cookie it carries
        bearer : BOOLEAN,               \* whether it carries a bearer token
        origin : BOOLEAN,               \* whether its origin is CLIENT_ORIGIN
        op : Op \cup {"none"},
        bound : BOOLEAN,                \* whether the parameters of its path can be read
        start : Nat,
        exp : Nat,                      \* the expiry the look-up returned
        principal : Principal,          \* the caller, once resolved
        cookie : Opt(Nat),              \* the Set-Cookie of the answer
        status : {0, 200, 400, 401, 403}]

\* In particular neither a row nor a cookie lasts longer than SessionTTL from now.
TypeOK ==
  /\ now \in 0..MaxTime
  /\ role \in [Client -> {"admin", "member"}]
  /\ row \in [Client -> Opt(Nat)]
  /\ jar \in [Client -> Nat]
  /\ \A c \in Client : row[c] # NULL => row[c] <= now + SessionTTL
  /\ \A c \in Client : jar[c] <= now + SessionTTL
  /\ slipped \in SUBSET Client
  /\ pc \in [Req -> {"idle", "resolve", "touch", "admit", "replied"}]
  /\ arg \in [Req -> Arg]

Sent(c, bearer, origin, op, bound, t) ==
  [client |-> c, bearer |-> bearer, origin |-> origin, op |-> op, bound |-> bound, start |-> t,
   exp |-> 0, principal |-> NULL, cookie |-> NULL, status |-> 0]
NoArg == Sent(NULL, FALSE, TRUE, "none", TRUE, 0)

Init ==
  /\ now = 0
  /\ role \in [Client -> {"admin", "member"}]
  /\ row = [c \in Client |-> SessionTTL]
  /\ jar = [c \in Client |-> SessionTTL]
  /\ slipped = {}
  /\ pc = [r \in Req |-> "idle"]
  /\ arg = [r \in Req |-> NoArg]

-----------------------------------------------------------------------------
(* A definition named after another with a suffix is a regression the      *)
(* mutants put in its place.                                               *)

unsafe(op) == op \notin safe

Valid(c) == row[c] # NULL /\ now < row[c]

\* time.Until(exp) < SessionTTL/2
NearExpiry(exp) == exp < now + Half

OriginWrong(r) == unsafe(arg[r].op) /\ ~arg[r].origin

\* RequireUser and RequireAdmin; a device is never resolved, see Resolve.
MayUse(p) == p # NULL
MayAdmin(p) == p = "admin"
GateAnyUser(op, p) ==
  /\ op \in known
  /\ op \in publicOps \/ MayUse(p)
Gate(op, p) ==
  /\ op \in known
  /\ \/ op \in publicOps
     \/ op \in adminOps /\ MayAdmin(p)
     \/ op \notin publicOps \cup adminOps /\ MayUse(p)

GateStatus(op, p) ==
  IF Gate(op, p) THEN 200 ELSE IF op \in known /\ p = NULL THEN 401 ELSE 403

\* The generated wrapper, which the middleware calls, reads the parameters before
\* it asks the gate: of those whom the middleware lets through, whoever sends what
\* it cannot read is answered 400, also where the gate would have refused them.
Wrapper(op, bound, p) == IF bound THEN GateStatus(op, p) ELSE 400

Goto(r, p) == pc' = [pc EXCEPT ![r] = p] /\ UNCHANGED arg

Reply(r, s) ==
  /\ pc' = [pc EXCEPT ![r] = "replied"]
  /\ arg' = [arg EXCEPT ![r].status = s]

-----------------------------------------------------------------------------

\* A browser sends its cookie until it expires; others send none.
Send(r, c, bearer, origin, op, bound) ==
  /\ pc[r] = "idle"
  /\ bound \/ op \in byId
  /\ c # NULL => now < jar[c]
  /\ pc' = [pc EXCEPT ![r] = "resolve"]
  /\ arg' = [arg EXCEPT ![r] = Sent(c, bearer, origin, op, bound, now)]
  /\ UNCHANGED <<now, role, row, jar, slipped>>

\* A bearer token goes first and is rejected, whatever cookie comes with it:
\* domain.Devices knows no device.  A cookie without a live session counts for
\* nothing, and so does one whose look-up fails.
Resolve(r) ==
  /\ pc[r] = "resolve"
  /\ \/ arg[r].bearer /\ Reply(r, 401)
     \/ ~arg[r].bearer /\ Goto(r, "admit")
     \/ LET c == arg[r].client IN
          /\ ~arg[r].bearer /\ c # NULL
          /\ Valid(c)
          /\ arg' = [arg EXCEPT ![r] = [@ EXCEPT !.exp = row[c], !.principal = role[c]]]
          /\ pc' = [pc EXCEPT ![r] = IF NearExpiry(row[c]) THEN "touch" ELSE "admit"]
  /\ UNCHANGED <<now, role, row, jar, slipped>>

\* The update finds the row gone, or fails, and nobody is told.
Touch(r) ==
  /\ pc[r] = "touch"
  /\ LET c == arg[r].client IN
       row' \in {row, IF row[c] = NULL THEN row
                      ELSE [row EXCEPT ![c] = now + SessionTTL]}
  /\ Goto(r, "admit")
  /\ UNCHANGED <<now, role, jar, slipped>>

\* A cookie is renewed by the expiry the look-up returned, before its touch.
RenewedByRow(r) ==
  LET c == arg[r].client IN
    IF row[c] # NULL /\ NearExpiry(row[c]) THEN now + SessionTTL ELSE NULL
RenewedFromOld(r) ==
  IF NearExpiry(arg[r].exp) THEN arg[r].exp + SessionTTL ELSE NULL
Renewed(r) == IF NearExpiry(arg[r].exp) THEN now + SessionTTL ELSE NULL

\* The origin rule, the new cookie, the wrapper, the gate and the handler.
Admit(r) ==
  /\ pc[r] = "admit"
  /\ LET a == arg[r] IN
       \/ a.principal # NULL /\ OriginWrong(r) /\ Reply(r, 403)
       \/ /\ ~(a.principal # NULL /\ OriginWrong(r))
          /\ pc' = [pc EXCEPT ![r] = "replied"]
          /\ arg' = [arg EXCEPT ![r] =
               [a EXCEPT !.status = Wrapper(a.op, a.bound, a.principal),
                         !.cookie = IF a.principal = NULL THEN NULL ELSE Renewed(r)]]
  /\ UNCHANGED <<now, role, row, jar, slipped>>

-----------------------------------------------------------------------------
(* The environment *)

\* The client reads its answer and keeps the cookie that came with it.
Receive(r) ==
  /\ pc[r] = "replied"
  /\ LET a == arg[r] IN
       IF a.principal = NULL THEN UNCHANGED <<jar, slipped>>
       ELSE /\ jar' = IF a.cookie = NULL THEN jar ELSE [jar EXCEPT ![a.client] = a.cookie]
            /\ slipped' = slipped \cup {c \in {a.client} : OriginWrong(r)}
  /\ pc' = [pc EXCEPT ![r] = "idle"]
  /\ arg' = [arg EXCEPT ![r] = NoArg]
  /\ UNCHANGED <<now, role, row>>

\* The answer is lost, or the process dies.
Lose(r) ==
  /\ Faults
  /\ pc[r] # "idle"
  /\ slipped' = slipped \cup ({arg[r].client} \ {NULL})
  /\ pc' = [pc EXCEPT ![r] = "idle"]
  /\ arg' = [arg EXCEPT ![r] = NoArg]
  /\ UNCHANGED <<now, role, row, jar>>

\* A logout or a password change ends the session.
End(c) ==
  /\ row[c] # NULL
  /\ row' = [row EXCEPT ![c] = NULL]
  /\ UNCHANGED <<now, role, jar, slipped, pc, arg>>

Tick ==
  /\ now < MaxTime
  /\ \A r \in Req : pc[r] # "idle" => now < arg[r].start + Timeout
  /\ now' = now + 1
  /\ UNCHANGED <<role, row, jar, slipped, pc, arg>>

Next ==
  \/ \E r \in Req :
       \/ \E c \in Opt(Client), bearer \in BOOLEAN, origin \in BOOLEAN, op \in Op,
             bound \in BOOLEAN : Send(r, c, bearer, origin, op, bound)
       \/ Resolve(r) \/ Touch(r) \/ Admit(r) \/ Receive(r) \/ Lose(r)
  \/ \E c \in Client : End(c)
  \/ Tick

Spec == Init /\ [][Next]_vars

-----------------------------------------------------------------------------
(* What must hold *)

\* What openapi.yaml lets anybody call ("security: []", lines 158-238).
Unsecured == {"authSetup", "authLogin", "authRegister", "authStatus", "previewInvite"}

\* Who may call an operation, NULL being somebody who is not signed in.
Callers(op) ==
  IF op \in Unsecured THEN Principal
  ELSE IF op \in adminOps THEN {"admin"} ELSE {"admin", "member"}

\* Every operation is served exactly to its callers (Middleware, gate): to all whom
\* the contract and adminOps let call it, and to nobody else, unless the path cannot
\* be read, a bearer token comes with the request, or somebody who is signed in
\* would change something from a foreign origin.  The origin of who is not signed
\* in is not looked at.  Signing in is asked for (401) only where it would help, and
\* whoever is signed in and refused is told so (403).
AccessRule ==
  \A r \in Req : pc[r] = "replied" =>
    LET a == arg[r]
        caller == IF a.principal = NULL THEN NULL ELSE role[a.client]
        foreign == caller # NULL /\ OriginWrong(r)
        may == caller \in Callers(a.op)
    IN /\ a.status = 200 <=> ~a.bearer /\ ~foreign /\ a.bound /\ a.op \in known /\ may
       /\ a.status = 400 <=> ~a.bearer /\ ~foreign /\ ~a.bound
       /\ a.status = 401 <=>
            a.bearer \/ (a.bound /\ a.op \in known /\ caller = NULL /\ ~may)

\* The design (docs/superpowers/specs/2026-09-12-cellarkeep-rewrite-design.md,
\* 166-168) has every state-changing request come from the client's own origin:
\* none that does not is let through to a handler.
OriginOnEveryChange ==
  \A r \in Req : pc[r] = "replied" /\ arg[r].status = 200 => ~OriginWrong(r)

\* Nothing of the client is under way.
Quiet(c) == \A r \in Req : arg[r].client # c

\* The cookie rolls with its session: a client whose answers all arrived, and
\* who was never refused for its origin, holds a cookie that lasts as long as the
\* row, give or take the time of a request, however its requests overlapped and
\* their answers overtook each other (Middleware:59, Sessions.Principal).
CookieKeepsUp ==
  \A c \in Client \ slipped :
    Quiet(c) /\ row[c] # NULL => row[c] <= jar[c] + Timeout

-----------------------------------------------------------------------------
(* The inductive invariant *)

\* What a request carries agrees with how far it has come: its caller was
\* resolved from its cookie, it is touching only near the expiry it read, its
\* cookie was dated after it came in, and its answer is what the middleware, the
\* wrapper and the gate in this order say to it.
ArgFits(r) ==
  LET a == arg[r] IN
    /\ pc[r] = "idle" => a = NoArg
    /\ pc[r] # "idle" => a.start <= now /\ now <= a.start + Timeout
    /\ a.principal # NULL => a.client # NULL /\ a.principal = role[a.client]
    /\ pc[r] = "touch" => a.principal # NULL /\ NearExpiry(a.exp)
    /\ pc[r] \in {"touch", "admit"} => ~a.bearer
    /\ a.cookie # NULL =>
         /\ pc[r] = "replied" /\ a.principal # NULL
         /\ a.start + SessionTTL <= a.cookie /\ a.cookie <= now + SessionTTL
    /\ a.bearer => a.principal = NULL
    /\ pc[r] = "replied" => a.status =
         IF a.bearer THEN 401
         ELSE IF a.principal # NULL /\ OriginWrong(r) THEN 403
         ELSE Wrapper(a.op, a.bound, a.principal)

\* A cookie under way covers the row even if the row was touched after it.
CookieCovers(r) ==
  arg[r].cookie # NULL /\ row[arg[r].client] # NULL =>
    row[arg[r].client] <= arg[r].cookie + Timeout

\* r is going to bring c a new cookie, or the news that its origin is refused.
Carries(r, c) ==
  /\ arg[r].client = c /\ arg[r].principal # NULL
  /\ \/ pc[r] = "admit" /\ NearExpiry(arg[r].exp)
     \/ pc[r] = "replied" /\ (arg[r].cookie # NULL \/ OriginWrong(r))

RowCarried(c) ==
  row[c] # NULL =>
    \/ row[c] <= jar[c] + Timeout
    \/ \E r \in Req : Carries(r, c)

\* All of it holds in every reachable state, and at every step.
IInv ==
  /\ TypeOK
  /\ \A r \in Req : ArgFits(r) /\ CookieCovers(r)
  /\ \A c \in Client \ slipped : RowCarried(c)
=============================================================================
