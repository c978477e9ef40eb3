--------------------------- MODULE AccountsProofs ---------------------------
(***************************************************************************)
(* Proofs about Accounts for any number of requests, users, invites and    *)
(* addresses, any clock bound and any pool.                                *)
(***************************************************************************)
EXTENDS Accounts, FiniteSetTheorems, TLAPS

\* normEmail returns an address of the database, and a fixed point of itself.
LEMMA NormType ==
  ASSUME NEW a \in Address
  PROVE  normEmail(a) \in Emails /\ normEmail(a) \in Address
BY NormAssumption DEF normEmail, Emails

\* Whatever is invited, the row stores a normalised address other than blank, or none.
LEMMA BoundType ==
  ASSUME NEW a \in Address \cup {NULL}
  PROVE  BoundTo(a) \in Bound
BY NormType DEF BoundTo, Bound

LEMMA InitTyped == Init => TypeOK
BY TimeAssumption DEF Init, TypeOK, Step, Arg, NoArg, Asked

\* The two ways a step moves its request along.
LEMMA GotoTyped ==
  ASSUME TypeOK, NEW r \in Req, NEW p \in Step, Goto(r, p),
         UNCHANGED <<now, users, invites, sessions>>
  PROVE  TypeOK'
BY DEF TypeOK, Goto

LEMMA ReplyTyped ==
  ASSUME TypeOK, NEW r \in Req, NEW s \in {0, 200, 201, 409, 422, 500}, Reply(r, s),
         UNCHANGED <<now, users, invites, sessions>>
  PROVE  TypeOK'
<1>1. "replied" \in Step BY DEF Step
<1>2. [pc EXCEPT ![r] = "replied"] \in [Req -> Step]
  BY <1>1 DEF TypeOK
<1>3. [arg EXCEPT ![r].status = s] \in [Req -> Arg]
  BY DEF TypeOK, Arg
<1> QED BY <1>2, <1>3 DEF TypeOK, Reply

LEMMA StartTyped ==
  ASSUME TypeOK, NEW r \in Req, Start(r)
  PROVE  TypeOK'
<1>1. /\ "setupBegin" \in Step /\ "regBegin" \in Step
      /\ "invInsert" \in Step /\ "revBegin" \in Step
  BY DEF Step, Active, SetupSteps, RegisterSteps, InviteSteps, RevokeSteps
<1>2. ASSUME NEW p \in Step, NEW a \in Arg, Begin(r, p, a)
      PROVE  TypeOK'
  BY <1>2 DEF Begin, TypeOK
<1>3. ASSUME NEW a \in Address, NEW u \in UserId, StartSetup(r, a, u)
      PROVE  TypeOK'
  BY <1>1, <1>2, <1>3 DEF StartSetup, Asked, Arg
<1>4. ASSUME NEW a \in Address, NEW i \in InviteId \cup {NULL}, NEW u \in UserId,
             StartRegister(r, a, i, u)
      PROVE  TypeOK'
  <2>1. now \in Nat BY DEF TypeOK
  <2> QED BY <1>1, <1>2, <1>4, <2>1 DEF StartRegister, Asked, Arg
<1>5. ASSUME NEW by \in UserId, NEW a \in Address \cup {NULL}, NEW i \in InviteId,
             StartInvite(r, by, a, i)
      PROVE  TypeOK'
  <2>1. now \in Nat BY DEF TypeOK
  <2> QED BY <1>1, <1>2, <1>5, <2>1 DEF StartInvite, Asked, Arg
<1>6. ASSUME NEW by \in UserId, NEW i \in InviteId \cup {NULL}, StartRevoke(r, by, i)
      PROVE  TypeOK'
  <2>1. now \in Nat BY DEF TypeOK
  <2> QED BY <1>1, <1>2, <1>6, <2>1 DEF StartRevoke, Asked, Arg
<1> QED BY <1>3, <1>4, <1>5, <1>6 DEF Start

\* Steps that write no row.
Moves(r) ==
  \/ SetupBegin(r) \/ LockSetup(r) \/ CountUsers(r) \/ SetupCreate(r)
  \/ RegisterBegin(r) \/ FindInvite(r) \/ RegisterCreate(r) \/ ClaimInvite(r)
  \/ InviteName(r) \/ RevokeBegin(r) \/ RevokeName(r) \/ Fail(r)

LEMMA MovesTyped ==
  ASSUME TypeOK, NEW r \in Req, Moves(r)
  PROVE  TypeOK'
<1> USE DEF Step, Active, SetupSteps, RegisterSteps, InviteSteps, RevokeSteps
<1>1. CASE SetupBegin(r) BY <1>1, GotoTyped DEF SetupBegin
<1>2. CASE LockSetup(r) BY <1>2, GotoTyped DEF LockSetup
<1>3. CASE CountUsers(r) BY <1>3, GotoTyped, ReplyTyped DEF CountUsers
<1>4. CASE SetupCreate(r) BY <1>4, GotoTyped, ReplyTyped DEF SetupCreate, CreateUser
<1>5. CASE RegisterBegin(r) BY <1>5, GotoTyped DEF RegisterBegin
<1>6. CASE FindInvite(r) BY <1>6, GotoTyped, ReplyTyped DEF FindInvite
<1>7. CASE RegisterCreate(r) BY <1>7, GotoTyped, ReplyTyped DEF RegisterCreate, CreateUser
<1>8. CASE ClaimInvite(r) BY <1>8, GotoTyped, ReplyTyped DEF ClaimInvite
<1>9. CASE InviteName(r) BY <1>9, ReplyTyped DEF InviteName
<1>10. CASE RevokeBegin(r) BY <1>10, GotoTyped DEF RevokeBegin
<1>11. CASE RevokeName(r) BY <1>11, ReplyTyped DEF RevokeName
<1>12. CASE Fail(r) BY <1>12, ReplyTyped DEF Fail
<1> QED BY <1>1, <1>2, <1>3, <1>4, <1>5, <1>6, <1>7, <1>8, <1>9, <1>10, <1>11,
           <1>12 DEF Moves

\* Steps that write rows, but for StartSession.
Writes(r) ==
  SetupCommit(r) \/ RegisterCommit(r) \/ CreateInvite(r) \/ RevokeInvite(r)

LEMMA WritesTyped ==
  ASSUME TypeOK, ArgsFit, ClaimSound, NEW r \in Req, Writes(r)
  PROVE  TypeOK'
<1>0. /\ "session" \in Step /\ "invName" \in Step /\ "revName" \in Step
      /\ "replied" \in Step
  BY DEF Step, Active, SetupSteps, RegisterSteps, InviteSteps, RevokeSteps
<1>a. arg[r] \in Arg /\ arg[r].at \in Nat BY DEF TypeOK, Arg
<1>1. CASE SetupCommit(r)
  <2>1. UserRow(r, "admin") \in User
    <3>1. arg[r].addr \in Address
      BY <1>1, <1>a DEF SetupCommit, ArgsFit, SetupSteps, Arg
    <3> QED BY <3>1, NormType DEF UserRow, User
  <2> QED BY <1>0, <1>1, <2>1 DEF SetupCommit, TypeOK, Goto
<1>2. CASE RegisterCommit(r)
  <2>1. UserRow(r, "member") \in User
    <3>1. arg[r].addr \in Address
      BY <1>2, <1>a DEF RegisterCommit, ArgsFit, RegisterSteps, Arg
    <3> QED BY <3>1, NormType DEF UserRow, User
  <2>2. Used(r) \in Invite
    <3>1. invites[arg[r].inv] \in Invite
      BY <1>2, <1>a DEF RegisterCommit, ClaimSound, TypeOK, Known
    <3>2. arg[r].uid \in UserId \cup {NULL} BY <1>a DEF Arg
    <3> DEFINE row == invites[arg[r].inv]
    <3>3. /\ row.email \in Bound /\ row.by \in UserId
          /\ row.expires \in Nat /\ row.revokedAt \in Nat \cup {NULL}
      BY <3>1 DEF Invite
    <3> HIDE DEF row
    <3>4. [email |-> row.email, by |-> row.by, expires |-> row.expires,
           usedAt |-> arg[r].at, usedBy |-> arg[r].uid,
           revokedAt |-> row.revokedAt] \in Invite
      BY <3>2, <3>3, <1>a DEF Invite
    <3> QED BY <3>4 DEF Used, row
  <2> QED BY <1>0, <1>2, <2>1, <2>2 DEF RegisterCommit, TypeOK, Goto
<1>3. CASE CreateInvite(r)
  <2>1. InviteRow(r) \in Invite
    <3>1. BoundTo(arg[r].addr) \in Bound
      BY <1>a, BoundType DEF Arg
    <3>2. arg[r].by \in UserId
      BY <1>3, <1>a, NullAssumption
      DEF CreateInvite, ArgsFit, InviteSteps, Arg, IsAdmin, TypeOK
    <3> QED BY <3>1, <3>2, <1>a, TimeAssumption DEF InviteRow, Invite
  <2> QED BY <1>0, <1>3, <2>1 DEF CreateInvite, TypeOK, Goto
<1>4. CASE RevokeInvite(r)
  <2>1. CASE arg[r].inv # NULL /\ Revocable(arg[r].inv)
             /\ invites' = [invites EXCEPT ![arg[r].inv].revokedAt = arg[r].at]
             /\ Goto(r, "revName")
    <3>1. invites[arg[r].inv] \in Invite
      BY <1>4, <1>a, <2>1 DEF RevokeInvite, ArgsFit, RevokeSteps, Known, TypeOK, Arg
    <3>2. [invites[arg[r].inv] EXCEPT !.revokedAt = arg[r].at] \in Invite
      BY <3>1, <1>a DEF Invite
    <3> QED BY <1>0, <1>4, <2>1, <3>2 DEF RevokeInvite, TypeOK, Goto
  <2>2. CASE Reply(r, 409) /\ UNCHANGED invites
    BY <1>4, <2>2, ReplyTyped DEF RevokeInvite
  <2> QED BY <1>4, <2>1, <2>2 DEF RevokeInvite
<1> QED BY <1>1, <1>2, <1>3, <1>4 DEF Writes

LEMMA StartSessionTyped ==
  ASSUME TypeOK, ArgsFit, NEW r \in Req, StartSession(r)
  PROVE  TypeOK'
<1>1. arg[r].uid \in UserId
  BY DEF StartSession, ArgsFit, TypeOK, Arg
<1>2. "replied" \in Step BY DEF Step
<1>3. [pc EXCEPT ![r] = "replied"] \in [Req -> Step]
  BY <1>2 DEF TypeOK
<1>4. [arg EXCEPT ![r].status = 201] \in [Req -> Arg]
  BY DEF TypeOK, Arg
<1>5. sessions' \in SUBSET UserId
  BY <1>1 DEF StartSession, TypeOK
<1> QED BY <1>3, <1>4, <1>5 DEF StartSession, Reply, TypeOK

LEMMA NoArgTyped == NoArg \in Arg
BY DEF NoArg, Asked, Arg

LEMMA TypeStep ==
  ASSUME TypeOK, ArgsFit, ClaimSound, [Next]_vars
  PROVE  TypeOK'
<1>1. ASSUME NEW r \in Req, Start(r) PROVE TypeOK' BY <1>1, StartTyped
<1>2. ASSUME NEW r \in Req, Serve(r) \/ Fail(r) PROVE TypeOK'
  BY <1>2, MovesTyped, WritesTyped, StartSessionTyped DEF Serve, Moves, Writes
<1>3. ASSUME NEW r \in Req, Return(r) PROVE TypeOK'
  BY <1>3, NoArgTyped DEF Return, TypeOK, Step
<1>4. CASE Crash BY <1>4, NoArgTyped DEF Crash, TypeOK, Step
<1>5. CASE Tick BY <1>5, TimeAssumption DEF Tick, TypeOK
<1>6. CASE UNCHANGED vars BY <1>6 DEF vars, TypeOK
<1> QED BY <1>1, <1>2, <1>3, <1>4, <1>5, <1>6 DEF Next

-----------------------------------------------------------------------------
(* How a step of the server changes its own request and nobody else's *)

Steps(r) ==
  /\ pc'[r] \in SetupSteps => pc[r] \in SetupSteps
  /\ pc'[r] \in RegisterSteps => pc[r] \in RegisterSteps
  /\ pc'[r] \in InviteSteps => pc[r] \in InviteSteps
  /\ pc'[r] \in RevokeSteps => pc[r] \in RevokeSteps
  /\ pc'[r] = "session" => pc[r] \in {"setupCommit", "regCommit"}
  /\ pc[r] \in {"setupCommit", "regCommit"} => pc'[r] \in {"session", "replied"}
  /\ pc'[r] \notin {"idle", "invInsert"} /\ pc[r] \notin {"idle", "replied"}

Frame(r) ==
  /\ \A q \in Req : q # r => pc'[q] = pc[q] /\ arg'[q] = arg[q]
  /\ arg'[r].op = arg[r].op /\ arg'[r].addr = arg[r].addr
  /\ arg'[r].inv = arg[r].inv /\ arg'[r].uid = arg[r].uid
  /\ arg'[r].by = arg[r].by /\ arg'[r].at = arg[r].at
  /\ now' = now

LEMMA GotoFrame ==
  ASSUME TypeOK, NEW r \in Req, NEW p, Goto(r, p), now' = now
  PROVE  Frame(r) /\ pc'[r] = p
BY DEF Goto, Frame, TypeOK

LEMMA ReplyFrame ==
  ASSUME TypeOK, NEW r \in Req, NEW s, Reply(r, s), now' = now
  PROVE  Frame(r) /\ pc'[r] = "replied"
<1>1. pc'[r] = "replied" /\ \A q \in Req : q # r => pc'[q] = pc[q] /\ arg'[q] = arg[q]
  BY DEF Reply, TypeOK
<1>2. arg'[r] = [arg[r] EXCEPT !.status = s]
  BY DEF Reply, TypeOK
<1>3. arg[r] \in Arg BY DEF TypeOK
<1> QED BY <1>1, <1>2, <1>3 DEF Frame, Arg

LEMMA ServeFrame ==
  ASSUME TypeOK, NEW r \in Req, Serve(r) \/ Fail(r)
  PROVE  Frame(r) /\ Steps(r)
<1> USE GotoFrame, ReplyFrame
    DEF Steps, SetupSteps, RegisterSteps, InviteSteps, RevokeSteps
<1>1. CASE SetupBegin(r) BY <1>1 DEF SetupBegin
<1>2. CASE LockSetup(r) BY <1>2 DEF LockSetup
<1>3. CASE CountUsers(r) BY <1>3 DEF CountUsers
<1>4. CASE SetupCreate(r) BY <1>4 DEF SetupCreate, CreateUser
<1>5. CASE SetupCommit(r) BY <1>5 DEF SetupCommit
<1>6. CASE RegisterBegin(r) BY <1>6 DEF RegisterBegin
<1>7. CASE FindInvite(r) BY <1>7 DEF FindInvite
<1>8. CASE RegisterCreate(r) BY <1>8 DEF RegisterCreate, CreateUser
<1>9. CASE ClaimInvite(r) BY <1>9 DEF ClaimInvite
<1>10. CASE RegisterCommit(r) BY <1>10 DEF RegisterCommit
<1>11. CASE StartSession(r) BY <1>11 DEF StartSession
<1>12. CASE CreateInvite(r) BY <1>12 DEF CreateInvite
<1>13. CASE InviteName(r) BY <1>13 DEF InviteName
<1>14. CASE RevokeBegin(r) BY <1>14 DEF RevokeBegin
<1>15. CASE RevokeInvite(r) BY <1>15 DEF RevokeInvite
<1>16. CASE RevokeName(r) BY <1>16 DEF RevokeName
<1>17. CASE Fail(r) BY <1>17 DEF Fail, Active
<1> QED BY <1>1, <1>2, <1>3, <1>4, <1>5, <1>6, <1>7, <1>8, <1>9, <1>10, <1>11,
           <1>12, <1>13, <1>14, <1>15, <1>16, <1>17 DEF Serve

-----------------------------------------------------------------------------
(* Rows only ever appear, and of an invite only the settling columns change *)

Growth ==
  /\ \A u \in Rows : u \in Rows' /\ users'[u] = users[u]
  /\ \A i \in Known :
       /\ i \in Known'
       /\ invites'[i].email = invites[i].email
       /\ invites'[i].by = invites[i].by
       /\ invites'[i].expires = invites[i].expires

\* What each writing step does to the rows.
LEMMA SetupCommitRows ==
  ASSUME TypeOK, ArgsFit, NEW r \in Req, SetupCommit(r)
  PROVE  /\ arg[r].uid \in UserId /\ arg[r].addr \in Address
         /\ users' = [users EXCEPT ![arg[r].uid] = UserRow(r, "admin")]
         /\ UserRow(r, "admin") \in User
         /\ invites' = invites
<1>1. arg[r].uid \in UserId /\ arg[r].addr \in Address
  BY DEF SetupCommit, ArgsFit, SetupSteps, TypeOK, Arg
<1>2. UserRow(r, "admin") \in User BY <1>1, NormType DEF UserRow, User
<1> QED BY <1>1, <1>2 DEF SetupCommit

LEMMA RegisterCommitRows ==
  ASSUME TypeOK, ArgsFit, ClaimSound, NEW r \in Req, RegisterCommit(r)
  PROVE  /\ arg[r].uid \in UserId /\ arg[r].addr \in Address
         /\ users' = [users EXCEPT ![arg[r].uid] = UserRow(r, "member")]
         /\ UserRow(r, "member") \in User
         /\ arg[r].inv \in Known
         /\ invites' = [invites EXCEPT ![arg[r].inv] = Used(r)]
         /\ Used(r) \in Invite
<1>1. arg[r].uid \in UserId /\ arg[r].addr \in Address /\ arg[r].at \in Nat
  BY DEF RegisterCommit, ArgsFit, RegisterSteps, TypeOK, Arg
<1>2. UserRow(r, "member") \in User BY <1>1, NormType DEF UserRow, User
<1>3. arg[r].inv \in Known BY DEF RegisterCommit, ClaimSound
<1>4. Used(r) \in Invite
  <2> DEFINE row == invites[arg[r].inv]
  <2>1. row \in Invite BY <1>3 DEF Known, TypeOK
  <2>2. /\ row.email \in Bound /\ row.by \in UserId
        /\ row.expires \in Nat /\ row.revokedAt \in Nat \cup {NULL}
    BY <2>1 DEF Invite
  <2> HIDE DEF row
  <2>3. [email |-> row.email, by |-> row.by, expires |-> row.expires,
         usedAt |-> arg[r].at, usedBy |-> arg[r].uid,
         revokedAt |-> row.revokedAt] \in Invite
    BY <2>2, <1>1 DEF Invite
  <2> QED BY <2>3 DEF Used, row
<1> QED BY <1>1, <1>2, <1>3, <1>4 DEF RegisterCommit

LEMMA CreateInviteRows ==
  ASSUME TypeOK, ArgsFit, NEW r \in Req, CreateInvite(r)
  PROVE  /\ users' = users
         /\ arg[r].inv \in InviteId
         /\ invites' = [invites EXCEPT ![arg[r].inv] = InviteRow(r)]
         /\ InviteRow(r) \in Invite
         /\ IsAdmin(InviteRow(r).by)
<1>1. /\ arg[r].addr \in Address \cup {NULL} /\ arg[r].by \in UserId
      /\ arg[r].at \in Nat /\ IsAdmin(arg[r].by) /\ arg[r].inv \in InviteId
  BY DEF CreateInvite, ArgsFit, InviteSteps, TypeOK, Arg
<1>2. BoundTo(arg[r].addr) \in Bound BY <1>1, BoundType
<1>3. arg[r].at + InviteTTL \in Nat BY <1>1, TimeAssumption
<1> QED BY <1>1, <1>2, <1>3 DEF InviteRow, Invite, CreateInvite

LEMMA RevokeInviteRows ==
  ASSUME TypeOK, ArgsFit, NEW r \in Req, RevokeInvite(r)
  PROVE  /\ users' = users
         /\ \/ invites' = invites
            \/ /\ arg[r].inv \in Known
               /\ Revocable(arg[r].inv)
               /\ ~InviteLocked(arg[r].inv)
               /\ arg[r].at \in Nat
               /\ invites' = [invites EXCEPT ![arg[r].inv] =
                                [invites[arg[r].inv] EXCEPT !.revokedAt = arg[r].at]]
               /\ [invites[arg[r].inv] EXCEPT !.revokedAt = arg[r].at] \in Invite
<1>1. arg[r].inv \in Known \cup {NULL} /\ arg[r].at \in Nat
  BY DEF RevokeInvite, ArgsFit, RevokeSteps, TypeOK, Arg
<1>2. ASSUME arg[r].inv # NULL
      PROVE  [invites[arg[r].inv] EXCEPT !.revokedAt = arg[r].at] \in Invite
  BY <1>1, <1>2 DEF Invite, Known, TypeOK
<1> QED BY <1>1, <1>2 DEF RevokeInvite

\* Every other step leaves the rows alone.
LEMMA OtherRows ==
  ASSUME NEW r \in Req, Start(r) \/ Moves(r) \/ StartSession(r) \/ Return(r)
  PROVE  users' = users /\ invites' = invites
<1>1. CASE Start(r)
  BY <1>1 DEF Start, StartSetup, StartRegister, StartInvite, StartRevoke, Begin
<1>2. CASE Moves(r)
  BY <1>2 DEF Moves, SetupBegin, LockSetup, CountUsers, SetupCreate, RegisterBegin,
     FindInvite, RegisterCreate, ClaimInvite, InviteName, RevokeBegin, RevokeName,
     Fail, CreateUser
<1>3. CASE StartSession(r) \/ Return(r) BY <1>3 DEF StartSession, Return
<1> QED BY <1>1, <1>2, <1>3

LEMMA NextSplit ==
  ASSUME [Next]_vars
  PROVE  \/ users' = users /\ invites' = invites
         \/ \E r \in Req : Writes(r)
<1>1. CASE Crash \/ Tick BY <1>1 DEF Crash, Tick
<1>2. CASE UNCHANGED vars BY <1>2 DEF vars
<1> QED BY <1>1, <1>2, OtherRows DEF Next, Serve, Moves, Writes

LEMMA GrowthStep ==
  ASSUME IInv, [Next]_vars
  PROVE  Growth
<1> USE DEF IInv
<1>1. CASE users' = users /\ invites' = invites
  BY <1>1 DEF Growth, Rows, Known
<1>2. ASSUME NEW r \in Req, SetupCommit(r) PROVE Growth
  <2>1. users[arg[r].uid] = NULL
    BY <1>2 DEF SetupCommit, IdsReserved, SetupSteps
  <2> QED BY <1>2, <2>1, SetupCommitRows DEF Growth, Rows, Known, TypeOK
<1>3. ASSUME NEW r \in Req, RegisterCommit(r) PROVE Growth
  <2>1. users[arg[r].uid] = NULL
    BY <1>3 DEF RegisterCommit, IdsReserved, RegisterSteps
  <2>2. Used(r) # NULL BY <1>3, RegisterCommitRows, RowAssumption
  <2>3. /\ Used(r).email = invites[arg[r].inv].email
        /\ Used(r).by = invites[arg[r].inv].by
        /\ Used(r).expires = invites[arg[r].inv].expires
    BY DEF Used
  <2> HIDE DEF Used, UserRow
  <2>4. \A u \in Rows : u \in Rows' /\ users'[u] = users[u]
    BY <1>3, <2>1, RegisterCommitRows DEF Rows, TypeOK
  <2> QED BY <1>3, <2>2, <2>3, <2>4, RegisterCommitRows DEF Growth, Known, TypeOK
<1>4. ASSUME NEW r \in Req, CreateInvite(r) PROVE Growth
  <2>1. invites[arg[r].inv] = NULL BY <1>4 DEF CreateInvite, IdsReserved
  <2> QED BY <1>4, <2>1, CreateInviteRows DEF Growth, Rows, Known, TypeOK
<1>5. ASSUME NEW r \in Req, RevokeInvite(r) PROVE Growth
  <2> DEFINE i == arg[r].inv
             row == [invites[i] EXCEPT !.revokedAt = arg[r].at]
  <2>1. CASE users' = users /\ invites' = invites
    BY <2>1 DEF Growth, Rows, Known
  <2>2. CASE /\ users' = users /\ i \in Known /\ row \in Invite
             /\ invites' = [invites EXCEPT ![i] = row]
    <3>1. invites[i] \in Invite BY <2>2 DEF Known, TypeOK
    <3>2. /\ row.email = invites[i].email /\ row.by = invites[i].by
          /\ row.expires = invites[i].expires
      BY <3>1 DEF Invite
    <3>3. row # NULL BY <2>2, RowAssumption
    <3> HIDE DEF row
    <3> QED BY <2>2, <3>2, <3>3 DEF Growth, Rows, Known, TypeOK
  <2> QED BY <1>5, <2>1, <2>2, RevokeInviteRows
<1> QED BY <1>1, <1>2, <1>3, <1>4, <1>5, NextSplit DEF Writes

-----------------------------------------------------------------------------
(* ArgsFit *)

\* ArgsFit for one request, so that a step is argued about one at a time.
ArgFits(r) ==
  /\ pc[r] = "idle" => arg[r] = NoArg
  /\ pc[r] \in SetupSteps => arg[r].op = "setup"
  /\ pc[r] \in RegisterSteps => arg[r].op = "register"
  /\ pc[r] \in InviteSteps => arg[r].op = "invite"
  /\ pc[r] \in RevokeSteps => arg[r].op = "revoke"
  /\ pc[r] = "session" => arg[r].op \in {"setup", "register"}
  /\ arg[r].op \in {"setup", "register"} <=> arg[r].uid # NULL
  /\ arg[r].op \in {"setup", "register"} => arg[r].addr # NULL
  /\ arg[r].op = "invite" => arg[r].inv # NULL /\ arg[r].by # NULL /\ IsAdmin(arg[r].by)
  /\ arg[r].op \in {"register", "revoke"} => arg[r].inv \in Known \cup {NULL}
  /\ arg[r].at <= now

\* A request whose pc and arg a step leaves alone stays fit.
LEMMA KeepsFit ==
  ASSUME TypeOK, Growth, now <= now', now' \in Nat, NEW q \in Req, ArgFits(q),
         pc'[q] = pc[q], arg'[q] = arg[q]
  PROVE  ArgFits(q)'
<1>1. arg[q] \in Arg /\ now \in Nat BY DEF TypeOK
<1>2. arg[q].at \in Nat BY <1>1 DEF Arg
<1>3. arg[q].op = "invite" => IsAdmin(arg[q].by)'
  <2>1. ASSUME arg[q].op = "invite" PROVE arg[q].by \in Rows
    BY <1>1, <2>1 DEF ArgFits, IsAdmin, Rows, Arg
  <2> QED BY <2>1 DEF ArgFits, IsAdmin, Growth, Rows
<1>4. arg'[q].op \in {"register", "revoke"} => arg'[q].inv \in Known' \cup {NULL}
  BY DEF ArgFits, Growth
<1> QED BY <1>1, <1>2, <1>3, <1>4 DEF ArgFits

LEMMA NoArgFits ==
  ASSUME NEW r \in Req, pc'[r] = "idle", arg'[r] = NoArg, now' \in Nat
  PROVE  ArgFits(r)'
BY DEF ArgFits, NoArg, Asked, SetupSteps, RegisterSteps, InviteSteps, RevokeSteps

LEMMA ServeFits ==
  ASSUME IInv, NEW r \in Req, Serve(r) \/ Fail(r), Growth
  PROVE  ArgFits(r)'
<1>1. TypeOK /\ ArgFits(r) BY DEF IInv, ArgsFit, ArgFits
<1>2. Frame(r) /\ Steps(r) BY <1>1, ServeFrame
<1>3. arg[r] \in Arg BY <1>1 DEF TypeOK
<1>4. arg[r].op = "invite" => IsAdmin(arg[r].by)'
  <2>1. ASSUME arg[r].op = "invite" PROVE arg[r].by \in Rows
    BY <1>1, <1>3, <2>1 DEF ArgFits, IsAdmin, Rows, Arg
  <2> QED BY <1>1, <1>2, <2>1 DEF ArgFits, IsAdmin, Growth, Rows, Frame
<1>5. arg[r].op \in {"register", "revoke"} => arg[r].inv \in Known' \cup {NULL}
  BY <1>1 DEF ArgFits, Growth
<1>6. pc'[r] = "session" => arg[r].op \in {"setup", "register"}
  BY <1>1, <1>2 DEF ArgFits, Steps, SetupSteps, RegisterSteps
<1> QED BY <1>1, <1>2, <1>4, <1>5, <1>6 DEF ArgFits, Steps, Frame

LEMMA StartFits ==
  ASSUME IInv, NEW r \in Req, Start(r)
  PROVE  ArgFits(r)'
<1> USE DEF SetupSteps, RegisterSteps, InviteSteps, RevokeSteps, ArgFits, Asked
<1>0. TypeOK /\ now \in Nat /\ r \in DOMAIN pc /\ r \in DOMAIN arg
  BY DEF IInv, TypeOK
<1>1. ASSUME NEW a \in Address, NEW u \in UserId, StartSetup(r, a, u)
      PROVE  ArgFits(r)'
  BY <1>0, <1>1, NullAssumption DEF StartSetup, Begin
<1>2. ASSUME NEW a \in Address, NEW i \in InviteId \cup {NULL}, NEW u \in UserId,
             StartRegister(r, a, i, u)
      PROVE  ArgFits(r)'
  BY <1>0, <1>2, NullAssumption DEF StartRegister, Begin, Known
<1>3. ASSUME NEW by \in UserId, NEW a \in Address \cup {NULL}, NEW i \in InviteId,
             StartInvite(r, by, a, i)
      PROVE  ArgFits(r)'
  BY <1>0, <1>3, NullAssumption DEF StartInvite, Begin, IsAdmin
<1>4. ASSUME NEW by \in UserId, NEW i \in InviteId \cup {NULL}, StartRevoke(r, by, i)
      PROVE  ArgFits(r)'
  BY <1>0, <1>4, NullAssumption DEF StartRevoke, Begin, Known
<1> QED BY <1>1, <1>2, <1>3, <1>4 DEF Start

LEMMA ArgsFitStep ==
  ASSUME IInv, [Next]_vars
  PROVE  ArgsFit'
<1>1. TypeOK /\ TypeOK' /\ Growth BY TypeStep, GrowthStep DEF IInv
<1>2. now \in Nat /\ now' \in Nat BY <1>1 DEF TypeOK
<1>3. \A q \in Req : ArgFits(q) BY DEF IInv, ArgsFit, ArgFits
<1>4. SUFFICES \A q \in Req : ArgFits(q)' BY DEF ArgsFit, ArgFits
<1>5. ASSUME NEW r \in Req, Start(r) PROVE \A q \in Req : ArgFits(q)'
  <2>1. now' = now /\ \A q \in Req \ {r} : pc'[q] = pc[q] /\ arg'[q] = arg[q]
    BY <1>1, <1>5 DEF Start, StartSetup, StartRegister, StartInvite, StartRevoke,
       Begin, TypeOK
  <2> QED BY <1>1, <1>2, <1>3, <1>5, <2>1, StartFits, KeepsFit
<1>6. ASSUME NEW r \in Req, Serve(r) \/ Fail(r) PROVE \A q \in Req : ArgFits(q)'
  <2>1. Frame(r) BY <1>1, <1>6, ServeFrame
  <2> QED BY <1>1, <1>2, <1>3, <1>6, <2>1, ServeFits, KeepsFit DEF Frame
<1>7. ASSUME NEW r \in Req, Return(r) PROVE \A q \in Req : ArgFits(q)'
  <2>1. /\ now' = now /\ pc'[r] = "idle" /\ arg'[r] = NoArg
        /\ \A q \in Req \ {r} : pc'[q] = pc[q] /\ arg'[q] = arg[q]
    BY <1>1, <1>7 DEF Return, TypeOK
  <2> QED BY <1>1, <1>2, <1>3, <2>1, NoArgFits, KeepsFit
<1>8. CASE Crash
  BY <1>2, <1>8, NoArgFits DEF Crash
<1>9. CASE Tick \/ UNCHANGED vars
  <2>1. now <= now' /\ \A q \in Req : pc'[q] = pc[q] /\ arg'[q] = arg[q]
    BY <1>2, <1>9 DEF Tick, vars
  <2> QED BY <1>1, <1>2, <1>3, <2>1, KeepsFit
<1> QED BY <1>5, <1>6, <1>7, <1>8, <1>9 DEF Next

-----------------------------------------------------------------------------
(* IdsReserved *)

LEMMA ServeTouches ==
  ASSUME IInv, NEW r \in Req, Serve(r) \/ Fail(r)
  PROVE  /\ \A u \in UserId : users'[u] # users[u] =>
              u = arg[r].uid /\ pc[r] \in {"setupCommit", "regCommit"}
         /\ \A i \in InviteId : invites'[i] # invites[i] =>
              /\ i = arg[r].inv
              /\ pc[r] \in {"invInsert", "regCommit", "revUpdate"}
<1> USE DEF IInv
<1>1. CASE SetupCommit(r) BY <1>1, SetupCommitRows DEF SetupCommit, TypeOK
<1>2. CASE RegisterCommit(r) BY <1>2, RegisterCommitRows DEF RegisterCommit, TypeOK
<1>3. CASE CreateInvite(r) BY <1>3, CreateInviteRows DEF CreateInvite, TypeOK
<1>4. CASE RevokeInvite(r) BY <1>4, RevokeInviteRows DEF RevokeInvite, TypeOK
<1>5. CASE Moves(r) \/ StartSession(r) BY <1>5, OtherRows
<1> QED BY <1>1, <1>2, <1>3, <1>4, <1>5 DEF Serve, Moves

LEMMA ServeIds ==
  ASSUME IInv, NEW r \in Req, Serve(r) \/ Fail(r)
  PROVE  IdsReserved'
<1>1. /\ TypeOK /\ ArgsFit /\ IdsReserved
      /\ Frame(r) /\ Steps(r)
  BY ServeFrame DEF IInv
<1>2. /\ \A q \in Req : arg'[q].uid = arg[q].uid /\ arg'[q].op = arg[q].op
                        /\ arg'[q].inv = arg[q].inv
      /\ \A q \in Req : q # r => pc'[q] = pc[q]
  BY <1>1 DEF Frame
<1>3. ASSUME NEW q \in Req, pc'[q] \in SetupSteps \cup RegisterSteps
      PROVE  users'[arg'[q].uid] = NULL
  <2>1. pc[q] \in SetupSteps \cup RegisterSteps
    BY <1>1, <1>2, <1>3 DEF Steps
  <2>2. arg[q].uid # NULL /\ arg[q].uid \in UserId
    BY <1>1, <2>1 DEF ArgsFit, TypeOK, Arg
  <2>3. users[arg[q].uid] = NULL BY <1>1, <2>1 DEF IdsReserved
  <2>4. ~(arg[q].uid = arg[r].uid /\ pc[r] \in {"setupCommit", "regCommit"})
    <3>1. SUFFICES ASSUME arg[q].uid = arg[r].uid, pc[r] \in {"setupCommit", "regCommit"}
                   PROVE  FALSE
      OBVIOUS
    <3>2. q = r BY <1>1, <2>2, <3>1 DEF IdsReserved
    <3> QED BY <1>1, <1>3, <3>1, <3>2 DEF Steps, SetupSteps, RegisterSteps
  <2> QED BY <1>2, <2>2, <2>3, <2>4, ServeTouches
<1>4. ASSUME NEW q \in Req, pc'[q] = "invInsert"
      PROVE  invites'[arg'[q].inv] = NULL
  <2>1. q # r /\ pc[q] = "invInsert" BY <1>1, <1>2, <1>4 DEF Steps
  <2>2. arg[q].op = "invite" /\ arg[q].inv \in InviteId
    BY <1>1, <2>1 DEF ArgsFit, InviteSteps, TypeOK, Arg
  <2>3. invites[arg[q].inv] = NULL BY <1>1, <2>1 DEF IdsReserved
  <2>4. CASE arg[q].inv # arg[r].inv
    BY <1>2, <2>2, <2>3, <2>4, ServeTouches
  <2>5. CASE arg[q].inv = arg[r].inv
    <3>1. pc[r] # "invInsert"
      BY <1>1, <2>1, <2>2, <2>5 DEF IdsReserved, ArgsFit, InviteSteps
    <3>2. pc[r] # "regCommit" BY <2>3, <2>5 DEF IInv, ClaimSound, Known
    <3>3. ~(pc[r] = "revUpdate" /\ invites'[arg[r].inv] # invites[arg[r].inv])
      <4>1. SUFFICES ASSUME pc[r] = "revUpdate" PROVE invites' = invites
        OBVIOUS
      <4>2. arg[r].inv \notin Known BY <2>3, <2>5 DEF Known
      <4>3. RevokeInvite(r) \/ Fail(r)
        BY <4>1 DEF Serve, SetupBegin, LockSetup, CountUsers, SetupCreate, SetupCommit,
           CreateUser, RegisterBegin, FindInvite, RegisterCreate, ClaimInvite,
           RegisterCommit, StartSession, CreateInvite, InviteName, RevokeBegin, RevokeName
      <4> QED BY <4>2, <4>3, <1>1, RevokeInviteRows DEF Fail
    <3> QED BY <1>2, <2>2, <2>3, <2>5, <3>1, <3>2, <3>3, ServeTouches
  <2> QED BY <2>4, <2>5
<1> QED BY <1>1, <1>2, <1>3, <1>4 DEF IdsReserved

LEMMA StartIds ==
  ASSUME IInv, NEW r \in Req, Start(r)
  PROVE  IdsReserved'
<1>1. /\ TypeOK /\ IdsReserved /\ users' = users /\ invites' = invites
  BY OtherRows DEF IInv
<1> USE <1>1, NullAssumption DEF SetupSteps, RegisterSteps, IdsReserved, Begin, Asked
<1>2. ASSUME NEW a \in Address, NEW u \in UserId, StartSetup(r, a, u)
      PROVE  IdsReserved'
  BY <1>2 DEF StartSetup, FreshUser, TypeOK
<1>3. ASSUME NEW a \in Address, NEW i \in InviteId \cup {NULL}, NEW u \in UserId,
             StartRegister(r, a, i, u)
      PROVE  IdsReserved'
  BY <1>3 DEF StartRegister, FreshUser, TypeOK
<1>4. ASSUME NEW by \in UserId, NEW a \in Address \cup {NULL}, NEW i \in InviteId,
             StartInvite(r, by, a, i)
      PROVE  IdsReserved'
  BY <1>4 DEF StartInvite, FreshInvite, TypeOK
<1>5. ASSUME NEW by \in UserId, NEW i \in InviteId \cup {NULL}, StartRevoke(r, by, i)
      PROVE  IdsReserved'
  BY <1>5 DEF StartRevoke, TypeOK
<1> QED BY <1>2, <1>3, <1>4, <1>5 DEF Start

LEMMA IdsReservedStep ==
  ASSUME IInv, [Next]_vars
  PROVE  IdsReserved'
<1>1. TypeOK /\ IdsReserved BY DEF IInv
<1>2. ASSUME NEW r \in Req, Return(r) PROVE IdsReserved'
  BY <1>1, <1>2, NullAssumption
  DEF Return, IdsReserved, TypeOK, NoArg, Asked, SetupSteps, RegisterSteps
<1>3. CASE Crash
  BY <1>1, <1>3 DEF Crash, IdsReserved, NoArg, Asked, SetupSteps, RegisterSteps
<1>4. CASE Tick \/ UNCHANGED vars
  BY <1>1, <1>4 DEF Tick, vars, IdsReserved
<1> QED BY <1>2, <1>3, <1>4, StartIds, ServeIds DEF Next

-----------------------------------------------------------------------------
(* What holds for the accounts and invites alone *)

\* The address of a user row about to be committed is nobody else's.
LEMMA SetupCommitAlone ==
  ASSUME IInv, NEW r \in Req, SetupCommit(r)
  PROVE  Rows = {} /\ Rows' = {arg[r].uid} /\ users'[arg[r].uid] = UserRow(r, "admin")
<1>1. Rows = {} BY DEF IInv, SetupSerial, SetupCommit
<1>2. UserRow(r, "admin") # NULL BY SetupCommitRows, RowAssumption DEF IInv
<1> QED BY <1>1, <1>2, SetupCommitRows DEF IInv, TypeOK, Rows

LEMMA RegisterCommitNew ==
  ASSUME IInv, NEW r \in Req, RegisterCommit(r)
  PROVE  /\ arg[r].uid \notin Rows
         /\ Rows' = Rows \cup {arg[r].uid}
         /\ users'[arg[r].uid] = UserRow(r, "member")
         /\ \A u \in Rows : users'[u] = users[u] /\ users[u].email # UserRow(r, "member").email
<1>1. users[arg[r].uid] = NULL
  BY DEF IInv, IdsReserved, RegisterCommit, RegisterSteps
<1>2. UserRow(r, "member") # NULL BY RegisterCommitRows, RowAssumption DEF IInv
<1>3. \A u \in Rows : users[u].email # normEmail(arg[r].addr)
  BY DEF IInv, PendingDistinct, PendingUser, RegisterCommit, EmailTaken
<1>4. UserRow(r, "member").email = normEmail(arg[r].addr) BY DEF UserRow
<1> HIDE DEF UserRow
<1> QED BY <1>1, <1>2, <1>3, <1>4, RegisterCommitRows DEF IInv, TypeOK, Rows

LEMMA EmailsDistinctStep ==
  ASSUME IInv, [Next]_vars
  PROVE  EmailsDistinct'
<1>1. EmailsDistinct BY DEF IInv
<1>2. CASE users' = users BY <1>1, <1>2 DEF EmailsDistinct, Rows
<1>3. ASSUME NEW r \in Req, SetupCommit(r) PROVE EmailsDistinct'
  BY <1>3, SetupCommitAlone DEF EmailsDistinct
<1>4. ASSUME NEW r \in Req, RegisterCommit(r) PROVE EmailsDistinct'
  BY <1>1, <1>4, RegisterCommitNew DEF EmailsDistinct
<1>5. ASSUME NEW r \in Req, CreateInvite(r) \/ RevokeInvite(r) PROVE users' = users
  BY <1>5, CreateInviteRows, RevokeInviteRows DEF IInv
<1> QED BY <1>2, <1>3, <1>4, <1>5, NextSplit DEF Writes

LEMMA OneAdminStep ==
  ASSUME IInv, [Next]_vars
  PROVE  OneAdmin'
<1>1. OneAdmin /\ TypeOK BY DEF IInv
<1>2. CASE users' = users BY <1>1, <1>2 DEF OneAdmin, IsAdmin, Rows
<1>3. ASSUME NEW r \in Req, SetupCommit(r) PROVE OneAdmin'
  <2>1. UserRow(r, "admin").role = "admin" BY DEF UserRow
  <2>2. arg[r].uid \in UserId BY <1>1, <1>3, SetupCommitRows DEF IInv
  <2> HIDE DEF UserRow
  <2> QED BY <1>3, <2>1, <2>2, SetupCommitAlone DEF OneAdmin, IsAdmin, Rows
<1>4. ASSUME NEW r \in Req, RegisterCommit(r) PROVE OneAdmin'
  <2>1. UserRow(r, "member").role = "member" BY DEF UserRow
  <2>2. \A u \in UserId : IsAdmin(u)' <=> IsAdmin(u)
    BY <1>4, <2>1, RegisterCommitNew DEF IsAdmin, Rows
  <2>3. \E u \in UserId : IsAdmin(u)
    <3>1. arg[r].inv \in Known BY <1>4, RegisterCommitRows DEF IInv
    <3>2. invites[arg[r].inv].by \in UserId BY <1>1, <3>1 DEF TypeOK, Known, Invite
    <3> QED BY <3>1, <3>2 DEF IInv, InvitesHaveAdmin
  <2> QED BY <1>1, <2>2, <2>3 DEF OneAdmin
<1>5. ASSUME NEW r \in Req, CreateInvite(r) \/ RevokeInvite(r) PROVE users' = users
  BY <1>5, CreateInviteRows, RevokeInviteRows DEF IInv
<1> QED BY <1>2, <1>3, <1>4, <1>5, NextSplit DEF Writes

LEMMA InvitesHaveAdminStep ==
  ASSUME IInv, [Next]_vars
  PROVE  InvitesHaveAdmin'
<1>1. TypeOK /\ InvitesHaveAdmin /\ Growth BY GrowthStep DEF IInv
<1>2. \A i \in Known : invites[i].by \in UserId BY <1>1 DEF TypeOK, Known, Invite
<1>3. \A u \in UserId : IsAdmin(u) => IsAdmin(u)' BY <1>1 DEF Growth, Rows, IsAdmin
<1>4. \A i \in Known : IsAdmin(invites[i].by)'
  <2>1. ASSUME NEW i \in Known PROVE IsAdmin(invites[i].by)'
    <3>1. invites[i].by \in Rows BY <1>1, <1>2 DEF InvitesHaveAdmin, IsAdmin, Rows
    <3>2. users[invites[i].by].role = "admin" BY <1>1 DEF InvitesHaveAdmin, IsAdmin
    <3> QED BY <1>1, <3>1, <3>2 DEF Growth, IsAdmin, Rows
  <2> QED BY <2>1
<1>5. CASE Known' = Known BY <1>4, <1>5 DEF InvitesHaveAdmin
<1>6. ASSUME NEW r \in Req, CreateInvite(r) PROVE InvitesHaveAdmin'
  <2>1. Known' \subseteq Known \cup {arg[r].inv}
    BY <1>1, <1>6, CreateInviteRows DEF IInv, Known, TypeOK
  <2>2. invites'[arg[r].inv] = InviteRow(r) /\ IsAdmin(InviteRow(r).by) /\ users' = users
    BY <1>1, <1>6, CreateInviteRows DEF IInv, TypeOK
  <2>3. ASSUME NEW i \in Known' PROVE IsAdmin(invites[i].by)'
    <3>1. CASE i \in Known BY <1>4, <3>1
    <3>2. CASE i = arg[r].inv
      <4> DEFINE b == InviteRow(r).by
      <4>1. invites'[i].by = b BY <2>2, <3>2
      <4>2. users[b] # NULL /\ users[b].role = "admin" BY <2>2 DEF IsAdmin
      <4> HIDE DEF b
      <4> QED BY <2>2, <4>1, <4>2 DEF IsAdmin
    <3> QED BY <2>1, <3>1, <3>2
  <2> QED BY <2>3 DEF InvitesHaveAdmin
<1>7. ASSUME NEW r \in Req, SetupCommit(r) PROVE Known' = Known
  BY <1>7, SetupCommitRows DEF IInv, Known
<1>8. ASSUME NEW r \in Req, RegisterCommit(r) PROVE Known' = Known
  BY <1>1, <1>8, RegisterCommitRows, RowAssumption DEF IInv, Known, TypeOK
<1>9. ASSUME NEW r \in Req, RevokeInvite(r) PROVE Known' = Known
  BY <1>1, <1>9, RevokeInviteRows, RowAssumption DEF IInv, Known, TypeOK
<1>10. CASE invites' = invites BY <1>10, <1>5 DEF Known
<1> QED BY <1>5, <1>6, <1>7, <1>8, <1>9, <1>10, NextSplit DEF Writes

LEMMA AdmissionStep ==
  ASSUME IInv, [Next]_vars
  PROVE  AdmissionByInvite'
<1>1. TypeOK /\ AdmissionByInvite /\ Growth BY GrowthStep DEF IInv
<1>2. CASE users' = users /\ invites' = invites
  BY <1>1, <1>2 DEF AdmissionByInvite, Rows, Known
<1>3. ASSUME NEW r \in Req, SetupCommit(r) PROVE AdmissionByInvite'
  <2>1. Rows = {} /\ Rows' = {arg[r].uid} /\ users'[arg[r].uid] = UserRow(r, "admin")
    BY <1>3, SetupCommitAlone
  <2>2. UserRow(r, "admin").role = "admin" BY DEF UserRow
  <2>3. invites' = invites BY <1>3, SetupCommitRows DEF IInv
  <2>4. Known = {}
    BY <1>1, <2>1 DEF IInv, InvitesHaveAdmin, IsAdmin, Rows, TypeOK, Known, Invite
  <2>5. Known' = {} BY <2>3, <2>4 DEF Known
  <2> HIDE DEF UserRow
  <2> QED BY <2>1, <2>2, <2>5 DEF AdmissionByInvite
<1>4. ASSUME NEW r \in Req, RegisterCommit(r) PROVE AdmissionByInvite'
  <2> DEFINE i == arg[r].inv
             u == arg[r].uid
  <2>1. /\ u \notin Rows /\ Rows' = Rows \cup {u} /\ users'[u] = UserRow(r, "member")
        /\ \A v \in Rows : users'[v] = users[v]
    BY <1>4, RegisterCommitNew
  <2>2. /\ u \in UserId /\ i \in Known /\ Used(r) \in Invite
        /\ invites' = [invites EXCEPT ![i] = Used(r)]
    BY <1>4, RegisterCommitRows DEF IInv
  <2>3. /\ UserRow(r, "member").role = "member"
        /\ UserRow(r, "member").email = normEmail(arg[r].addr)
    BY DEF UserRow
  <2>4. Claimable(i, arg[r].at) /\ ForThisAddress(r)
    BY <1>4 DEF IInv, ClaimSound, RegisterCommit
  <2>5. arg[r].at # NULL
    BY <1>1, NullAssumption DEF TypeOK, Arg
  <2>6. /\ Used(r).usedBy = u /\ Used(r).usedAt = arg[r].at
        /\ arg[r].at < Used(r).expires /\ Used(r).revokedAt = NULL
        /\ Used(r).email \in {NULL, normEmail(arg[r].addr)}
        /\ invites[i].usedAt = NULL
    BY <2>4 DEF Used, Claimable, Unsettled, ForThisAddress
  <2>7. Known' = Known /\ invites'[i] = Used(r)
        /\ \A j \in Known \ {i} : invites'[j] = invites[j]
    BY <1>1, <2>2, RowAssumption DEF Known, TypeOK
  <2>8. u # NULL BY <2>2, NullAssumption
  <2>9. invites[i].usedBy = NULL
    BY <1>1, <2>2, <2>6 DEF AdmissionByInvite
  <2>10. \A j \in Known : invites[j].usedBy # u
    BY <1>1, <2>1, <2>8 DEF AdmissionByInvite
  <2> HIDE DEF i, u, UserRow, Used
  <2>11. \A v \in Rows' : users'[v].role = "member" =>
           \E j \in Known' : invites'[j].usedBy = v
    <3>1. ASSUME NEW v \in Rows, users'[v].role = "member"
          PROVE  \E j \in Known' : invites'[j].usedBy = v
      <4>1. PICK j \in Known : invites[j].usedBy = v
        BY <1>1, <2>1, <3>1 DEF AdmissionByInvite
      <4>2. v # NULL BY <1>1, NullAssumption DEF Rows
      <4>3. j # i BY <2>9, <4>1, <4>2
      <4> QED BY <2>7, <4>1, <4>3
    <3> QED BY <2>1, <2>2, <2>6, <2>7, <3>1
  <2>12. \A j, k \in Known' :
           invites'[j].usedBy # NULL /\ invites'[j].usedBy = invites'[k].usedBy => j = k
    BY <1>1, <2>6, <2>7, <2>10 DEF AdmissionByInvite
  <2>13. ASSUME NEW j \in Known', invites'[j].usedBy # NULL
         PROVE  LET v == invites'[j].usedBy IN
                  /\ v \in Rows' /\ users'[v].role = "member"
                  /\ invites'[j].email \in {NULL, users'[v].email}
                  /\ invites'[j].usedAt # NULL
                  /\ invites'[j].usedAt < invites'[j].expires
                  /\ invites'[j].revokedAt = NULL
    <3>1. CASE j = i BY <2>1, <2>3, <2>5, <2>6, <2>7, <3>1
    <3>2. CASE j # i
      <4>1. j \in Known /\ invites'[j] = invites[j] BY <2>7, <2>13, <3>2
      <4> QED BY <1>1, <2>1, <2>13, <4>1 DEF AdmissionByInvite
    <3> QED BY <3>1, <3>2
  <2> QED BY <2>11, <2>12, <2>13 DEF AdmissionByInvite
<1>5. ASSUME NEW r \in Req, CreateInvite(r) PROVE AdmissionByInvite'
  <2> DEFINE i == arg[r].inv
  <2>1. users' = users /\ i \in InviteId /\ invites' = [invites EXCEPT ![i] = InviteRow(r)]
    BY <1>5, CreateInviteRows DEF IInv
  <2>2. InviteRow(r).usedBy = NULL BY DEF InviteRow
  <2>3. i \notin Known BY <1>5 DEF IInv, IdsReserved, CreateInvite, Known
  <2>4. /\ invites'[i].usedBy = NULL /\ Known' \subseteq Known \cup {i} /\ Known \subseteq Known'
        /\ \A j \in Known : invites'[j] = invites[j]
    BY <1>1, <2>1, <2>2, <2>3 DEF TypeOK, Known
  <2>5. Rows' = Rows BY <2>1 DEF Rows
  <2> HIDE DEF i
  <2> QED BY <1>1, <2>1, <2>3, <2>4, <2>5 DEF AdmissionByInvite
<1>6. ASSUME NEW r \in Req, RevokeInvite(r), invites' # invites PROVE AdmissionByInvite'
  <2> DEFINE i == arg[r].inv
             row == [invites[i] EXCEPT !.revokedAt = arg[r].at]
  <2>1. users' = users /\ i \in Known /\ Revocable(i) /\ row \in Invite
        /\ invites' = [invites EXCEPT ![i] = row]
    BY <1>6, RevokeInviteRows DEF IInv
  <2>2. invites[i] \in Invite BY <1>1, <2>1 DEF TypeOK, Known
  <2>3. row.usedBy = invites[i].usedBy BY <2>2 DEF Invite
  <2>4. invites[i].usedBy = NULL
    BY <1>1, <2>1 DEF AdmissionByInvite, Revocable, Unsettled
  <2> HIDE DEF row
  <2>5. /\ invites'[i].usedBy = NULL /\ Known' = Known
        /\ \A j \in Known \ {i} : invites'[j] = invites[j]
    BY <1>1, <2>1, <2>3, <2>4, RowAssumption DEF TypeOK, Known
  <2>6. Rows' = Rows BY <2>1 DEF Rows
  <2> HIDE DEF i
  <2> QED BY <1>1, <2>1, <2>4, <2>5, <2>6 DEF AdmissionByInvite
<1>7. ASSUME NEW r \in Req, RevokeInvite(r) PROVE users' = users
  BY <1>7, RevokeInviteRows DEF IInv
<1> QED BY <1>2, <1>3, <1>4, <1>5, <1>6, <1>7, NextSplit DEF Writes

-----------------------------------------------------------------------------
(* What holds half-way through a transaction *)

\* Starting or ending a request, and time, put nobody inside a transaction and
\* write nothing.
LEMMA OutsideTx ==
  ASSUME TypeOK,
         \/ \E r \in Req : Start(r) \/ Return(r)
         \/ Crash \/ Tick \/ UNCHANGED vars
  PROVE  /\ users' = users /\ invites' = invites
         /\ \A q \in Req :
              \/ pc'[q] = pc[q] /\ arg'[q] = arg[q]
              \/ pc'[q] \in {"idle", "setupBegin", "regBegin", "invInsert", "revBegin"}
<1>1. CASE \E r \in Req : Start(r)
  BY <1>1 DEF TypeOK, Start, StartSetup, StartRegister, StartInvite, StartRevoke, Begin
<1>2. CASE \E r \in Req : Return(r) BY <1>2 DEF TypeOK, Return
<1>3. CASE Crash BY <1>3 DEF TypeOK, Crash
<1>4. CASE Tick \/ UNCHANGED vars BY <1>4 DEF Tick, vars
<1> QED BY <1>1, <1>2, <1>3, <1>4

\* Where a request may enter the states the invariant speaks of.
LEMMA Entering ==
  ASSUME TypeOK, NEW r \in Req, Serve(r) \/ Fail(r)
  PROVE  /\ HoldsSetupLock(r)' => HoldsSetupLock(r) \/ SetupLockFree
         /\ pc'[r] \in {"setupCreate", "setupCommit"} =>
              users' = users /\ (pc[r] = "setupCreate" \/ Rows = {})
         /\ pc'[r] \in {"setupCommit", "regClaim", "regCommit"} =>
              users' = users /\ (PendingUser(r) \/ (~EmailTaken(r) /\ ~EmailLocked(r)))
         /\ pc'[r] \in {"regCreate", "regClaim", "regCommit"} =>
              /\ invites' = invites
              /\ \/ pc[r] \in {"regCreate", "regClaim"}
                 \/ FindValid(arg[r].inv, arg[r].at) /\ ForThisAddress(r)
         /\ pc'[r] = "regCommit" =>
              Claimable(arg[r].inv, arg[r].at) /\ ~InviteLocked(arg[r].inv)
<1> USE GotoFrame, ReplyFrame DEF HoldsSetupLock, PendingUser
<1>1. CASE SetupBegin(r) BY <1>1 DEF SetupBegin
<1>2. CASE LockSetup(r)
  <2>1. pc'[r] = "setupCount" /\ SetupLockFree BY <1>2 DEF LockSetup
  <2> QED BY <2>1
<1>3. CASE CountUsers(r) BY <1>3 DEF CountUsers
<1>4. CASE SetupCreate(r) BY <1>4 DEF SetupCreate, CreateUser
<1>5. CASE SetupCommit(r) BY <1>5 DEF SetupCommit
<1>6. CASE RegisterBegin(r) BY <1>6 DEF RegisterBegin
<1>7. CASE FindInvite(r) BY <1>7 DEF FindInvite
<1>8. CASE RegisterCreate(r) BY <1>8 DEF RegisterCreate, CreateUser
<1>9. CASE ClaimInvite(r)
  <2>1. CASE Claimable(arg[r].inv, arg[r].at) /\ Goto(r, "regCommit")
    <3>1. /\ pc[r] = "regClaim" /\ pc'[r] = "regCommit"
          /\ users' = users /\ invites' = invites /\ ~InviteLocked(arg[r].inv)
      BY <1>9, <2>1 DEF ClaimInvite
    <3> QED BY <2>1, <3>1
  <2>2. CASE Reply(r, 500) BY <1>9, <2>2 DEF ClaimInvite
  <2> QED BY <1>9, <2>1, <2>2 DEF ClaimInvite
<1>10. CASE RegisterCommit(r) BY <1>10 DEF RegisterCommit
<1>11. CASE StartSession(r) BY <1>11 DEF StartSession
<1>12. CASE CreateInvite(r) BY <1>12 DEF CreateInvite
<1>13. CASE InviteName(r) BY <1>13 DEF InviteName
<1>14. CASE RevokeBegin(r) BY <1>14 DEF RevokeBegin
<1>15. CASE RevokeInvite(r) BY <1>15 DEF RevokeInvite
<1>16. CASE RevokeName(r) BY <1>16 DEF RevokeName
<1>17. CASE Fail(r) BY <1>17 DEF Fail
<1> QED BY <1>1, <1>2, <1>3, <1>4, <1>5, <1>6, <1>7, <1>8, <1>9, <1>10, <1>11,
           <1>12, <1>13, <1>14, <1>15, <1>16, <1>17 DEF Serve

LEMMA SetupSerialStep ==
  ASSUME IInv, [Next]_vars
  PROVE  SetupSerial'
<1>1. TypeOK /\ SetupSerial BY DEF IInv
<1>2. ASSUME NEW r \in Req, Serve(r) \/ Fail(r) PROVE SetupSerial'
  <2>1. Frame(r) BY <1>1, <1>2, ServeFrame
  <2>2. \A q \in Req \ {r} : (HoldsSetupLock(q)' <=> HoldsSetupLock(q)) /\ pc'[q] = pc[q]
    BY <2>1 DEF Frame, HoldsSetupLock
  <2>3. \A p, q \in Req : HoldsSetupLock(p)' /\ HoldsSetupLock(q)' => p = q
    BY <1>1, <1>2, <2>2, Entering DEF SetupSerial, SetupLockFree
  <2>4. ASSUME NEW q \in Req, pc'[q] \in {"setupCreate", "setupCommit"} PROVE Rows' = {}
    <3>1. CASE q = r
      BY <1>1, <1>2, <2>4, <3>1, Entering DEF SetupSerial, Rows
    <3>2. CASE q # r
      <4>1. pc[q] \in {"setupCreate", "setupCommit"} /\ Rows = {}
        BY <1>1, <2>2, <2>4, <3>2 DEF SetupSerial
      <4>2. pc[r] # "setupCommit"
        BY <1>1, <3>2, <4>1 DEF SetupSerial, HoldsSetupLock
      <4>3. pc[r] # "regCommit"
        <5>1. SUFFICES ASSUME pc[r] = "regCommit" PROVE FALSE OBVIOUS
        <5>2. arg[r].inv \in Known BY <5>1 DEF IInv, ClaimSound
        <5> QED BY <1>1, <4>1, <5>2
            DEF IInv, InvitesHaveAdmin, IsAdmin, Rows, TypeOK, Known, Invite
      <4>4. \A u \in UserId : users'[u] = users[u]
        BY <1>2, <4>2, <4>3, ServeTouches
      <4> QED BY <4>1, <4>4 DEF Rows
    <3> QED BY <3>1, <3>2
  <2> QED BY <2>3, <2>4 DEF SetupSerial
<1>3. CASE \/ \E r \in Req : Start(r) \/ Return(r)
           \/ Crash \/ Tick \/ UNCHANGED vars
  BY <1>1, <1>3, OutsideTx DEF SetupSerial, HoldsSetupLock, Rows
<1> QED BY <1>2, <1>3 DEF Next

LEMMA PendingDistinctStep ==
  ASSUME IInv, [Next]_vars
  PROVE  PendingDistinct'
<1>1. TypeOK /\ PendingDistinct BY DEF IInv
<1>2. ASSUME NEW r \in Req, Serve(r) \/ Fail(r) PROVE PendingDistinct'
  <2>1. Frame(r) /\ Steps(r) BY <1>1, <1>2, ServeFrame
  <2>2. /\ \A q \in Req : normEmail(arg[q].addr)' = normEmail(arg[q].addr)
        /\ \A q \in Req \ {r} : pc'[q] = pc[q]
    BY <2>1 DEF Frame, normEmail
  <2>3. ASSUME NEW q \in Req, PendingUser(q)' PROVE ~EmailLocked(q)'
    <3>1. SUFFICES ASSUME NEW p \in Req \ {q}, PendingUser(p)',
                          normEmail(arg[p].addr) = normEmail(arg[q].addr)
                   PROVE  FALSE
      BY <2>2 DEF EmailLocked
    <3>2. CASE p = r
      <4>1. PendingUser(q) BY <2>2, <2>3, <3>1, <3>2 DEF PendingUser
      <4>2. ~EmailLocked(q) BY <1>1, <4>1 DEF PendingDistinct
      <4>3. ~PendingUser(p) BY <3>1, <4>2 DEF EmailLocked
      <4>4. ~EmailLocked(p)
        BY <1>1, <1>2, <3>1, <3>2, <4>3, Entering DEF PendingUser
      <4> QED BY <3>1, <4>1, <4>4 DEF EmailLocked
    <3>3. CASE p # r
      <4>1. PendingUser(p) /\ ~EmailLocked(p) BY <1>1, <2>2, <3>1, <3>3 DEF PendingDistinct, PendingUser
      <4>2. ~PendingUser(q) BY <3>1, <4>1 DEF EmailLocked
      <4>3. q = r BY <2>2, <2>3, <4>2 DEF PendingUser
      <4>4. ~EmailLocked(q)
        BY <1>1, <1>2, <2>3, <4>2, <4>3, Entering DEF PendingUser
      <4> QED BY <3>1, <4>1, <4>4 DEF EmailLocked
    <3> QED BY <3>2, <3>3
  <2>4. ASSUME NEW q \in Req, PendingUser(q)' PROVE ~EmailTaken(q)'
    <3>1. CASE users' = users
      <4>1. ~EmailTaken(q)
        BY <1>1, <1>2, <2>2, <2>4, Entering DEF PendingDistinct, PendingUser
      <4> QED BY <2>2, <3>1, <4>1 DEF EmailTaken, Rows
    <3>2. CASE users' # users
      <4>1. q # r BY <1>1, <1>2, <2>4, <3>2, Entering DEF PendingUser
      <4>2. PendingUser(q) /\ ~EmailTaken(q) /\ ~EmailLocked(q)
        BY <1>1, <2>2, <2>4, <4>1 DEF PendingDistinct, PendingUser
      <4>3. CASE SetupCommit(r)
        <5>1. normEmail(arg[q].addr) # normEmail(arg[r].addr)
          BY <4>1, <4>2, <4>3 DEF EmailLocked, PendingUser, SetupCommit
        <5>2. UserRow(r, "admin").email = normEmail(arg[r].addr) BY DEF UserRow
        <5> HIDE DEF UserRow
        <5> QED BY <2>2, <4>3, <5>1, <5>2, SetupCommitAlone DEF EmailTaken
      <4>4. CASE RegisterCommit(r)
        <5>1. normEmail(arg[q].addr) # normEmail(arg[r].addr)
          BY <4>1, <4>2, <4>4 DEF EmailLocked, PendingUser, RegisterCommit
        <5>2. UserRow(r, "member").email = normEmail(arg[r].addr) BY DEF UserRow
        <5> HIDE DEF UserRow
        <5> QED BY <2>2, <4>2, <4>4, <5>1, <5>2, RegisterCommitNew DEF EmailTaken
      <4>5. SetupCommit(r) \/ RegisterCommit(r)
        BY <1>2, <3>2, OtherRows, CreateInviteRows, RevokeInviteRows
        DEF IInv, Serve, Moves
      <4> QED BY <4>3, <4>4, <4>5
    <3> QED BY <3>1, <3>2
  <2> QED BY <2>3, <2>4 DEF PendingDistinct
<1>3. CASE \/ \E r \in Req : Start(r) \/ Return(r)
           \/ Crash \/ Tick \/ UNCHANGED vars
  BY <1>1, <1>3, OutsideTx
  DEF PendingDistinct, PendingUser, EmailTaken, EmailLocked, Rows, normEmail
<1> QED BY <1>2, <1>3 DEF Next

LEMMA ClaimSoundStep ==
  ASSUME IInv, [Next]_vars
  PROVE  ClaimSound'
<1>1. TypeOK /\ ClaimSound /\ Growth BY GrowthStep DEF IInv
<1>2. ASSUME NEW q \in Req, arg[q].inv \in Known, ForThisAddress(q),
             arg'[q].inv = arg[q].inv, arg'[q].addr = arg[q].addr
      PROVE  arg'[q].inv \in Known' /\ ForThisAddress(q)'
  BY <1>1, <1>2 DEF Growth, ForThisAddress, normEmail
<1>3. ASSUME NEW r \in Req, Serve(r) \/ Fail(r) PROVE ClaimSound'
  <2>1. Frame(r) BY <1>1, <1>3, ServeFrame
  <2>2. ASSUME NEW q \in Req, pc'[q] \in {"regCreate", "regClaim", "regCommit"}
        PROVE  arg'[q].inv \in Known' /\ ForThisAddress(q)'
    <3>1. arg[q].inv \in Known /\ ForThisAddress(q)
      <4>1. CASE pc[q] \in {"regCreate", "regClaim", "regCommit"}
        BY <1>1, <4>1 DEF ClaimSound
      <4>2. CASE pc[q] \notin {"regCreate", "regClaim", "regCommit"}
        <5>1. q = r BY <2>1, <2>2, <4>2 DEF Frame
        <5>2. FindValid(arg[q].inv, arg[q].at) /\ ForThisAddress(q)
          BY <1>1, <1>3, <2>2, <4>2, <5>1, Entering
        <5>3. /\ pc[q] \in RegisterSteps
          BY <1>1, <1>3, <2>2, <5>1, ServeFrame DEF Steps, RegisterSteps
        <5>4. arg[q].inv \in Known \cup {NULL} BY <5>3 DEF IInv, ArgsFit
        <5> QED BY <5>2, <5>4 DEF FindValid
      <4> QED BY <4>1, <4>2
    <3>2. arg'[q].inv = arg[q].inv /\ arg'[q].addr = arg[q].addr
      BY <2>1 DEF Frame
    <3> QED BY <1>2, <3>1, <3>2
  <2>3. ASSUME NEW q \in Req, pc'[q] = "regCommit"
        PROVE  /\ Claimable(arg[q].inv, arg[q].at)'
               /\ \A p \in Req : pc'[p] = "regCommit" /\ arg'[p].inv = arg'[q].inv => p = q
    <3>1. \A p \in Req : arg'[p].inv = arg[p].inv /\ arg'[p].at = arg[p].at
      BY <2>1 DEF Frame
    <3>2. Claimable(arg[q].inv, arg[q].at)
      <4>1. CASE q = r BY <1>1, <1>3, <2>3, <4>1, Entering
      <4>2. CASE q # r BY <1>1, <2>1, <2>3, <4>2 DEF ClaimSound, Frame
      <4> QED BY <4>1, <4>2
    <3>3. arg[q].inv \in Known
      <4>1. arg'[q].inv \in Known' BY <2>2, <2>3
      <4>2. CASE q = r
        <5>1. invites' = invites BY <1>1, <1>3, <2>3, <4>2, Entering
        <5> QED BY <3>1, <4>1, <5>1 DEF Known
      <4>3. CASE q # r BY <1>1, <2>1, <2>3, <4>3 DEF ClaimSound, Frame
      <4> QED BY <4>2, <4>3
    <3>4. invites'[arg[q].inv] = invites[arg[q].inv]
      <4>1. CASE q = r BY <1>1, <1>3, <2>3, <4>1, Entering
      <4>2. CASE q # r /\ arg[r].inv = arg[q].inv
        <5>1. pc[q] = "regCommit" BY <2>1, <2>3, <4>2 DEF Frame
        <5>2. ~RegisterCommit(r)
          BY <1>1, <4>2, <5>1 DEF ClaimSound, RegisterCommit
        <5>3. ~CreateInvite(r)
          BY <3>3, <4>2 DEF IInv, IdsReserved, CreateInvite, Known
        <5>4. RevokeInvite(r) => invites' = invites
          BY <1>1, <4>2, <5>1, RevokeInviteRows DEF IInv, InviteLocked
        <5>5. SetupCommit(r) => invites' = invites
          BY SetupCommitRows DEF IInv
        <5> QED BY <1>3, <5>2, <5>3, <5>4, <5>5, OtherRows DEF Serve, Moves
      <4>3. CASE arg[r].inv # arg[q].inv
        BY <1>3, <3>3, <4>3, ServeTouches DEF Known
      <4> QED BY <4>1, <4>2, <4>3
    <3>5. Claimable(arg[q].inv, arg[q].at)'
      BY <3>1, <3>2, <3>4 DEF Claimable, Unsettled
    <3>6. ASSUME NEW p \in Req, p # q, pc'[p] = "regCommit", arg'[p].inv = arg'[q].inv
          PROVE  FALSE
      <4>1. arg[p].inv = arg[q].inv BY <3>1, <3>6
      <4>2. CASE p # r /\ q # r
        BY <1>1, <2>1, <2>3, <3>6, <4>1, <4>2 DEF ClaimSound, Frame
      <4>3. CASE q = r
        <5>1. pc[p] = "regCommit" BY <2>1, <3>6, <4>3 DEF Frame
        <5>2. ~InviteLocked(arg[q].inv) BY <1>1, <1>3, <2>3, <4>3, Entering
        <5> QED BY <4>1, <5>1, <5>2 DEF InviteLocked
      <4>4. CASE p = r
        <5>1. pc[q] = "regCommit" BY <2>1, <2>3, <3>6, <4>4 DEF Frame
        <5>2. ~InviteLocked(arg[p].inv) BY <1>1, <1>3, <3>6, <4>4, Entering
        <5> QED BY <4>1, <5>1, <5>2 DEF InviteLocked
      <4> QED BY <4>2, <4>3, <4>4
    <3> QED BY <3>5, <3>6
  <2> QED BY <2>2, <2>3 DEF ClaimSound
<1>4. CASE \/ \E r \in Req : Start(r) \/ Return(r)
           \/ Crash \/ Tick \/ UNCHANGED vars
  <2>1. /\ invites' = invites
        /\ \A q \in Req :
             \/ pc'[q] = pc[q] /\ arg'[q] = arg[q]
             \/ pc'[q] \in {"idle", "setupBegin", "regBegin", "invInsert", "revBegin"}
    BY <1>1, <1>4, OutsideTx
  <2> QED BY <1>1, <2>1 DEF ClaimSound, Known, ForThisAddress, normEmail, Claimable, Unsettled
<1> QED BY <1>3, <1>4 DEF Next

-----------------------------------------------------------------------------
(* What a request has written or was refused for, until it is answered     *)

\* No statement touches an invite that is used or revoked.
LEMMA SettledStep ==
  ASSUME IInv, [Next]_vars
  PROVE  \A i \in Known : ~Unsettled(i) => invites'[i] = invites[i]
<1>1. SUFFICES ASSUME NEW r \in Req, Writes(r), NEW i \in Known, ~Unsettled(i)
               PROVE  invites'[i] = invites[i]
  BY NextSplit
<1>2. TypeOK /\ ArgsFit /\ ClaimSound BY DEF IInv
<1>3. CASE SetupCommit(r) BY <1>2, <1>3, SetupCommitRows
<1>4. CASE RegisterCommit(r)
  <2>1. Unsettled(arg[r].inv)
    BY <1>2, <1>4 DEF ClaimSound, RegisterCommit, Claimable
  <2> QED BY <1>1, <1>2, <1>4, <2>1, RegisterCommitRows DEF TypeOK, Known
<1>5. CASE CreateInvite(r)
  <2>1. arg[r].inv \notin Known
    BY <1>5 DEF IInv, IdsReserved, CreateInvite, Known
  <2> QED BY <1>1, <1>2, <1>5, <2>1, CreateInviteRows DEF TypeOK, Known
<1>6. CASE RevokeInvite(r)
  BY <1>1, <1>2, <1>6, RevokeInviteRows DEF TypeOK, Known, Revocable
<1> QED BY <1>1, <1>3, <1>4, <1>5, <1>6 DEF Writes

\* What a request finds of itself in a row it wrote.
LEMMA OwnRow ==
  ASSUME TypeOK, ArgsFit, NEW q \in Req, NEW role \in {"admin", "member"},
         arg[q].op \in {"setup", "register"}
  PROVE  arg[q].uid \in UserId /\ UserRow(q, role) # NULL
<1>1. arg[q].uid \in UserId /\ arg[q].addr \in Address BY DEF ArgsFit, TypeOK, Arg
<1>2. UserRow(q, role) \in User BY <1>1, NormType DEF UserRow, User
<1> QED BY <1>1, <1>2, RowAssumption

SameRequest(q) ==
  /\ arg'[q].op = arg[q].op /\ arg'[q].addr = arg[q].addr /\ arg'[q].inv = arg[q].inv
  /\ arg'[q].uid = arg[q].uid /\ arg'[q].at = arg[q].at

LEMMA WrittenStays ==
  ASSUME IInv, [Next]_vars, NEW q \in Req, SameRequest(q), Written(q)
  PROVE  Written(q)'
<1>0. /\ TypeOK /\ ArgsFit /\ Growth /\ AdmissionByInvite
      /\ \A i \in Known : ~Unsettled(i) => invites'[i] = invites[i]
  BY GrowthStep, SettledStep DEF IInv
<1>1. UserRow(q, "admin")' = UserRow(q, "admin") /\ UserRow(q, "member")' = UserRow(q, "member")
  BY DEF SameRequest, UserRow, normEmail
<1>2. ASSUME NEW role \in {"admin", "member"}, arg[q].op \in {"setup", "register"},
             users[arg[q].uid] = UserRow(q, role)
      PROVE  users'[arg[q].uid] = UserRow(q, role)
  <2>1. arg[q].uid \in Rows BY <1>0, <1>2, OwnRow DEF Rows
  <2> QED BY <1>0, <1>2, <2>1 DEF Growth
<1>3. ASSUME arg[q].op = "register"
      PROVE  arg[q].inv \in Known' /\ invites'[arg[q].inv].usedBy = arg[q].uid
  <2>1. arg[q].inv \in Known /\ invites[arg[q].inv].usedBy = arg[q].uid BY <1>3 DEF Written
  <2>2. arg[q].uid # NULL BY <1>0, <1>3 DEF ArgsFit
  <2>3. ~Unsettled(arg[q].inv) BY <1>0, <2>1, <2>2 DEF AdmissionByInvite, Unsettled
  <2> QED BY <1>0, <2>1, <2>3 DEF Growth
<1>4. ASSUME arg[q].op = "invite"
      PROVE  arg[q].inv \in Known' /\ invites'[arg[q].inv].email = BoundTo(arg[q].addr)
  BY <1>0, <1>4 DEF Written, Growth
<1>5. ASSUME arg[q].op = "revoke"
      PROVE  /\ arg[q].inv \in Known' /\ invites'[arg[q].inv].revokedAt = arg[q].at
             /\ invites'[arg[q].inv].usedAt = NULL
  <2>1. arg[q].inv \in Known /\ invites[arg[q].inv].revokedAt = arg[q].at
        /\ invites[arg[q].inv].usedAt = NULL
    BY <1>5 DEF Written
  <2>2. arg[q].at # NULL BY <1>0, NullAssumption DEF TypeOK, Arg
  <2>3. ~Unsettled(arg[q].inv) BY <2>1, <2>2 DEF Unsettled
  <2> QED BY <1>0, <2>1, <2>3 DEF Growth
<1>6. BoundTo(arg[q].addr)' = BoundTo(arg[q].addr) BY DEF SameRequest, BoundTo, normEmail
<1>7. /\ arg[q].op = "setup" => users[arg[q].uid] = UserRow(q, "admin")
      /\ arg[q].op = "register" => users[arg[q].uid] = UserRow(q, "member")
  BY DEF Written
<1> HIDE DEF UserRow
<1>8. /\ arg[q].op = "setup" => users'[arg[q].uid] = UserRow(q, "admin")'
      /\ arg[q].op = "register" => users'[arg[q].uid] = UserRow(q, "member")'
  BY <1>1, <1>2, <1>7
<1> QED BY <1>3, <1>4, <1>5, <1>6, <1>8 DEF Written, SameRequest

\* The id of a refused account is not given to anybody else while its request
\* is open.
LEMMA RefusedStays ==
  ASSUME IInv, [Next]_vars, NEW q \in Req, SameRequest(q), Refused(q),
         arg[q].op \in {"setup", "register"} => users'[arg[q].uid] = users[arg[q].uid]
  PROVE  Refused(q)'
<1>0. /\ ArgsFit /\ Growth
      /\ \A i \in Known : ~Unsettled(i) => invites'[i] = invites[i]
  BY GrowthStep, SettledStep DEF IInv
<1>1. Rows # {} => Rows' # {} BY <1>0 DEF Growth
<1>2. ASSUME arg[q].op = "revoke", arg[q].inv # NULL
      PROVE  ~Unsettled(arg[q].inv)'
  <2>1. arg[q].inv \in Known BY <1>0, <1>2 DEF ArgsFit
  <2>2. ~Unsettled(arg[q].inv) BY <1>2, <2>1 DEF Refused
  <2> QED BY <1>0, <2>1, <2>2 DEF Unsettled, SameRequest
<1>3. NULL \notin Known' BY NullAssumption DEF Known
<1>4. arg[q].op \in {"setup", "register"} => users'[arg[q].uid] = NULL BY DEF Refused
<1>5. arg[q].op = "setup" => Rows' # {} BY <1>1 DEF Refused
<1> QED BY <1>2, <1>3, <1>4, <1>5 DEF Refused, SameRequest

\* AnswersStand for one request.
Stands(r) ==
  /\ pc[r] \in {"session", "invName", "revName"} => Written(r)
  /\ pc[r] = "replied" =>
       /\ arg[r].status \in {200, 201} => Written(r)
       /\ arg[r].status = 201 /\ arg[r].uid # NULL => arg[r].uid \in sessions
       /\ arg[r].status \in {409, 422} => Refused(r)

\* A request that does not move stands where it stood.
LEMMA KeepsStanding ==
  ASSUME IInv, [Next]_vars, NEW q \in Req, Stands(q), pc'[q] = pc[q], arg'[q] = arg[q],
         arg[q].op \in {"setup", "register"} /\ pc[q] = "replied" =>
           users'[arg[q].uid] = users[arg[q].uid],
         sessions \subseteq sessions'
  PROVE  Stands(q)'
<1>1. SameRequest(q) BY DEF SameRequest
<1>2. Written(q) => Written(q)' BY <1>1, WrittenStays
<1>3. pc[q] = "replied" /\ Refused(q) => Refused(q)' BY <1>1, RefusedStays
<1> QED BY <1>2, <1>3 DEF Stands

\* Only the owner of an id writes its row.
LEMMA OthersIds ==
  ASSUME IInv, NEW r \in Req, Serve(r) \/ Fail(r), NEW q \in Req \ {r},
         arg[q].op \in {"setup", "register"}
  PROVE  users'[arg[q].uid] = users[arg[q].uid]
<1>1. arg[q].uid \in UserId /\ arg[q].uid # NULL BY DEF IInv, ArgsFit, TypeOK, Arg
<1>2. arg[q].uid # arg[r].uid BY <1>1 DEF IInv, IdsReserved
<1> QED BY <1>1, <1>2, ServeTouches

LEMMA ReplySays ==
  ASSUME TypeOK, NEW r \in Req, NEW s, Reply(r, s)
  PROVE  pc'[r] = "replied" /\ arg'[r].status = s
<1>1. arg'[r] = [arg[r] EXCEPT !.status = s] BY DEF Reply, TypeOK
<1>2. arg[r] \in Arg BY DEF TypeOK
<1>3. arg'[r].status = s BY <1>1, <1>2 DEF Arg
<1>4. pc'[r] = "replied" BY DEF Reply, TypeOK
<1> QED BY <1>3, <1>4

LEMMA GotoSays ==
  ASSUME TypeOK, NEW r \in Req, NEW p, Goto(r, p)
  PROVE  pc'[r] = p /\ arg'[r] = arg[r]
BY DEF Goto, TypeOK

\* An answer of 500 promises nothing, and neither do the steps between.
LEMMA NothingPromised ==
  ASSUME NEW r \in Req,
         \/ pc'[r] \notin {"session", "invName", "revName", "replied"}
         \/ pc'[r] = "replied" /\ arg'[r].status = 500
  PROVE  Stands(r)'
BY DEF Stands

LEMMA RefusesRightly ==
  ASSUME IInv, [Next]_vars, NEW r \in Req, NEW s \in {409, 422}, Reply(r, s), SameRequest(r),
         Refused(r), users' = users
  PROVE  Stands(r)'
<1>1. pc'[r] = "replied" /\ arg'[r].status = s BY ReplySays DEF IInv
<1>2. Refused(r)' BY RefusedStays
<1> QED BY <1>1, <1>2 DEF Stands

LEMMA AnswersRightly ==
  ASSUME IInv, [Next]_vars, NEW r \in Req, NEW s \in {200, 201}, Reply(r, s), SameRequest(r),
         Written(r), s = 201 /\ arg[r].uid # NULL => arg[r].uid \in sessions'
  PROVE  Stands(r)'
<1>1. pc'[r] = "replied" /\ arg'[r].status = s BY ReplySays DEF IInv
<1>2. Written(r)' BY WrittenStays
<1> QED BY <1>1, <1>2 DEF Stands, SameRequest

\* What the writing steps leave is what they were asked for.
LEMMA WritesStand ==
  ASSUME IInv, NEW r \in Req, Writes(r), SameRequest(r), [Next]_vars
  PROVE  Stands(r)'
<1>0. TypeOK /\ ArgsFit /\ ClaimSound BY DEF IInv
<1>1. UserRow(r, "admin")' = UserRow(r, "admin") /\ UserRow(r, "member")' = UserRow(r, "member")
  BY DEF SameRequest, UserRow, normEmail
<1>2. CASE SetupCommit(r)
  <2>1. pc'[r] = "session" BY <1>0, <1>2, GotoSays DEF SetupCommit
  <2>2. arg[r].op = "setup" BY <1>0, <1>2 DEF SetupCommit, ArgsFit, SetupSteps
  <2>3. users'[arg[r].uid] = UserRow(r, "admin") BY <1>2, SetupCommitAlone
  <2> HIDE DEF UserRow
  <2> QED BY <1>1, <2>1, <2>2, <2>3 DEF Stands, Written, SameRequest
<1>3. CASE RegisterCommit(r)
  <2>1. pc'[r] = "session" BY <1>0, <1>3, GotoSays DEF RegisterCommit
  <2>2. arg[r].op = "register" BY <1>0, <1>3 DEF RegisterCommit, ArgsFit, RegisterSteps
  <2>3. users'[arg[r].uid] = UserRow(r, "member") BY <1>3, RegisterCommitNew
  <2>4. invites'[arg[r].inv] = Used(r) /\ arg[r].inv \in Known /\ Used(r) # NULL
    BY <1>0, <1>3, RegisterCommitRows, RowAssumption DEF TypeOK, Known
  <2>5. Used(r).usedBy = arg[r].uid BY DEF Used
  <2>6. arg[r].inv \in Known' BY <2>4 DEF Known
  <2> HIDE DEF UserRow, Used
  <2> QED BY <1>1, <2>1, <2>2, <2>3, <2>4, <2>5, <2>6 DEF Stands, Written, SameRequest
<1>4. CASE CreateInvite(r)
  <2>1. pc'[r] = "invName" BY <1>0, <1>4, GotoSays DEF CreateInvite
  <2>2. arg[r].op = "invite" BY <1>0, <1>4 DEF CreateInvite, ArgsFit, InviteSteps
  <2>3. invites'[arg[r].inv] = InviteRow(r) /\ arg[r].inv \in InviteId /\ InviteRow(r) # NULL
    BY <1>0, <1>4, CreateInviteRows, RowAssumption DEF TypeOK
  <2>4. InviteRow(r).email = BoundTo(arg[r].addr) BY DEF InviteRow
  <2>5. arg[r].inv \in Known' BY <2>3 DEF Known
  <2>6. BoundTo(arg[r].addr)' = BoundTo(arg[r].addr) BY DEF SameRequest, BoundTo, normEmail
  <2> HIDE DEF InviteRow
  <2> QED BY <2>1, <2>2, <2>3, <2>4, <2>5, <2>6 DEF Stands, Written, SameRequest
<1>5. CASE RevokeInvite(r)
  <2>0. arg[r].op = "revoke" /\ users' = users
    BY <1>0, <1>5, RevokeInviteRows DEF RevokeInvite, ArgsFit, RevokeSteps
  <2>1. CASE /\ arg[r].inv # NULL /\ Revocable(arg[r].inv)
             /\ invites' = [invites EXCEPT ![arg[r].inv].revokedAt = arg[r].at]
             /\ Goto(r, "revName")
    <3> DEFINE row == [invites[arg[r].inv] EXCEPT !.revokedAt = arg[r].at]
    <3>1. pc'[r] = "revName" BY <1>0, <2>1, GotoSays
    <3>2. arg[r].inv \in Known BY <1>0, <2>0, <2>1 DEF ArgsFit
    <3>3. invites[arg[r].inv] \in Invite /\ arg[r].at \in Nat BY <1>0, <3>2 DEF Known, TypeOK, Arg
    <3>4. row \in Invite /\ row.revokedAt = arg[r].at /\ row.usedAt = invites[arg[r].inv].usedAt
      BY <3>3 DEF Invite
    <3>5. invites'[arg[r].inv] = row BY <1>0, <2>1, <3>2 DEF TypeOK, Known
    <3>6. invites[arg[r].inv].usedAt = NULL BY <2>1 DEF Revocable, Unsettled
    <3>7. row # NULL BY <3>4, RowAssumption
    <3> HIDE DEF row
    <3>8. arg[r].inv \in Known' BY <3>2, <3>5, <3>7 DEF Known
    <3> QED BY <2>0, <3>1, <3>4, <3>5, <3>6, <3>8 DEF Stands, Written, SameRequest
  <2>2. CASE /\ arg[r].inv = NULL \/ ~Revocable(arg[r].inv)
             /\ Reply(r, 409)
    <3>1. arg[r].inv = NULL => arg[r].inv \notin Known BY NullAssumption DEF Known
    <3>2. Refused(r) BY <2>0, <2>2, <3>1 DEF Refused, Revocable
    <3> QED BY <2>0, <2>2, <3>2, RefusesRightly
  <2> QED BY <1>5, <2>1, <2>2 DEF RevokeInvite
<1> QED BY <1>2, <1>3, <1>4, <1>5 DEF Writes

\* So does every other step of the request itself.
LEMMA ServeStands ==
  ASSUME IInv, [Next]_vars, NEW r \in Req, Serve(r) \/ Fail(r)
  PROVE  Stands(r)'
<1>0. TypeOK /\ ArgsFit /\ Stands(r) BY DEF IInv, AnswersStand, Stands
<1>1. SameRequest(r) BY <1>0, ServeFrame DEF Frame, SameRequest
<1>2. ASSUME NEW p \in Step \ {"session", "invName", "revName", "replied"}, Goto(r, p)
      PROVE  Stands(r)'
  BY <1>0, <1>2, GotoSays, NothingPromised
<1>3. ASSUME Reply(r, 500) PROVE Stands(r)'
  BY <1>0, <1>3, ReplySays, NothingPromised
<1>4. /\ {"setupLock", "setupCount", "setupCreate", "setupCommit", "regFind", "regCreate",
          "regClaim", "regCommit", "revUpdate"}
           \subseteq Step \ {"session", "invName", "revName", "replied"}
  BY DEF Step, Active, SetupSteps, RegisterSteps, InviteSteps, RevokeSteps
<1>5. CASE SetupBegin(r) BY <1>2, <1>4, <1>5 DEF SetupBegin
<1>6. CASE LockSetup(r) BY <1>2, <1>4, <1>6 DEF LockSetup
<1>7. CASE CountUsers(r)
  <2>1. /\ pc[r] = "setupCount" /\ users' = users
        /\ Goto(r, "setupCreate") \/ (Rows # {} /\ Reply(r, 409))
    BY <1>7 DEF CountUsers
  <2>2. arg[r].op = "setup" /\ users[arg[r].uid] = NULL
    BY <1>0, <2>1 DEF IInv, ArgsFit, IdsReserved, SetupSteps
  <2>3. Rows # {} => Refused(r) BY <2>2 DEF Refused
  <2> QED BY <1>1, <1>2, <1>4, <2>1, <2>3, RefusesRightly
<1>8. CASE SetupCreate(r)
  BY <1>2, <1>3, <1>4, <1>8 DEF SetupCreate, CreateUser
<1>9. CASE RegisterBegin(r) BY <1>2, <1>4, <1>9 DEF RegisterBegin
<1>10. CASE FindInvite(r)
  <2>1. /\ pc[r] = "regFind" /\ users' = users
        /\ Goto(r, "regCreate") \/ Reply(r, 422)
    BY <1>10 DEF FindInvite
  <2>2. arg[r].op = "register" /\ users[arg[r].uid] = NULL
    BY <1>0, <2>1 DEF IInv, ArgsFit, IdsReserved, RegisterSteps
  <2>3. Refused(r) BY <2>2 DEF Refused
  <2> QED BY <1>1, <1>2, <1>4, <2>1, <2>3, RefusesRightly
<1>11. CASE RegisterCreate(r)
  BY <1>2, <1>3, <1>4, <1>11 DEF RegisterCreate, CreateUser
<1>12. CASE ClaimInvite(r) BY <1>2, <1>3, <1>4, <1>12 DEF ClaimInvite
<1>13. CASE StartSession(r)
  <2>1. Written(r) /\ Reply(r, 201) /\ arg[r].uid \in sessions'
    BY <1>0, <1>13 DEF StartSession, Stands
  <2> QED BY <1>1, <2>1, AnswersRightly
<1>14. CASE InviteName(r)
  <2>1. Written(r) /\ Reply(r, 201) BY <1>0, <1>14 DEF InviteName, Stands
  <2>2. arg[r].uid = NULL BY <1>0, <1>14 DEF InviteName, ArgsFit, InviteSteps
  <2> QED BY <1>1, <2>1, <2>2, AnswersRightly
<1>15. CASE RevokeBegin(r) BY <1>2, <1>4, <1>15 DEF RevokeBegin
<1>16. CASE RevokeName(r)
  <2>1. Written(r) /\ Reply(r, 200) BY <1>0, <1>16 DEF RevokeName, Stands
  <2> QED BY <1>1, <2>1, AnswersRightly
<1>17. CASE Fail(r) BY <1>3, <1>17 DEF Fail
<1> QED BY <1>1, <1>5, <1>6, <1>7, <1>8, <1>9, <1>10, <1>11, <1>12, <1>13, <1>14,
           <1>15, <1>16, <1>17, WritesStand DEF Serve, Writes

\* No session of an account is closed by the account service.
LEMMA SessionsGrow ==
  ASSUME [Next]_vars
  PROVE  sessions \subseteq sessions'
<1>1. ASSUME NEW r \in Req, Start(r) PROVE sessions' = sessions
  BY <1>1 DEF Start, StartSetup, StartRegister, StartInvite, StartRevoke, Begin
<1>2. ASSUME NEW r \in Req, Serve(r) PROVE sessions \subseteq sessions'
  BY <1>2 DEF Serve, SetupBegin, LockSetup, CountUsers, SetupCreate, CreateUser, SetupCommit,
     RegisterBegin, FindInvite, RegisterCreate, ClaimInvite, RegisterCommit, StartSession,
     CreateInvite, InviteName, RevokeBegin, RevokeInvite, RevokeName
<1>3. ASSUME NEW r \in Req, Fail(r) \/ Return(r) PROVE sessions' = sessions
  BY <1>3 DEF Fail, Return
<1>4. CASE Crash \/ Tick \/ UNCHANGED vars BY <1>4 DEF Crash, Tick, vars
<1> QED BY <1>1, <1>2, <1>3, <1>4 DEF Next

LEMMA AnswersStandStep ==
  ASSUME IInv, [Next]_vars
  PROVE  AnswersStand'
<1>0. TypeOK /\ sessions \subseteq sessions' BY SessionsGrow DEF IInv
<1>1. \A q \in Req : Stands(q) BY DEF IInv, AnswersStand, Stands
<1>2. SUFFICES ASSUME NEW q \in Req PROVE Stands(q)'
  BY DEF AnswersStand, Stands
<1>3. ASSUME NEW r \in Req, Serve(r) \/ Fail(r) PROVE Stands(q)'
  <2>1. CASE q = r BY <1>3, <2>1, ServeStands
  <2>2. CASE q # r
    <3>1. pc'[q] = pc[q] /\ arg'[q] = arg[q] BY <1>0, <1>3, <2>2, ServeFrame DEF Frame
    <3>2. arg[q].op \in {"setup", "register"} => users'[arg[q].uid] = users[arg[q].uid]
      BY <1>3, <2>2, OthersIds
    <3> QED BY <1>0, <1>1, <3>1, <3>2, KeepsStanding
  <2> QED BY <2>1, <2>2
<1>4. CASE \/ \E r \in Req : Start(r) \/ Return(r)
           \/ Crash \/ Tick \/ UNCHANGED vars
  <2>1. /\ users' = users
        /\ \/ pc'[q] = pc[q] /\ arg'[q] = arg[q]
           \/ pc'[q] \in {"idle", "setupBegin", "regBegin", "invInsert", "revBegin"}
    BY <1>0, <1>4, OutsideTx
  <2>2. CASE pc'[q] = pc[q] /\ arg'[q] = arg[q]
    BY <1>0, <1>1, <2>1, <2>2, KeepsStanding
  <2>3. CASE pc'[q] \in {"idle", "setupBegin", "regBegin", "invInsert", "revBegin"}
    BY <2>3, NothingPromised
  <2> QED BY <2>1, <2>2, <2>3
<1> QED BY <1>3, <1>4 DEF Next

\* What stands for a request is what its answer says.
LEMMA StandingIsTruth == IInv => RepliesTruthful
<1>1. SUFFICES ASSUME IInv, NEW r \in Req, pc[r] = "replied"
               PROVE  LET a == arg[r] IN
      /\ a.op = "setup" =>
           /\ a.status = 201 =>
                a.uid \in sessions /\ users[a.uid] = UserRow(r, "admin")
           /\ a.status = 409 => users[a.uid] = NULL /\ Rows # {}
      /\ a.op = "register" =>
           /\ a.status = 201 =>
                /\ a.uid \in sessions
                /\ users[a.uid] = UserRow(r, "member")
                /\ invites[a.inv].usedBy = a.uid
           /\ a.status = 422 => users[a.uid] = NULL
      /\ a.op = "invite" /\ a.status = 201 =>
           /\ a.inv \in Known
           /\ invites[a.inv].email = BoundTo(a.addr)
      /\ a.op = "revoke" =>
           /\ a.status = 200 =>
                /\ invites[a.inv].revokedAt = a.at
                /\ invites[a.inv].usedAt = NULL
           /\ a.status = 409 => a.inv = NULL \/ ~Unsettled(a.inv)
  BY DEF RepliesTruthful
<1>2. /\ arg[r].status \in {200, 201} => Written(r)
      /\ arg[r].status = 201 /\ arg[r].uid # NULL => arg[r].uid \in sessions
      /\ arg[r].status \in {409, 422} => Refused(r)
  BY <1>1 DEF IInv, AnswersStand
<1>3. /\ arg[r].op \in {"setup", "register"} => arg[r].uid # NULL
      /\ arg[r].op = "revoke" => arg[r].inv \in Known \cup {NULL}
  BY <1>1 DEF IInv, ArgsFit
<1> HIDE DEF UserRow
<1> QED BY <1>2, <1>3 DEF Written, Refused

-----------------------------------------------------------------------------
(* The invariant and what it gives *)

LEMMA InitInv == Init => IInv
<1>1. SUFFICES ASSUME Init PROVE IInv OBVIOUS
<1>2. TypeOK BY <1>1, InitTyped
<1>3. Rows = {} /\ Known = {} BY <1>1 DEF Init, Rows, Known
<1>4. \A r \in Req : pc[r] = "idle" /\ arg[r] = NoArg /\ now = 0 BY <1>1 DEF Init
<1>5. ArgsFit
  BY <1>4 DEF ArgsFit, NoArg, Asked, SetupSteps, RegisterSteps, InviteSteps, RevokeSteps
<1>6. IdsReserved
  BY <1>4 DEF IdsReserved, NoArg, Asked, SetupSteps, RegisterSteps
<1>7. SetupSerial /\ PendingDistinct /\ ClaimSound
  BY <1>4 DEF SetupSerial, HoldsSetupLock, PendingDistinct, PendingUser, ClaimSound
<1>8. InvitesHaveAdmin /\ OneAdmin /\ AdmissionByInvite /\ EmailsDistinct
  BY <1>3 DEF InvitesHaveAdmin, OneAdmin, AdmissionByInvite, EmailsDistinct, IsAdmin, Rows
<1>9. AnswersStand BY <1>4 DEF AnswersStand
<1> QED BY <1>2, <1>5, <1>6, <1>7, <1>8, <1>9 DEF IInv

LEMMA StepInv == IInv /\ [Next]_vars => IInv'
BY TypeStep, ArgsFitStep, IdsReservedStep, SetupSerialStep, InvitesHaveAdminStep,
   PendingDistinctStep, ClaimSoundStep, OneAdminStep, AdmissionStep, EmailsDistinctStep,
   AnswersStandStep
DEF IInv

\* The inductive invariant of the account service: it holds at first, and
\* every statement, commit, failure, crash and tick of the clock keeps it.
THEOREM Invariance == Spec => []IInv
BY InitInv, StepInv, PTL DEF Spec

\* Types: every address in the database is a normalised one (normEmail), every
\* column within its SQL type.
THEOREM TypeCorrect == Spec => []TypeOK
<1>1. IInv => TypeOK BY DEF IInv
<1> QED BY <1>1, Invariance, PTL

\* However many setups race, the cellar has one admin, and never an account
\* without an admin (Users.Setup).
THEOREM OneAdminEver == Spec => []OneAdmin
<1>1. IInv => OneAdmin BY DEF IInv
<1> QED BY <1>1, Invariance, PTL

\* However registrations and revocations interleave, members and used invites
\* are in one-to-one correspondence, addresses and expiry respected
\* (Users.Register, Invites.Revoke).
THEOREM MembersWereInvited == Spec => []AdmissionByInvite
<1>1. IInv => AdmissionByInvite BY DEF IInv
<1> QED BY <1>1, Invariance, PTL

\* One account per address, however it is typed (normEmail, users.email unique).
THEOREM OneAccountPerAddress == Spec => []EmailsDistinct
<1>1. IInv => EmailsDistinct BY DEF IInv
<1> QED BY <1>1, Invariance, PTL

\* An invite that has been used or revoked is never touched again, by any
\* number of racing registrations and revocations.
THEOREM SettledInvitesStay == Spec => SettledForGood
<1>1. IInv /\ [Next]_vars =>
        [\A i \in Known : ~Unsettled(i) => invites'[i] = invites[i]]_vars
  BY SettledStep
<1> QED BY <1>1, Invariance, PTL DEF Spec, SettledForGood

\* No answer is a lie, however other requests race with it and whenever the
\* client reads it: a created account, session, invite or revocation is there,
\* a refused request has left nothing (domain/users.go, handler_auth.go,
\* handler_invites.go).
THEOREM AnswersTruthful == Spec => []RepliesTruthful
BY Invariance, StandingIsTruth, PTL

-----------------------------------------------------------------------------
(* Nobody waits in a circle.  A wait leads upwards in Rank, which ends at   *)
(* the commits, and these wait for nothing.                                *)

LEMMA BlockedAt ==
  ASSUME NEW r \in Req, Blocked(r)
  PROVE  pc[r] \in Connecting \cup {"session", "setupLock", "setupCreate", "regCreate",
                                     "regClaim", "revUpdate"}
BY DEF Blocked

\* Only connections in use can exhaust the pool.
LEMMA SomeoneHasConn ==
  ASSUME ~FreeConn
  PROVE  \E q \in Req : HasConn(q)
<1>1. SUFFICES ASSUME \A q \in Req : ~HasConn(q) PROVE FALSE  OBVIOUS
<1>2. {q \in Req : HasConn(q)} = {}  BY <1>1
<1>3. Cardinality({q \in Req : HasConn(q)}) = 0  BY <1>2, FS_EmptySet
<1> QED  BY <1>3, PoolAssumption DEF FreeConn

LEMMA BlockedWaits ==
  ASSUME NEW r \in Req, Blocked(r)
  PROVE  \E q \in Req : WaitsFor(r, q)
<1>1. CASE pc[r] \in Connecting \cup {"session"} /\ ~FreeConn
  BY <1>1, SomeoneHasConn DEF WaitsFor
<1>2. CASE pc[r] = "setupLock" /\ ~SetupLockFree
  BY <1>2 DEF WaitsFor, SetupLockFree
<1>3. CASE pc[r] \in {"setupCreate", "regCreate"} /\ EmailLocked(r)
  BY <1>3 DEF WaitsFor, EmailLocked
<1>4. CASE pc[r] \in {"regClaim", "revUpdate"} /\ InviteLocked(arg[r].inv)
  BY <1>4 DEF WaitsFor, InviteLocked
<1> QED  BY <1>1, <1>2, <1>3, <1>4 DEF Blocked, SessionConn

LEMMA Ranks ==
  /\ \A s \in Connecting \cup {"session"} : Rank(s) = 0
  /\ Rank("setupLock") = 1 /\ Rank("regFind") = 1
  /\ Rank("setupCount") = 2 /\ Rank("setupCreate") = 2 /\ Rank("regCreate") = 2
  /\ Rank("regClaim") = 3 /\ Rank("revUpdate") = 3
  /\ Rank("setupCommit") = 4 /\ Rank("regCommit") = 4
<1>1. \A s \in Connecting \cup {"session"} : Rank(s) = 0  BY DEF Rank, Connecting
<1>2. Rank("setupLock") = 1 /\ Rank("regFind") = 1  BY DEF Rank, Connecting
<1>3. Rank("setupCount") = 2 /\ Rank("setupCreate") = 2 /\ Rank("regCreate") = 2
  BY DEF Rank, Connecting
<1>4. Rank("regClaim") = 3 /\ Rank("revUpdate") = 3  BY DEF Rank, Connecting
<1>5. Rank("setupCommit") = 4 /\ Rank("regCommit") = 4  BY DEF Rank, Connecting
<1> QED  BY <1>1, <1>2, <1>3, <1>4, <1>5

\* Where the holder of a connection can be: past its wait for one.
LEMMA ConnAt ==
  ASSUME NEW q \in Req, HasConn(q)
  PROVE  /\ pc[q] \in {"setupLock", "regFind", "setupCount", "setupCreate", "regCreate",
                       "regClaim", "revUpdate", "setupCommit", "regCommit"}
         /\ pc[q] \in Active
<1>1. pc[q] \in {"setupLock", "regFind", "setupCount", "setupCreate", "regCreate",
                "regClaim", "revUpdate", "setupCommit", "regCommit"}
  BY DEF HasConn, InTx, SetupSteps, RegisterSteps
<1> QED  BY <1>1 DEF Active, SetupSteps, RegisterSteps, RevokeSteps

LEMMA WaitsUpwards ==
  ASSUME NEW r \in Req, NEW q \in Req, WaitsFor(r, q)
  PROVE  pc[q] \in Active /\ Rank(pc[r]) < Rank(pc[q])
<1>1. CASE pc[r] \in Connecting \cup {"session"} /\ HasConn(q)
  <2>1. Rank(pc[r]) = 0  BY <1>1, Ranks
  <2>2. Rank(pc[q]) \in 1 .. 4  BY <1>1, ConnAt, Ranks
  <2> QED  BY <1>1, <2>1, <2>2, ConnAt
<1>2. CASE pc[r] = "setupLock" /\ HoldsSetupLock(q)
  BY <1>2, Ranks DEF HoldsSetupLock, Active, SetupSteps
<1>3. CASE pc[r] \in {"setupCreate", "regCreate"} /\ PendingUser(q)
  BY <1>3, Ranks DEF PendingUser, Active, SetupSteps, RegisterSteps
<1>4. CASE pc[r] \in {"regClaim", "revUpdate"} /\ pc[q] = "regCommit"
  BY <1>4, Ranks DEF Active, RegisterSteps
<1> QED  BY <1>1, <1>2, <1>3, <1>4 DEF WaitsFor

LEMMA ActiveRanked ==
  ASSUME NEW r \in Req, pc[r] \in Active
  PROVE  Rank(pc[r]) \in 0 .. 4
<1>1. pc[r] \in Connecting \cup {"session", "setupLock", "regFind", "setupCount",
                "setupCreate", "regCreate", "regClaim", "revUpdate", "setupCommit", "regCommit"}
  BY DEF Active, SetupSteps, RegisterSteps, InviteSteps, RevokeSteps, Connecting
<1>2. CASE pc[r] \in Connecting \cup {"session"}  BY <1>2, Ranks
<1>3. CASE pc[r] \notin Connecting \cup {"session"}  BY <1>1, <1>3, Ranks
<1> QED  BY <1>2, <1>3

\* Behind r there is a request that can go on.
CanGoOn(r) ==
  \E q \in Req : pc[q] \in Active /\ ~Blocked(q) /\ Rank(pc[r]) < Rank(pc[q])

\* Following the waits at most four times leads to a request that can go on.
LEMMA WaitsEnd ==
  ASSUME NEW r \in Req, Blocked(r)
  PROVE  CanGoOn(r)
<1> DEFINE Ahead(q, p) == /\ pc[p] \in Active /\ Rank(pc[q]) < Rank(pc[p])
                          /\ Blocked(p) => Rank(pc[p]) \in 0 .. 3
<1> HIDE DEF Ahead
<1>1. ASSUME NEW q \in Req, Blocked(q)
      PROVE  Rank(pc[q]) \in 0 .. 3
  BY <1>1, BlockedAt, Ranks
<1>2. ASSUME NEW q \in Req, Blocked(q)
      PROVE  \E p \in Req : Ahead(q, p)
  <2>1. PICK p \in Req : WaitsFor(q, p)  BY <1>2, BlockedWaits
  <2>2. pc[p] \in Active /\ Rank(pc[q]) < Rank(pc[p])  BY <2>1, WaitsUpwards
  <2> QED  BY <1>1, <2>2 DEF Ahead
<1>3. ASSUME NEW n \in 0 .. 3,
             \A q \in Req : Blocked(q) /\ n < Rank(pc[q]) => CanGoOn(q),
             NEW q \in Req, Blocked(q), Rank(pc[q]) = n
      PROVE  CanGoOn(q)
  <2>0. Blocked(q)  BY <1>3
  <2>1. PICK p \in Req : Ahead(q, p)  BY <1>2, <2>0
  <2> USE DEF Ahead
  <2>2. CASE ~Blocked(p)  BY <2>1, <2>2 DEF CanGoOn
  <2>3. CASE Blocked(p)
    <3>1. CanGoOn(p)  BY <1>3, <2>1, <2>3
    <3>2. PICK u \in Req : pc[u] \in Active /\ ~Blocked(u) /\ Rank(pc[p]) < Rank(pc[u])
      BY <3>1 DEF CanGoOn
    <3>3. Rank(pc[u]) \in 0 .. 4  BY <3>2, ActiveRanked
    <3>4. Rank(pc[q]) < Rank(pc[u])  BY <1>3, <2>1, <2>3, <3>2, <3>3
    <3> QED  BY <3>2, <3>4 DEF CanGoOn
  <2> QED  BY <2>2, <2>3
<1>4. \A q \in Req : Blocked(q) /\ 3 < Rank(pc[q]) => CanGoOn(q)  BY <1>1
<1>5. \A q \in Req : Blocked(q) /\ 2 < Rank(pc[q]) => CanGoOn(q)  BY <1>1, <1>3, <1>4
<1>6. \A q \in Req : Blocked(q) /\ 1 < Rank(pc[q]) => CanGoOn(q)  BY <1>1, <1>3, <1>5
<1>7. \A q \in Req : Blocked(q) /\ 0 < Rank(pc[q]) => CanGoOn(q)  BY <1>1, <1>3, <1>6
<1> QED  BY <1>1, <1>3, <1>7

\* Blocked says no more than the guards do.
LEMMA BlockedServesNot ==
  ASSUME NEW r \in Req, Blocked(r)
  PROVE  ~Serve(r)
<1> USE DEF Blocked, Connecting
<1>1. ~SetupBegin(r)  BY DEF SetupBegin
<1>2. ~LockSetup(r)  BY DEF LockSetup
<1>3. ~CountUsers(r)  BY DEF CountUsers
<1>4. ~SetupCreate(r)  BY DEF SetupCreate, CreateUser
<1>5. ~SetupCommit(r)  BY DEF SetupCommit
<1>6. ~RegisterBegin(r)  BY DEF RegisterBegin
<1>7. ~FindInvite(r)  BY DEF FindInvite
<1>8. ~RegisterCreate(r)  BY DEF RegisterCreate, CreateUser
<1>9. ~ClaimInvite(r)  BY DEF ClaimInvite
<1>10. ~RegisterCommit(r)  BY DEF RegisterCommit
<1>11. ~StartSession(r)  BY DEF StartSession
<1>12. ~CreateInvite(r)  BY DEF CreateInvite
<1>13. ~InviteName(r)  BY DEF InviteName
<1>14. ~RevokeBegin(r)  BY DEF RevokeBegin
<1>15. ~RevokeInvite(r)  BY DEF RevokeInvite
<1>16. ~RevokeName(r)  BY DEF RevokeName
<1> QED  BY <1>1, <1>2, <1>3, <1>4, <1>5, <1>6, <1>7, <1>8,
             <1>9, <1>10, <1>11, <1>12, <1>13, <1>14, <1>15, <1>16 DEF Serve

\* No deadlock, for any number of requests on any pool: whoever waits for a
\* connection, the setup lock, an e-mail address or an invite row waits for one
\* who is further on, and behind every wait there is a request that can go on.
THEOREM NoDeadlock ==
  Spec => []NobodyStandsStill /\ [][\A r \in Req : Blocked(r) => ~Serve(r)]_vars
<1>1. NobodyStandsStill
  BY BlockedWaits, WaitsUpwards, WaitsEnd DEF NobodyStandsStill, CanGoOn
<1>2. [\A r \in Req : Blocked(r) => ~Serve(r)]_vars  BY BlockedServesNot
<1> QED  BY <1>1, <1>2, PTL

-----------------------------------------------------------------------------
(* Accounts implements Admission: a commit that writes a row is the atomic *)
(* step of the contract it is named after, and everything else stutters.   *)


LEMMA InitContract == Init => Contract!Init
BY DEF Init, Contract!Init, Contract!NoTicket, AddressesOf, Rows, TicketOf

\* The contract sees nothing but the clock and the rows.
LEMMA Stutter ==
  ASSUME users' = users, invites' = invites, now' = now
  PROVE  UNCHANGED Contract!vars
BY DEF Contract!vars, AddressesOf, Rows, TicketOf

LEMMA TickTicks ==
  ASSUME Tick
  PROVE  Contract!Tick
BY DEF Tick, Contract!Tick, AddressesOf, Rows, TicketOf

LEMMA SetupFounds ==
  ASSUME IInv, NEW r \in Req, SetupCommit(r)
  PROVE  Contract!FoundCellar(normEmail(arg[r].addr))
<1> DEFINE e == normEmail(arg[r].addr)
<1>1. /\ Rows = {} /\ Rows' = {arg[r].uid}
      /\ users'[arg[r].uid] = UserRow(r, "admin")
  BY SetupCommitAlone
<1>2. UserRow(r, "admin").email = e /\ UserRow(r, "admin").role = "admin"
  BY DEF UserRow
<1>3. AddressesOf("admin") = {} /\ AddressesOf("member") = {}
  BY <1>1 DEF AddressesOf
<1> HIDE DEF UserRow, e
<1>4. AddressesOf("admin")' = {e} /\ AddressesOf("member")' = {}
  BY <1>1, <1>2 DEF AddressesOf
<1>5. now' = now /\ [i \in InviteId |-> TicketOf(invites[i])]' = [i \in InviteId |-> TicketOf(invites[i])]
  BY DEF SetupCommit
<1> QED BY <1>3, <1>4, <1>5 DEF Contract!FoundCellar, e

LEMMA RegisterAdmits ==
  ASSUME IInv, NEW r \in Req, RegisterCommit(r)
  PROVE  Contract!Admit(arg[r].inv, normEmail(arg[r].addr), arg[r].at)
<1> DEFINE e == normEmail(arg[r].addr)
           i == arg[r].inv
           t == arg[r].at
           u == arg[r].uid
           tickets == [j \in InviteId |-> TicketOf(invites[j])]
<1>0. TypeOK BY DEF IInv
<1>1. /\ u \notin Rows /\ Rows' = Rows \cup {u} /\ users'[u] = UserRow(r, "member")
      /\ \A v \in Rows : users'[v] = users[v] /\ users[v].email # UserRow(r, "member").email
  BY RegisterCommitNew
<1>2. UserRow(r, "member").email = e /\ UserRow(r, "member").role = "member"
  BY DEF UserRow
<1>3. /\ i \in InviteId /\ invites[i] # NULL /\ Used(r) # NULL
      /\ invites' = [invites EXCEPT ![i] = Used(r)]
  BY RegisterCommitRows, RowAssumption DEF IInv, Known
<1>4. Claimable(i, t) /\ ForThisAddress(r) BY DEF IInv, ClaimSound, RegisterCommit
<1>5. t # NULL /\ t <= now BY <1>0, NullAssumption DEF IInv, ArgsFit, TypeOK, Arg
<1>6. /\ Used(r).usedAt = t /\ Used(r).email = invites[i].email
      /\ Used(r).expires = invites[i].expires
  BY DEF Used
<1>7. /\ tickets[i].state = "open" /\ t < tickets[i].expires
      /\ tickets[i].bound \in {NULL, e}
  BY <1>3, <1>4 DEF TicketOf, Claimable, Unsettled, ForThisAddress
<1>8. TicketOf(invites[i]) = [state |-> "open", bound |-> invites[i].email,
                     expires |-> invites[i].expires]
  BY <1>3, <1>4 DEF TicketOf, Claimable, Unsettled
<1> HIDE DEF UserRow, Used, e, i, t, u
<1>9. TicketOf(Used(r)) = [state |-> "used", bound |-> invites[i].email,
                           expires |-> invites[i].expires]
  BY <1>3, <1>5, <1>6 DEF TicketOf
<1>10. TicketOf(Used(r)) = [TicketOf(invites[i]) EXCEPT !.state = "used"]
  BY <1>8, <1>9
<1>11. tickets' = [tickets EXCEPT ![i].state = "used"]
  BY <1>0, <1>3, <1>10 DEF TypeOK
<1>12. AddressesOf("admin")' = AddressesOf("admin")
  BY <1>1, <1>2 DEF AddressesOf
<1>13. AddressesOf("member")' = AddressesOf("member") \cup {e}
  BY <1>1, <1>2 DEF AddressesOf
<1>14. e \notin AddressesOf("admin") \cup AddressesOf("member")
  BY <1>1, <1>2 DEF AddressesOf
<1>15. now' = now BY DEF RegisterCommit
<1> QED BY <1>5, <1>7, <1>11, <1>12, <1>13, <1>14, <1>15
    DEF Contract!Admit, e, i, t

LEMMA CreateIssues ==
  ASSUME IInv, NEW r \in Req, CreateInvite(r)
  PROVE  Contract!Issue(arg[r].inv, BoundTo(arg[r].addr), arg[r].at)
<1> DEFINE i == arg[r].inv
           tickets == [j \in InviteId |-> TicketOf(invites[j])]
<1>0. TypeOK BY DEF IInv
<1>1. /\ users' = users /\ i \in InviteId /\ InviteRow(r) # NULL
      /\ invites' = [invites EXCEPT ![i] = InviteRow(r)]
  BY CreateInviteRows, RowAssumption DEF IInv
<1>2. invites[i] = NULL BY DEF IInv, IdsReserved, CreateInvite
<1>3. /\ InviteRow(r).usedAt = NULL /\ InviteRow(r).revokedAt = NULL
      /\ InviteRow(r).email = BoundTo(arg[r].addr)
      /\ InviteRow(r).expires = arg[r].at + InviteTTL
  BY DEF InviteRow
<1>4. arg[r].at <= now BY DEF IInv, ArgsFit
<1>5. AddressesOf("admin") # {}
  <2>1. IsAdmin(arg[r].by) /\ arg[r].by \in UserId
    BY <1>0 DEF IInv, ArgsFit, CreateInvite, InviteSteps, TypeOK, Arg
  <2> QED BY <2>1 DEF AddressesOf, IsAdmin, Rows
<1> HIDE DEF InviteRow, i
<1>6. TicketOf(InviteRow(r)) = [state |-> "open", bound |-> BoundTo(arg[r].addr),
                                expires |-> arg[r].at + InviteTTL]
  BY <1>1, <1>3 DEF TicketOf
<1>8. tickets[i].state = "none" BY <1>1, <1>2 DEF TicketOf
<1>9. tickets' = [tickets EXCEPT ![i] =
                    [state |-> "open", bound |-> BoundTo(arg[r].addr),
                     expires |-> arg[r].at + InviteTTL]]
  BY <1>0, <1>1, <1>6 DEF TypeOK
<1>10. /\ AddressesOf("admin")' = AddressesOf("admin")
       /\ AddressesOf("member")' = AddressesOf("member")
  BY <1>1 DEF AddressesOf, Rows
<1>11. now' = now BY DEF CreateInvite
<1> QED BY <1>4, <1>5, <1>8, <1>9, <1>10, <1>11 DEF Contract!Issue, i

LEMMA RevokeRevokes ==
  ASSUME IInv, NEW r \in Req, RevokeInvite(r), invites' # invites
  PROVE  Contract!Revoke(arg[r].inv)
<1> DEFINE i == arg[r].inv
           row == [invites[i] EXCEPT !.revokedAt = arg[r].at]
           tickets == [j \in InviteId |-> TicketOf(invites[j])]
<1>0. TypeOK BY DEF IInv
<1>1. /\ users' = users /\ i \in Known /\ Revocable(i) /\ arg[r].at \in Nat
      /\ row # NULL /\ invites' = [invites EXCEPT ![i] = row]
  BY RevokeInviteRows, RowAssumption DEF IInv
<1>2. i \in InviteId /\ invites[i] # NULL BY <1>1 DEF Known
<1>3. invites[i] \in Invite BY <1>0, <1>2 DEF TypeOK
<1>4. /\ row.usedAt = invites[i].usedAt /\ row.revokedAt = arg[r].at
      /\ row.email = invites[i].email /\ row.expires = invites[i].expires
  BY <1>3 DEF Invite
<1>5. TicketOf(invites[i]) = [state |-> "open", bound |-> invites[i].email,
                     expires |-> invites[i].expires]
  BY <1>1, <1>2 DEF TicketOf, Revocable, Unsettled
<1>6. row.usedAt = NULL /\ row.revokedAt # NULL
  BY <1>1, <1>4, NullAssumption DEF Revocable, Unsettled
<1> HIDE DEF row
<1>7. TicketOf(row) = [state |-> "revoked", bound |-> invites[i].email,
                       expires |-> invites[i].expires]
  BY <1>1, <1>4, <1>6 DEF TicketOf
<1>8. TicketOf(row) = [TicketOf(invites[i]) EXCEPT !.state = "revoked"]
  BY <1>5, <1>7
<1> HIDE DEF i
<1>9. tickets[i].state = "open" BY <1>2, <1>5
<1>10. tickets' = [tickets EXCEPT ![i].state = "revoked"]
  BY <1>0, <1>1, <1>2, <1>8 DEF TypeOK
<1>11. /\ AddressesOf("admin")' = AddressesOf("admin")
       /\ AddressesOf("member")' = AddressesOf("member")
  BY <1>1 DEF AddressesOf, Rows
<1>12. now' = now BY DEF RevokeInvite
<1> QED BY <1>9, <1>10, <1>11, <1>12 DEF Contract!Revoke, i

\* Which witness each contract step is taken with.
LEMMA StepContract ==
  ASSUME IInv, [Next]_vars
  PROVE  [Contract!Next]_Contract!vars
<1>0. TypeOK /\ ArgsFit /\ ClaimSound BY DEF IInv
<1>1. CASE users' = users /\ invites' = invites /\ now' = now BY <1>1, Stutter
<1>2. CASE Tick BY <1>2, TickTicks DEF Contract!Next
<1>3. ASSUME NEW r \in Req, SetupCommit(r) PROVE Contract!Next
  <2>1. normEmail(arg[r].addr) \in Contract!Emails
    BY <1>0, <1>3, SetupCommitRows, NormType DEF Contract!Emails, Emails
  <2> QED BY <1>3, <2>1, SetupFounds DEF Contract!Next
<1>4. ASSUME NEW r \in Req, RegisterCommit(r) PROVE Contract!Next
  <2>1. normEmail(arg[r].addr) \in Contract!Emails /\ arg[r].inv \in InviteId
    BY <1>0, <1>4, RegisterCommitRows, NormType DEF Contract!Emails, Emails, Known
  <2>2. arg[r].at \in 0..MaxTime
    BY <1>0, TimeAssumption DEF ArgsFit, TypeOK, Arg
  <2> QED BY <1>4, <2>1, <2>2, RegisterAdmits DEF Contract!Next
<1>5. ASSUME NEW r \in Req, CreateInvite(r) PROVE Contract!Next
  <2>1. BoundTo(arg[r].addr) \in Contract!Emails \cup {NULL} /\ arg[r].inv \in InviteId
    BY <1>0, <1>5, CreateInviteRows, BoundType DEF Contract!Emails, Emails, Bound, TypeOK, Arg
  <2>2. arg[r].at \in 0..MaxTime
    BY <1>0, TimeAssumption DEF ArgsFit, TypeOK, Arg
  <2> QED BY <1>5, <2>1, <2>2, CreateIssues DEF Contract!Next
<1>6. ASSUME NEW r \in Req, RevokeInvite(r), invites' # invites PROVE Contract!Next
  <2>1. arg[r].inv \in InviteId BY <1>0, <1>6, RevokeInviteRows DEF Known
  <2> QED BY <1>6, <2>1, RevokeRevokes DEF Contract!Next
<1>7. ASSUME NEW r \in Req, RevokeInvite(r) PROVE users' = users /\ now' = now
  BY <1>7 DEF RevokeInvite
<1>8. ASSUME NEW r \in Req, Start(r) \/ Moves(r) \/ StartSession(r) \/ Return(r)
      PROVE  users' = users /\ invites' = invites /\ now' = now
  <2>1. now' = now
    <3>1. CASE Start(r)
      BY <3>1 DEF Start, StartSetup, StartRegister, StartInvite, StartRevoke, Begin
    <3>2. CASE Moves(r) \/ StartSession(r)
      BY <1>0, <3>2, ServeFrame DEF Moves, Serve, Frame
    <3>3. CASE Return(r) BY <3>3 DEF Return
    <3> QED BY <1>8, <3>1, <3>2, <3>3
  <2> QED BY <1>8, <2>1, OtherRows
<1>9. CASE Crash \/ UNCHANGED vars BY <1>1, <1>9 DEF Crash, vars
<1> QED BY <1>1, <1>2, <1>3, <1>4, <1>5, <1>6, <1>7, <1>8, <1>9
    DEF Next, Serve, Moves

\* Setup, invitation, registration and revocation, each several statements on
\* shared rows, behave as the four indivisible operations of Admission.
THEOREM Implements == Spec => ImplementsAdmission
<1>1. IInv /\ [Next]_vars => [Contract!Next]_Contract!vars BY StepContract
<1> QED BY <1>1, InitContract, Invariance, PTL DEF Spec, ImplementsAdmission, Contract!Spec
=============================================================================
