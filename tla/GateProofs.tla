----------------------------- MODULE GateProofs -----------------------------
(* The inductive invariant of Gate, and what follows from it for any       *)
(* number of clients and requests.                                         *)
EXTENDS Gate, TLAPS

LEMMA NullIsNobody == NULL \notin Client /\ NULL \notin Nat /\ NULL # "admin"
BY NullAssumption

LEMMA HalfIsNat == Half \in Nat
BY ClockAssumption DEF Half

-----------------------------------------------------------------------------
(* Requests and their records *)

LEMMA SentType ==
  ASSUME NEW c \in Opt(Client), NEW bearer \in BOOLEAN, NEW origin \in BOOLEAN,
         NEW op \in Op \cup {"none"}, NEW bound \in BOOLEAN, NEW t \in Nat
  PROVE  Sent(c, bearer, origin, op, bound, t) \in Arg
BY DEF Sent, Arg, Principal, Opt

LEMMA NoArgType == NoArg \in Arg
<1>1. NULL \in Opt(Client) /\ "none" \in Op \cup {"none"} /\ 0 \in Nat  BY DEF Opt
<1> QED  BY <1>1, SentType DEF NoArg

LEMMA NoArgFields ==
  NoArg.bearer = FALSE /\ NoArg.principal = NULL /\ NoArg.cookie = NULL
BY DEF NoArg, Sent

LEMMA StatusType ==
  ASSUME NEW a \in Arg, NEW s \in {0, 200, 400, 401, 403}
  PROVE  [a EXCEPT !.status = s] \in Arg
BY DEF Arg

LEMMA CookieType ==
  ASSUME NEW a \in Arg, NEW k \in Opt(Nat)
  PROVE  [a EXCEPT !.cookie = k] \in Arg
BY DEF Arg

LEMMA CallerType ==
  ASSUME NEW a \in Arg, NEW e \in Nat, NEW p \in Principal
  PROVE  [a EXCEPT !.exp = e, !.principal = p] \in Arg
<1>1. PICK b : b = [a EXCEPT !.exp = e]  OBVIOUS
<1>2. b \in Arg  BY <1>1 DEF Arg
<1>3. [b EXCEPT !.principal = p] \in Arg  BY <1>2 DEF Arg
<1>4. [b EXCEPT !.principal = p] = [a EXCEPT !.exp = e, !.principal = p]  BY <1>1
<1> QED  BY <1>3, <1>4

LEMMA ArgFields ==
  ASSUME NEW a \in Arg
  PROVE  /\ a.client \in Opt(Client) /\ a.bearer \in BOOLEAN /\ a.origin \in BOOLEAN
         /\ a.start \in Nat /\ a.exp \in Nat /\ a.principal \in Principal
         /\ a.cookie \in Opt(Nat) /\ a.status \in {0, 200, 400, 401, 403}
BY DEF Arg

-----------------------------------------------------------------------------
(* Initially *)

LEMMA InitIInv == Init => IInv
<1> SUFFICES ASSUME Init PROVE IInv  OBVIOUS
<1> USE NullIsNobody, ClockAssumption
<1>1. TypeOK  BY NoArgType DEF Init, TypeOK, Opt
<1>2. \A r \in Req : ArgFits(r) /\ CookieCovers(r)
  BY DEF Init, ArgFits, CookieCovers, NoArg, Sent
<1>3. \A c \in Client : RowCarried(c)  BY DEF Init, RowCarried
<1> QED  BY <1>1, <1>2, <1>3 DEF IInv

-----------------------------------------------------------------------------
(* Steps of a request *)

\* The types of what a step of a request changes beside row and jar.
LEMMA RequestTypes ==
  ASSUME TypeOK, NEW r \in Req, NEW a \in Arg,
         NEW p \in {"idle", "resolve", "touch", "admit", "replied"},
         pc' = [pc EXCEPT ![r] = p], arg' = [arg EXCEPT ![r] = a],
         UNCHANGED <<now, role>>, slipped' \in SUBSET Client,
         row' \in [Client -> Opt(Nat)], jar' \in [Client -> Nat],
         \A c \in Client : row'[c] # NULL => row'[c] <= now + SessionTTL,
         \A c \in Client : jar'[c] <= now + SessionTTL
  PROVE  TypeOK'
BY DEF TypeOK

\* A step of r leaves the other requests as they are, and what they carry.
LEMMA OthersUnmoved ==
  ASSUME TypeOK, NEW r \in Req, NEW p, NEW a,
         pc' = [pc EXCEPT ![r] = p], arg' = [arg EXCEPT ![r] = a],
         UNCHANGED <<now, role>>
  PROVE  /\ pc'[r] = p /\ arg'[r] = a
         /\ \A q \in Req \ {r} :
              /\ pc'[q] = pc[q] /\ arg'[q] = arg[q]
              /\ ArgFits(q) => ArgFits(q)'
              /\ \A c \in Client : Carries(q, c) <=> Carries(q, c)'
<1>1. pc'[r] = p /\ arg'[r] = a  BY DEF TypeOK
<1>2. \A q \in Req \ {r} : pc'[q] = pc[q] /\ arg'[q] = arg[q]  BY DEF TypeOK
<1>3. ASSUME NEW q \in Req \ {r}
      PROVE  /\ ArgFits(q) => ArgFits(q)'
             /\ \A c \in Client : Carries(q, c) <=> Carries(q, c)'
  BY <1>2 DEF ArgFits, Carries, OriginWrong, NearExpiry
<1> QED  BY <1>1, <1>2, <1>3

LEMMA SendStep ==
  ASSUME IInv, NEW r \in Req, NEW c \in Opt(Client), NEW bearer \in BOOLEAN,
         NEW origin \in BOOLEAN, NEW op \in Op, NEW bound \in BOOLEAN,
         Send(r, c, bearer, origin, op, bound)
  PROVE  IInv'
<1> DEFINE a == Sent(c, bearer, origin, op, bound, now)
<1> USE NullIsNobody, ClockAssumption
<1>1. /\ TypeOK /\ pc[r] = "idle"
      /\ pc' = [pc EXCEPT ![r] = "resolve"] /\ arg' = [arg EXCEPT ![r] = a]
      /\ UNCHANGED <<now, role, row, jar, slipped>>
  BY DEF IInv, Send
<1>2. a \in Arg
  <2>1. now \in Nat  BY <1>1 DEF TypeOK
  <2> QED  BY <2>1, SentType
<1>3. TypeOK'  BY <1>1, <1>2, RequestTypes DEF TypeOK
<1>4. /\ a.client = c /\ a.start = now /\ a.principal = NULL /\ a.cookie = NULL
  BY DEF Sent
<1> HIDE DEF a
<1>5. /\ pc'[r] = "resolve" /\ arg'[r] = a
      /\ \A q \in Req \ {r} : /\ pc'[q] = pc[q] /\ arg'[q] = arg[q]
                              /\ ArgFits(q) => ArgFits(q)'
                              /\ \A d \in Client : Carries(q, d) <=> Carries(q, d)'
  BY <1>1, OthersUnmoved
<1>6. ASSUME NEW q \in Req PROVE ArgFits(q)' /\ CookieCovers(q)'
  <2>1. CASE q = r
    <3>1. now \in Nat /\ now <= now + Timeout  BY <1>1 DEF TypeOK
    <3> QED  BY <1>1, <1>4, <1>5, <2>1, <3>1 DEF ArgFits, CookieCovers
  <2>2. CASE q # r  BY <1>1, <1>5, <2>2 DEF IInv, CookieCovers
  <2> QED  BY <2>1, <2>2
<1>7. ASSUME NEW d \in Client \ slipped' PROVE RowCarried(d)'
  <2>1. RowCarried(d)  BY <1>1 DEF IInv
  <2>2. ~Carries(r, d)  BY <1>1 DEF Carries
  <2> QED  BY <1>1, <1>5, <2>1, <2>2 DEF RowCarried
<1> QED  BY <1>3, <1>6, <1>7 DEF IInv

\* What a step of r has to show when it leaves the rows and the cookies alone:
\* that r fits where it arrives, and that it carries on what it carried.
LEMMA RequestStep ==
  ASSUME IInv, NEW r \in Req, NEW a \in Arg,
         NEW p \in {"idle", "resolve", "touch", "admit", "replied"},
         pc' = [pc EXCEPT ![r] = p], arg' = [arg EXCEPT ![r] = a],
         UNCHANGED <<now, role, row, jar, slipped>>,
         ArgFits(r)', CookieCovers(r)',
         \A c \in Client : Carries(r, c) => Carries(r, c)'
  PROVE  IInv'
<1>1. TypeOK  BY DEF IInv
<1>2. TypeOK'  BY <1>1, RequestTypes DEF TypeOK
<1>3. \A q \in Req \ {r} : /\ pc'[q] = pc[q] /\ arg'[q] = arg[q]
                           /\ ArgFits(q) => ArgFits(q)'
                           /\ \A d \in Client : Carries(q, d) <=> Carries(q, d)'
  BY <1>1, OthersUnmoved
<1>4. ASSUME NEW q \in Req PROVE ArgFits(q)' /\ CookieCovers(q)'
  BY <1>3 DEF IInv, CookieCovers
<1>5. ASSUME NEW d \in Client \ slipped' PROVE RowCarried(d)'
  <2>1. RowCarried(d)  BY DEF IInv
  <2>2. ASSUME NEW q \in Req, Carries(q, d) PROVE Carries(q, d)'
    <3>1. CASE q = r  BY <2>2, <3>1 DEF Carries
    <3>2. CASE q # r
      <4>1. pc'[q] = pc[q] /\ arg'[q] = arg[q] /\ now' = now  BY <1>3, <3>2
      <4> QED  BY <2>2, <4>1 DEF Carries, OriginWrong, NearExpiry
    <3> QED  BY <3>1, <3>2
  <2>3. row'[d] = row[d] /\ jar'[d] = jar[d]  OBVIOUS
  <2> QED  BY <2>1, <2>2, <2>3 DEF RowCarried
<1> QED  BY <1>2, <1>4, <1>5 DEF IInv

LEMMA ResolveStep ==
  ASSUME IInv, NEW r \in Req, Resolve(r)
  PROVE  IInv'
<1> USE NullIsNobody, ClockAssumption
<1>1. /\ TypeOK /\ ArgFits(r) /\ pc[r] = "resolve" /\ arg[r] \in Arg
      /\ UNCHANGED <<now, role, row, jar, slipped>>
  BY DEF IInv, Resolve, TypeOK
<1>2. arg[r].cookie = NULL /\ \A c \in Client : ~Carries(r, c)
  BY <1>1 DEF ArgFits, Carries
<1>3. CASE arg[r].bearer /\ Reply(r, 401)
  <2> DEFINE a == [arg[r] EXCEPT !.status = 401]
  <2>1. a \in Arg
    <3>1. \A b \in Arg : [b EXCEPT !.status = 401] \in Arg  BY DEF Arg
    <3> QED  BY <1>1, <3>1
  <2>2. pc' = [pc EXCEPT ![r] = "replied"] /\ arg' = [arg EXCEPT ![r] = a]
    BY <1>3 DEF Reply
  <2>3. pc'[r] = "replied" /\ arg'[r] = a  BY <1>1, <2>2 DEF TypeOK
  <2>4. /\ a.status = 401 /\ a.start = arg[r].start /\ a.cookie = arg[r].cookie
        /\ a.client = arg[r].client /\ a.principal = arg[r].principal
        /\ a.bearer = arg[r].bearer
    BY <1>1 DEF Arg
  <2> HIDE DEF a
  <2>5. ArgFits(r)' /\ CookieCovers(r)'
    BY <1>1, <1>2, <1>3, <2>3, <2>4 DEF ArgFits, CookieCovers
  <2> QED  BY <1>1, <1>2, <2>1, <2>2, <2>5, RequestStep
<1>4. CASE ~arg[r].bearer /\ Goto(r, "admit")
  <2>1. pc' = [pc EXCEPT ![r] = "admit"] /\ arg' = [arg EXCEPT ![r] = arg[r]]
    BY <1>1, <1>4 DEF Goto, TypeOK
  <2>2. pc'[r] = "admit" /\ arg'[r] = arg[r]  BY <1>1, <2>1 DEF TypeOK
  <2>3. ArgFits(r)' /\ CookieCovers(r)'
    BY <1>1, <1>2, <1>4, <2>2 DEF ArgFits, CookieCovers
  <2> QED  BY <1>1, <1>2, <2>1, <2>3, RequestStep
<1>5. CASE ~(arg[r].bearer /\ Reply(r, 401)) /\ ~(~arg[r].bearer /\ Goto(r, "admit"))
  <2> DEFINE c == arg[r].client
             a == [arg[r] EXCEPT !.exp = row[c], !.principal = role[c]]
             p == IF NearExpiry(row[c]) THEN "touch" ELSE "admit"
  <2>1. /\ ~arg[r].bearer /\ c # NULL /\ row[c] # NULL
        /\ pc' = [pc EXCEPT ![r] = p] /\ arg' = [arg EXCEPT ![r] = a]
    BY <1>5 DEF Resolve, Valid
  <2>2. c \in Client /\ row[c] \in Nat /\ role[c] \in Principal /\ role[c] # NULL
    <3>1. c \in Client  BY <1>1, <2>1, ArgFields DEF Opt
    <3>2. row[c] \in Nat /\ role[c] \in {"admin", "member"}
      BY <1>1, <2>1, <3>1 DEF TypeOK, Opt
    <3>3. NULL # "admin" /\ NULL # "member"  BY NullAssumption
    <3> QED  BY <3>1, <3>2, <3>3 DEF Principal, Opt
  <2>3. a \in Arg  BY <1>1, <2>2, CallerType
  <2>4. /\ a.exp = row[c] /\ a.principal = role[c] /\ a.client = c
        /\ a.start = arg[r].start /\ a.cookie = arg[r].cookie /\ a.bearer = arg[r].bearer
    BY <1>1 DEF Arg
  <2>5. pc'[r] = p /\ arg'[r] = a  BY <1>1, <2>1 DEF TypeOK
  <2> HIDE DEF a
  <2>6. p \in {"touch", "admit"} /\ (p = "touch" => NearExpiry(row[c]))  OBVIOUS
  <2> HIDE DEF p
  <2>7. ArgFits(r)'
    BY <1>1, <1>2, <2>1, <2>2, <2>4, <2>5, <2>6 DEF ArgFits, NearExpiry
  <2>8. CookieCovers(r)'  BY <1>2, <2>4, <2>5 DEF CookieCovers
  <2>9. p \in {"idle", "resolve", "touch", "admit", "replied"}  BY <2>6
  <2> QED  BY <1>1, <1>2, <2>1, <2>3, <2>7, <2>8, <2>9, RequestStep
<1> QED  BY <1>3, <1>4, <1>5

LEMMA TouchStep ==
  ASSUME IInv, NEW r \in Req, Touch(r)
  PROVE  IInv'
<1> USE NullIsNobody, ClockAssumption
<1> DEFINE c == arg[r].client
           until == now + SessionTTL
<1>1. /\ TypeOK /\ ArgFits(r) /\ pc[r] = "touch" /\ arg[r] \in Arg /\ now \in Nat
      /\ UNCHANGED <<now, role, jar, slipped>>
      /\ \/ row' = row
         \/ row[c] # NULL /\ row' = [row EXCEPT ![c] = until]
  BY DEF IInv, Touch, TypeOK
<1>2. c \in Client /\ arg[r].cookie = NULL /\ \A d \in Client : ~Carries(r, d)
  <2>1. c # NULL /\ arg[r].cookie = NULL  BY <1>1 DEF ArgFits
  <2>2. c \in Client  BY <1>1, <2>1, ArgFields DEF Opt
  <2> QED  BY <1>1, <2>1, <2>2 DEF Carries
<1>3. /\ pc' = [pc EXCEPT ![r] = "admit"] /\ arg' = [arg EXCEPT ![r] = arg[r]]
  BY <1>1 DEF Touch, Goto, TypeOK
<1>4. pc'[r] = "admit" /\ arg'[r] = arg[r]  BY <1>1, <1>3 DEF TypeOK
<1>5. until \in Nat /\ row \in [Client -> Opt(Nat)]  BY <1>1 DEF TypeOK
<1>6. \A d \in Client : \/ row'[d] = row[d]
                        \/ d = c /\ row[c] # NULL /\ row'[d] = until
  BY <1>1, <1>5
<1>7. row' \in [Client -> Opt(Nat)]
  <2>1. until \in Opt(Nat)  BY <1>5 DEF Opt
  <2> HIDE DEF until, c
  <2> QED  BY <1>1, <1>5, <2>1
<1>8. TypeOK'
  <2>1. \A d \in Client : row'[d] # NULL => row'[d] <= now + SessionTTL
    BY <1>1, <1>6 DEF TypeOK
  <2>2. /\ jar' \in [Client -> Nat] /\ slipped' \in SUBSET Client
        /\ \A d \in Client : jar'[d] <= now + SessionTTL
    BY <1>1 DEF TypeOK
  <2> HIDE DEF c, until
  <2> QED  BY <1>1, <1>3, <1>7, <2>1, <2>2, RequestTypes
<1>9. \A q \in Req \ {r} : /\ pc'[q] = pc[q] /\ arg'[q] = arg[q]
                           /\ ArgFits(q) => ArgFits(q)'
  BY <1>1, <1>3, OthersUnmoved
<1>10. ASSUME NEW q \in Req PROVE ArgFits(q)' /\ CookieCovers(q)'
  <2>1. CASE q = r
    BY <1>1, <1>2, <1>4, <2>1 DEF ArgFits, CookieCovers
  <2>2. CASE q # r
    <3>1. ArgFits(q) /\ CookieCovers(q) /\ arg[q] \in Arg
      BY <1>1 DEF IInv, TypeOK
    <3>2. arg'[q] = arg[q] /\ ArgFits(q)'  BY <1>9, <2>2, <3>1
    <3>3. ASSUME arg[q].cookie # NULL, row'[arg[q].client] # NULL
          PROVE  row'[arg[q].client] <= arg[q].cookie + Timeout
      <4>1. /\ arg[q].client \in Client /\ arg[q].cookie \in Nat /\ arg[q].start \in Nat
            /\ now <= arg[q].start + Timeout /\ arg[q].start + SessionTTL <= arg[q].cookie
        BY <3>1, <3>3, ArgFields DEF ArgFits, NoArg, Sent, Opt
      <4>2. CASE row'[arg[q].client] = row[arg[q].client]
        BY <3>1, <3>3, <4>2 DEF CookieCovers
      <4>3. CASE row'[arg[q].client] = until
        BY <1>1, <4>1, <4>3
      <4> QED  BY <1>6, <4>1, <4>2, <4>3
    <3> QED  BY <3>2, <3>3 DEF CookieCovers
  <2> QED  BY <2>1, <2>2
<1>11. ASSUME NEW d \in Client \ slipped' PROVE RowCarried(d)'
  <2>1. CASE d = c
    <3>1. arg[r].principal # NULL /\ NearExpiry(arg[r].exp)  BY <1>1 DEF ArgFits
    <3>2. Carries(r, d)'  BY <1>1, <1>4, <2>1, <3>1 DEF Carries, NearExpiry
    <3> QED  BY <3>2 DEF RowCarried
  <2>2. CASE d # c
    <3>1. RowCarried(d) /\ row'[d] = row[d] /\ jar'[d] = jar[d]
      BY <1>1, <1>6, <2>2 DEF IInv
    <3>2. ASSUME NEW q \in Req, Carries(q, d) PROVE Carries(q, d)'
      <4>1. q # r  BY <1>2, <3>2
      <4>2. pc'[q] = pc[q] /\ arg'[q] = arg[q] /\ now' = now  BY <1>1, <1>9, <4>1
      <4> QED  BY <3>2, <4>2 DEF Carries, OriginWrong, NearExpiry
    <3> QED  BY <3>1, <3>2 DEF RowCarried
  <2> QED  BY <2>1, <2>2
<1> QED  BY <1>8, <1>10, <1>11 DEF IInv

LEMMA AdmitStep ==
  ASSUME IInv, NEW r \in Req, Admit(r)
  PROVE  IInv'
<1> USE NullIsNobody, ClockAssumption
<1>1. /\ TypeOK /\ ArgFits(r) /\ pc[r] = "admit" /\ arg[r] \in Arg /\ now \in Nat
      /\ UNCHANGED <<now, role, row, jar, slipped>>
  BY DEF IInv, Admit, TypeOK
<1>2. /\ arg[r].cookie = NULL /\ ~arg[r].bearer
      /\ arg[r].start <= now /\ now <= arg[r].start + Timeout /\ arg[r].start \in Nat
  BY <1>1, ArgFields DEF ArgFits
<1>3. CASE arg[r].principal # NULL /\ OriginWrong(r) /\ Reply(r, 403)
  <2> DEFINE a == [arg[r] EXCEPT !.status = 403]
  <2>1. a \in Arg
    <3>1. \A b \in Arg : [b EXCEPT !.status = 403] \in Arg  BY DEF Arg
    <3> QED  BY <1>1, <3>1
  <2>2. pc' = [pc EXCEPT ![r] = "replied"] /\ arg' = [arg EXCEPT ![r] = a]
    BY <1>3 DEF Reply
  <2>3. pc'[r] = "replied" /\ arg'[r] = a  BY <1>1, <2>2 DEF TypeOK
  <2>4. /\ a.status = 403 /\ a.start = arg[r].start /\ a.cookie = arg[r].cookie
        /\ a.client = arg[r].client /\ a.principal = arg[r].principal
        /\ a.op = arg[r].op /\ a.origin = arg[r].origin /\ a.bearer = arg[r].bearer
    BY <1>1 DEF Arg
  <2> HIDE DEF a
  <2>5. OriginWrong(r)'  BY <1>3, <2>3, <2>4 DEF OriginWrong
  <2>6. ArgFits(r)' /\ CookieCovers(r)'
    BY <1>1, <1>2, <1>3, <2>3, <2>4, <2>5 DEF ArgFits, CookieCovers
  <2>7. \A d \in Client : Carries(r, d) => Carries(r, d)'
    BY <2>3, <2>4, <2>5 DEF Carries
  <2> QED  BY <1>1, <2>1, <2>2, <2>6, <2>7, RequestStep
<1>4. CASE ~(arg[r].principal # NULL /\ OriginWrong(r))
  <2> DEFINE s == Wrapper(arg[r].op, arg[r].bound, arg[r].principal)
             k == IF arg[r].principal = NULL THEN NULL ELSE Renewed(r)
             b == [arg[r] EXCEPT !.status = s]
             a == [b EXCEPT !.cookie = k]
  <2>1. s \in {0, 200, 400, 401, 403}
    BY DEF Wrapper, GateStatus
  <2>2. /\ k \in Opt(Nat) /\ (k # NULL => k = now + SessionTTL /\ arg[r].principal # NULL)
        /\ arg[r].principal # NULL /\ NearExpiry(arg[r].exp) => k # NULL
    BY <1>1 DEF Renewed, Opt
  <2>3. b \in Arg
    <3> HIDE DEF s
    <3> QED  BY <1>1, <2>1 DEF Arg
  <2>4. a \in Arg
    <3> HIDE DEF b, k
    <3> QED  BY <2>2, <2>3 DEF Arg
  <2>5. pc' = [pc EXCEPT ![r] = "replied"] /\ arg' = [arg EXCEPT ![r] = a]
    BY <1>4 DEF Admit
  <2>6. pc'[r] = "replied" /\ arg'[r] = a  BY <1>1, <2>5 DEF TypeOK
  <2>7. /\ a.status = s /\ a.cookie = k
        /\ a.start = arg[r].start /\ a.exp = arg[r].exp /\ a.bearer = arg[r].bearer
        /\ a.client = arg[r].client /\ a.principal = arg[r].principal
        /\ a.op = arg[r].op /\ a.origin = arg[r].origin /\ a.bound = arg[r].bound
    <3> HIDE DEF s, k
    <3> QED  BY <1>1 DEF Arg
  <2> HIDE DEF a, b, s, k
  <2>8. OriginWrong(r)' <=> OriginWrong(r)  BY <2>6, <2>7 DEF OriginWrong
  <2>9. ArgFits(r)'
    <3>1. a.cookie # NULL => /\ a.start + SessionTTL <= a.cookie
                             /\ a.cookie <= now' + SessionTTL
      BY <1>1, <1>2, <2>2, <2>7
    <3>2. /\ ~a.bearer /\ ~(a.principal # NULL /\ OriginWrong(r)')
          /\ a.status = Wrapper(a.op, a.bound, a.principal)
      BY <1>2, <1>4, <2>7, <2>8 DEF s
    <3> QED  BY <1>1, <1>2, <1>4, <2>2, <2>6, <2>7, <2>8, <3>1, <3>2 DEF ArgFits
  <2>10. CookieCovers(r)'
    <3> SUFFICES ASSUME k # NULL, row[a.client] # NULL
                 PROVE  row[a.client] <= k + Timeout
      BY <1>1, <2>6, <2>7 DEF CookieCovers
    <3>1. a.client \in Client
      BY <1>1, <2>2, <2>7, ArgFields DEF ArgFits, Opt
    <3>2. row[a.client] \in Nat /\ row[a.client] <= now + SessionTTL
      BY <1>1, <3>1 DEF TypeOK, Opt
    <3> QED  BY <1>1, <2>2, <3>2
  <2>11. \A d \in Client : Carries(r, d) => Carries(r, d)'
    BY <1>1, <1>4, <2>2, <2>6, <2>7, <2>8 DEF Carries
  <2> QED  BY <1>1, <2>4, <2>5, <2>9, <2>10, <2>11, RequestStep
<1> QED  BY <1>3, <1>4 DEF Admit

\* A request that ends brought its cookie, or its client has slipped.
LEMMA LeaveStep ==
  ASSUME IInv, NEW r \in Req,
         pc' = [pc EXCEPT ![r] = "idle"], arg' = [arg EXCEPT ![r] = NoArg],
         UNCHANGED <<now, role, row>>,
         slipped \subseteq slipped', slipped' \in SUBSET Client,
         jar' \in [Client -> Nat],
         \A d \in Client : jar'[d] <= now + SessionTTL,
         \A d \in Client \ slipped' :
            /\ jar'[d] = jar[d] \/ (row[d] # NULL => row[d] <= jar'[d] + Timeout)
            /\ Carries(r, d) => (row[d] # NULL => row[d] <= jar'[d] + Timeout)
  PROVE  IInv'
<1> USE NullIsNobody, ClockAssumption
<1>1. TypeOK  BY DEF IInv
<1>2. TypeOK'
  <2>1. \A d \in Client : row'[d] # NULL => row'[d] <= now + SessionTTL
    BY <1>1 DEF TypeOK
  <2>2. row' \in [Client -> Opt(Nat)]  BY <1>1 DEF TypeOK
  <2> QED  BY <1>1, <2>1, <2>2, NoArgType, RequestTypes
<1>3. /\ pc'[r] = "idle" /\ arg'[r] = NoArg
      /\ \A q \in Req \ {r} : /\ pc'[q] = pc[q] /\ arg'[q] = arg[q]
                              /\ ArgFits(q) => ArgFits(q)'
  BY <1>1, OthersUnmoved
<1>4. ASSUME NEW q \in Req PROVE ArgFits(q)' /\ CookieCovers(q)'
  <2>1. CASE q = r  BY <1>3, <2>1, NoArgFields DEF ArgFits, CookieCovers
  <2>2. CASE q # r
    <3>1. ArgFits(q) /\ CookieCovers(q)  BY DEF IInv
    <3>2. arg'[q] = arg[q] /\ ArgFits(q)'  BY <1>3, <2>2, <3>1
    <3> QED  BY <3>1, <3>2 DEF CookieCovers
  <2> QED  BY <2>1, <2>2
<1>5. ASSUME NEW d \in Client \ slipped' PROVE RowCarried(d)'
  <2>1. CASE jar'[d] = jar[d] /\ ~Carries(r, d)
    <3>1. RowCarried(d)  BY DEF IInv
    <3>2. ASSUME NEW q \in Req, Carries(q, d) PROVE Carries(q, d)'
      <4>1. q # r  BY <2>1, <3>2
      <4>2. pc'[q] = pc[q] /\ arg'[q] = arg[q] /\ now' = now  BY <1>3, <4>1
      <4> QED  BY <3>2, <4>2 DEF Carries, OriginWrong, NearExpiry
    <3> QED  BY <2>1, <3>1, <3>2 DEF RowCarried
  <2>2. CASE row[d] # NULL => row[d] <= jar'[d] + Timeout
    BY <2>2 DEF RowCarried
  <2> QED  BY <2>1, <2>2
<1> QED  BY <1>2, <1>4, <1>5 DEF IInv

LEMMA ReceiveStep ==
  ASSUME IInv, NEW r \in Req, Receive(r)
  PROVE  IInv'
<1> USE NullIsNobody, ClockAssumption
<1> DEFINE a == arg[r]
           Covered(d) == row[d] # NULL => row[d] <= jar'[d] + Timeout
<1>1. /\ TypeOK /\ ArgFits(r) /\ CookieCovers(r) /\ pc[r] = "replied" /\ arg[r] \in Arg
      /\ pc' = [pc EXCEPT ![r] = "idle"] /\ arg' = [arg EXCEPT ![r] = NoArg]
      /\ UNCHANGED <<now, role, row>>
      /\ jar \in [Client -> Nat] /\ \A d \in Client : jar[d] <= now + SessionTTL
  BY DEF IInv, Receive, TypeOK
<1>2. CASE a.principal = NULL
  <2>1. jar' = jar /\ slipped' = slipped  BY <1>2 DEF Receive
  <2>2. \A d \in Client : ~Carries(r, d)  BY <1>2 DEF Carries
  <2> QED  BY <1>1, <2>1, <2>2, LeaveStep DEF TypeOK
<1>3. CASE a.principal # NULL
  <2>1. /\ jar' = IF a.cookie = NULL THEN jar ELSE [jar EXCEPT ![a.client] = a.cookie]
        /\ slipped' = slipped \cup {c \in {a.client} : OriginWrong(r)}
    BY <1>3 DEF Receive
  <2>2. a.client \in Client  BY <1>1, <1>3, ArgFields DEF ArgFits, Opt
  <2>3. a.cookie # NULL => a.cookie \in Nat /\ a.cookie <= now + SessionTTL
    BY <1>1, ArgFields DEF ArgFits, Opt
  <2>4. jar' \in [Client -> Nat] /\ \A d \in Client : jar'[d] <= now + SessionTTL
    <3> HIDE DEF a
    <3> QED  BY <1>1, <2>1, <2>2, <2>3
  <2>5. slipped \subseteq slipped' /\ slipped' \in SUBSET Client
    BY <1>1, <2>1, <2>2 DEF TypeOK
  <2>6. a.cookie # NULL => Covered(a.client)
    <3>1. a.cookie # NULL => jar'[a.client] = a.cookie
      <4> HIDE DEF a
      <4> QED  BY <1>1, <2>1, <2>2
    <3> QED  BY <1>1, <3>1 DEF CookieCovers
  <2>7. \A d \in Client : jar'[d] = jar[d] \/ Covered(d)
    <3>1. \A d \in Client : jar'[d] = jar[d] \/ (a.cookie # NULL /\ d = a.client)
      <4> HIDE DEF a
      <4> QED  BY <1>1, <2>1, <2>2
    <3> QED  BY <2>6, <3>1
  <2>8. \A d \in Client \ slipped' : Carries(r, d) => Covered(d)
    <3>1. ASSUME NEW d \in Client \ slipped', Carries(r, d) PROVE a.cookie # NULL /\ d = a.client
      BY <1>1, <2>1, <3>1 DEF Carries
    <3> HIDE DEF a, Covered
    <3> QED  BY <2>6, <3>1
  <2> QED  BY <1>1, <2>4, <2>5, <2>7, <2>8, LeaveStep
<1> QED  BY <1>2, <1>3

LEMMA LoseStep ==
  ASSUME IInv, NEW r \in Req, Lose(r)
  PROVE  IInv'
<1> USE NullIsNobody, ClockAssumption
<1>1. /\ TypeOK /\ pc' = [pc EXCEPT ![r] = "idle"] /\ arg' = [arg EXCEPT ![r] = NoArg]
      /\ UNCHANGED <<now, role, row, jar>>
      /\ slipped' = slipped \cup ({arg[r].client} \ {NULL}) /\ arg[r] \in Arg
  BY DEF IInv, Lose, TypeOK
<1>2. jar' \in [Client -> Nat] /\ \A d \in Client : jar'[d] <= now + SessionTTL
  BY <1>1 DEF TypeOK
<1>3. slipped \subseteq slipped' /\ slipped' \in SUBSET Client
  <2>1. arg[r].client \in Opt(Client)  BY <1>1, ArgFields
  <2> QED  BY <1>1, <2>1 DEF TypeOK, Opt
<1>4. \A d \in Client \ slipped' : ~Carries(r, d)
  BY <1>1 DEF Carries
<1> QED  BY <1>1, <1>2, <1>3, <1>4, LeaveStep

-----------------------------------------------------------------------------
(* The other steps *)

LEMMA EndStep ==
  ASSUME IInv, NEW c \in Client, End(c)
  PROVE  IInv'
<1> USE NullIsNobody, ClockAssumption
<1>1. /\ TypeOK /\ UNCHANGED <<now, role, jar, slipped, pc, arg>>
      /\ row' = [row EXCEPT ![c] = NULL] /\ row \in [Client -> Opt(Nat)]
  BY DEF IInv, End, TypeOK
<1>2. \A d \in Client : row'[d] = row[d] \/ row'[d] = NULL  BY <1>1
<1>3. TypeOK'
  <2>1. row' \in [Client -> Opt(Nat)]  BY <1>1 DEF Opt
  <2>2. \A d \in Client : row'[d] # NULL => row'[d] <= now + SessionTTL
    BY <1>1, <1>2 DEF TypeOK
  <2> QED  BY <1>1, <2>1, <2>2 DEF TypeOK
<1>4. ASSUME NEW q \in Req PROVE ArgFits(q)' /\ CookieCovers(q)'
  <2>1. ArgFits(q) /\ CookieCovers(q) /\ arg[q] \in Arg  BY <1>1 DEF IInv, TypeOK
  <2>2. ArgFits(q)'  BY <1>1, <2>1 DEF ArgFits, OriginWrong, NearExpiry
  <2>3. arg[q].cookie # NULL => arg[q].client \in Client
    BY <2>1, ArgFields DEF ArgFits, Opt
  <2>4. CookieCovers(q)'  BY <1>1, <1>2, <2>1, <2>3 DEF CookieCovers
  <2> QED  BY <2>2, <2>4
<1>5. ASSUME NEW d \in Client \ slipped' PROVE RowCarried(d)'
  <2>1. RowCarried(d)  BY <1>1 DEF IInv
  <2>2. ASSUME NEW q \in Req, Carries(q, d) PROVE Carries(q, d)'
    BY <1>1, <2>2 DEF Carries, OriginWrong, NearExpiry
  <2> QED  BY <1>1, <1>2, <2>1, <2>2 DEF RowCarried
<1> QED  BY <1>3, <1>4, <1>5 DEF IInv

LEMMA TickStep ==
  ASSUME IInv, Tick
  PROVE  IInv'
<1> USE NullIsNobody, ClockAssumption, HalfIsNat
<1>1. /\ TypeOK /\ now \in Nat /\ now < MaxTime /\ now' = now + 1
      /\ UNCHANGED <<role, row, jar, slipped, pc, arg>>
      /\ \A q \in Req : pc[q] # "idle" => now < arg[q].start + Timeout
  BY DEF IInv, Tick, TypeOK
<1>2. TypeOK'
  <2>1. now' \in 0..MaxTime  BY <1>1
  <2>2. ASSUME NEW d \in Client
        PROVE  (row[d] # NULL => row[d] <= now' + SessionTTL) /\ jar[d] <= now' + SessionTTL
    BY <1>1 DEF TypeOK, Opt
  <2> QED  BY <1>1, <2>1, <2>2 DEF TypeOK
<1>3. ASSUME NEW q \in Req PROVE ArgFits(q)' /\ CookieCovers(q)'
  <2>1. ArgFits(q) /\ CookieCovers(q) /\ arg[q] \in Arg  BY <1>1 DEF IInv, TypeOK
  <2>2. arg[q].start \in Nat /\ arg[q].exp \in Nat /\ arg[q].cookie \in Opt(Nat)
    BY <2>1, ArgFields
  <2>3. NearExpiry(arg[q].exp) => NearExpiry(arg[q].exp)'
    BY <1>1, <2>2 DEF NearExpiry
  <2>4. pc[q] # "idle" => arg[q].start <= now' /\ now' <= arg[q].start + Timeout
    BY <1>1, <2>1, <2>2 DEF ArgFits
  <2>5. arg[q].cookie # NULL => arg[q].cookie <= now' + SessionTTL
    BY <1>1, <2>1, <2>2 DEF ArgFits, Opt
  <2>6. ArgFits(q)'
    BY <1>1, <2>1, <2>3, <2>4, <2>5 DEF ArgFits, OriginWrong
  <2>7. CookieCovers(q)'  BY <1>1, <2>1 DEF CookieCovers
  <2> QED  BY <2>6, <2>7
<1>4. ASSUME NEW d \in Client \ slipped' PROVE RowCarried(d)'
  <2>1. RowCarried(d)  BY <1>1 DEF IInv
  <2>2. ASSUME NEW q \in Req, Carries(q, d) PROVE Carries(q, d)'
    <3>1. arg[q].exp \in Nat  BY <1>1, ArgFields DEF TypeOK
    <3> QED  BY <1>1, <2>2, <3>1 DEF Carries, OriginWrong, NearExpiry
  <2> QED  BY <1>1, <2>1, <2>2 DEF RowCarried
<1> QED  BY <1>2, <1>3, <1>4 DEF IInv

LEMMA IInvStep == IInv /\ [Next]_vars => IInv'
<1> SUFFICES ASSUME IInv, [Next]_vars PROVE IInv'  OBVIOUS
<1>1. ASSUME NEW r \in Req, NEW c \in Opt(Client), NEW bearer \in BOOLEAN,
             NEW origin \in BOOLEAN, NEW op \in Op, NEW bound \in BOOLEAN,
             Send(r, c, bearer, origin, op, bound)
      PROVE  IInv'
  BY <1>1, SendStep
<1>2. ASSUME NEW r \in Req, Resolve(r) PROVE IInv'  BY <1>2, ResolveStep
<1>3. ASSUME NEW r \in Req, Touch(r) PROVE IInv'  BY <1>3, TouchStep
<1>4. ASSUME NEW r \in Req, Admit(r) PROVE IInv'  BY <1>4, AdmitStep
<1>5. ASSUME NEW r \in Req, Receive(r) PROVE IInv'  BY <1>5, ReceiveStep
<1>6. ASSUME NEW r \in Req, Lose(r) PROVE IInv'  BY <1>6, LoseStep
<1>7. ASSUME NEW c \in Client, End(c) PROVE IInv'  BY <1>7, EndStep
<1>8. CASE Tick  BY <1>8, TickStep
<1>9. CASE UNCHANGED vars
  BY <1>9 DEF vars, IInv, TypeOK, ArgFits, CookieCovers, RowCarried, Carries, NearExpiry,
              OriginWrong
<1> QED  BY <1>1, <1>2, <1>3, <1>4, <1>5, <1>6, <1>7, <1>8, <1>9 DEF Next

-----------------------------------------------------------------------------
(* Theorems *)

\* In every reachable state a request carries only what fits how far it has
\* come, and the row of a client that has not slipped outlasts its cookie only
\* while a request is about to bring a new one (Middleware, Sessions.Principal).
THEOREM Invariance == Spec => []IInv
<1>1. Init => IInv  BY InitIInv
<1>2. IInv /\ [Next]_vars => IInv'  BY IInvStep
<1> QED  BY <1>1, <1>2, PTL DEF Spec

\* The variables have their types; in particular neither a row nor a cookie
\* ever lasts longer than SessionTTL from now (SetSessionCookie, TouchSession).
THEOREM TypeCorrect == Spec => []TypeOK
<1>1. IInv => TypeOK  BY DEF IInv
<1> QED  BY <1>1, Invariance, PTL

\* Who the gate serves, for any operation id.
LEMMA GateServesCallers ==
  ASSUME NEW op, NEW p \in Principal
  PROVE  Gate(op, p) <=> op \in known /\ p \in Callers(op)
<1>1. Unsecured = publicOps  BY DEF Unsecured, publicOps
<1>2. p \in {"admin", "member"} <=> p # NULL  BY NullAssumption DEF Principal, Opt
<1>3. p \in {"admin"} <=> p = "admin"  OBVIOUS
<1>4. op \in adminOps => op \notin publicOps  BY DEF adminOps, publicOps
<1> QED  BY <1>1, <1>2, <1>3, <1>4 DEF Gate, Callers, MayUse, MayAdmin

\* Who is served, and what the others are told, for any set of operation ids
\* (Middleware, gate).
THEOREM AccessRuled == Spec => []AccessRule
<1>1. IInv => AccessRule
  <2> SUFFICES ASSUME IInv, NEW r \in Req, pc[r] = "replied"
               PROVE  LET a == arg[r]
                          caller == IF a.principal = NULL THEN NULL ELSE role[a.client]
                          foreign == caller # NULL /\ OriginWrong(r)
                          may == caller \in Callers(a.op)
                      IN /\ a.status = 200 <=>
                              ~a.bearer /\ ~foreign /\ a.bound /\ a.op \in known /\ may
                         /\ a.status = 400 <=> ~a.bearer /\ ~foreign /\ ~a.bound
                         /\ a.status = 401 <=>
                              a.bearer \/ (a.bound /\ a.op \in known /\ caller = NULL /\ ~may)
    BY DEF AccessRule
  <2> DEFINE a == arg[r]
             caller == IF a.principal = NULL THEN NULL ELSE role[a.client]
             foreign == caller # NULL /\ OriginWrong(r)
             may == caller \in Callers(a.op)
  <2>1. ArgFits(r) /\ a \in Arg  BY DEF IInv, TypeOK
  <2>2. caller = a.principal /\ a.principal \in Principal  BY <2>1, ArgFields DEF ArgFits
  <2>3. /\ a.bearer => caller = NULL
        /\ a.status = IF a.bearer THEN 401 ELSE IF foreign THEN 403
                      ELSE Wrapper(a.op, a.bound, caller)
    BY <2>1, <2>2 DEF ArgFits
  <2>4. Wrapper(a.op, a.bound, caller) =
          IF ~a.bound THEN 400 ELSE IF a.op \in known /\ may THEN 200
          ELSE IF a.op \in known /\ caller = NULL THEN 401 ELSE 403
    BY <2>2, GateServesCallers DEF Wrapper, GateStatus
  <2>5. caller = NULL => ~foreign  OBVIOUS
  <2> HIDE DEF a, caller, foreign, may
  <2>6. /\ a.status = 200 <=>
             ~a.bearer /\ ~foreign /\ a.bound /\ a.op \in known /\ may
        /\ a.status = 400 <=> ~a.bearer /\ ~foreign /\ ~a.bound
        /\ a.status = 401 <=>
             a.bearer \/ (a.bound /\ a.op \in known /\ caller = NULL /\ ~may)
    BY <2>3, <2>4, <2>5
  <2> QED  BY <2>6 DEF a, caller, foreign, may
<1> QED  BY <1>1, Invariance, PTL

\* The cookie keeps up with its session, for any number of overlapping requests
\* and whatever order their answers arrive in (Middleware:59).
THEOREM CookiesKeepUp == Spec => []CookieKeepsUp
<1>1. IInv => CookieKeepsUp
  <2> SUFFICES ASSUME IInv, NEW c \in Client \ slipped, Quiet(c), row[c] # NULL
               PROVE  row[c] <= jar[c] + Timeout
    BY DEF CookieKeepsUp
  <2>1. RowCarried(c)  BY DEF IInv
  <2>2. \A r \in Req : ~Carries(r, c)  BY DEF Quiet, Carries
  <2> QED  BY <2>1, <2>2 DEF RowCarried
<1> QED  BY <1>1, Invariance, PTL
=============================================================================
