--------------------------- MODULE LoginThrottle ---------------------------
(***************************************************************************)
(* POST /auth/login in front of domain.Users.Login: every attempt is       *)
(* charged to the caller's address first and, if that goes through, to the *)
(* account it names.  Each charge is one call of Limiter.Allow; between    *)
(* the two any other request may run.  What Login makes of an attempt is   *)
(* in module Sessions.                                                     *)
(***************************************************************************)
EXTENDS Limiter, FiniteSets

CONSTANTS
  Req,          \* slots for requests the server is handling
  Ip,           \* hosts
  Address,      \* e-mail addresses as callers type them
  Norm,         \* what TrimSpace and ToLower make of each address
  Cut           \* the first maxEmailKey characters of each address

ASSUME NormAssumption ==
  /\ Norm \in [Address -> Address]
  /\ \A a \in Address : Norm[Norm[a]] = Norm[a]
ASSUME CutAssumption == Cut \in [Address -> Address]
\* An account key starts with "email:", and no host does.
ASSUME KeyAssumption ==
  Key = Ip \cup Address /\ Ip \cap Address = {} /\ NULL \notin Key

VARIABLES
  tries,        \* history: when attempts on each account were let through to Login
  pc,           \* pc[r]: the charge request r is about to make
  arg           \* arg[r]: where it comes from and what it names

loginVars == <<now, hits, log, tries, pc, arg>>

NoArg == [ip |-> NULL, addr |-> NULL, status |-> 0]

LoginTypeOK ==
  /\ tries \in [Address -> Seq(Nat)]
  /\ pc \in [Req -> {"idle", "ip", "account", "login", "replied"}]
  /\ arg \in [Req -> [ip : Ip \cup {NULL}, addr : Address \cup {NULL},
                      status : {0, 200, 403, 429, 500}]]
  /\ \A r \in Req : pc[r] # "idle" => arg[r].ip \in Ip /\ arg[r].addr \in Address

LoginInit ==
  /\ Init
  /\ tries = [a \in Address |-> <<>>]
  /\ pc = [r \in Req |-> "idle"]
  /\ arg = [r \in Req |-> NoArg]

-----------------------------------------------------------------------------
(* A definition named after another with a suffix is a regression the      *)
(* mutants put in its place.                                               *)

normEmail(a) == Norm[a]

emailKeyAsTyped(a) == Cut[a]
emailKey(a) == Cut[normEmail(a)]

ChargedLast(r) == IF pc[r] = "ip" THEN emailKey(arg[r].addr) ELSE arg[r].ip
Charged(r) == IF pc[r] = "ip" THEN arg[r].ip ELSE emailKey(arg[r].addr)

Goto(r, p) == pc' = [pc EXCEPT ![r] = p] /\ UNCHANGED arg

Reply(r, s) ==
  /\ pc' = [pc EXCEPT ![r] = "replied"]
  /\ arg' = [arg EXCEPT ![r].status = s]

\* A host that is blocked is answered before any account is looked at.
HostRefusedLate(r) == Goto(r, "account")
HostRefused(r) == Reply(r, 429)

Start(r, ip, a) ==
  /\ pc[r] = "idle"
  /\ pc' = [pc EXCEPT ![r] = "ip"]
  /\ arg' = [arg EXCEPT ![r] = [ip |-> ip, addr |-> a, status |-> 0]]
  /\ UNCHANGED <<now, hits, log, tries>>

ChargeHost(r) ==
  /\ pc[r] = "ip"
  /\ \/ Allow(Charged(r)) /\ Goto(r, "account")
     \/ Refuse(Charged(r)) /\ HostRefused(r)
  /\ UNCHANGED tries

\* What is let through here is counted here, though Login looks at the password
\* later.
ChargeAccount(r) ==
  /\ pc[r] = "account"
  /\ \/ /\ Allow(Charged(r))
        /\ tries' = [tries EXCEPT ![normEmail(arg[r].addr)] = Append(@, now)]
        /\ Goto(r, "login")
     \/ /\ Refuse(Charged(r))
        /\ Reply(r, 429)
        /\ UNCHANGED tries

\* The attempt has cost its charges whether it is the right password or not,
\* and whether the session then opens or not.
Login(r) ==
  /\ pc[r] = "login"
  /\ \E s \in {200, 403, 500} : Reply(r, s)
  /\ UNCHANGED <<now, hits, log, tries>>

Return(r) ==
  /\ pc[r] = "replied"
  /\ pc' = [pc EXCEPT ![r] = "idle"]
  /\ arg' = [arg EXCEPT ![r] = NoArg]
  /\ UNCHANGED <<now, hits, log, tries>>

\* The process dies and begins anew: the counters are gone.
LoginRestart ==
  /\ Restart
  /\ tries' = [a \in Address |-> <<>>]
  /\ pc' = [r \in Req |-> "idle"]
  /\ arg' = [r \in Req |-> NoArg]

LoginTick == Tick /\ UNCHANGED <<tries, pc, arg>>

LoginNext ==
  \/ \E r \in Req :
       \/ \E ip \in Ip, a \in Address : Start(r, ip, a)
       \/ ChargeHost(r) \/ ChargeAccount(r) \/ Login(r) \/ Return(r)
  \/ LoginRestart
  \/ LoginTick

LoginSpec == LoginInit /\ [][LoginNext]_loginVars

-----------------------------------------------------------------------------

\* In any stretch of one Window at most 2 * MaxHits attempts on one account are let
\* through to Login by a running process, whatever hosts they come from, however
\* the address is typed and however the requests interleave (AuthLogin, emailKey).
\* An attempt counts when it is let through; its password is checked later.
GuessBound ==
  \A a \in Address : \A i \in 1..Len(tries[a]) :
    i + 2 * MaxHits <= Len(tries[a]) => tries[a][i] + Window < tries[a][i + 2 * MaxHits]

\* The accounts in the map, and the allowed attempts of hosts.
Held == {a \in Address : hits[a] # NULL}
Paid == UNION {{<<ip, i>> : i \in 1..Len(log[ip])} : ip \in Ip}

\* handler_auth.go:89-91: a blocked host cannot fill the map with invented
\* addresses; each account in it was paid for by an allowed attempt of a host.
AccountsPaidFor == Cardinality(Held) <= Cardinality(Paid)

-----------------------------------------------------------------------------
(* The inductive invariant: Limiter's, and how the requests stand to it. *)

\* Attempts of a key are logged as they come.
InOrder(k) ==
  /\ \A i \in 1..Len(log[k]) : log[k][i].at <= now
  /\ \A i, j \in 1..Len(log[k]) : i <= j => log[k][i].at <= log[k][j].at

\* Each try on an account is an allowed attempt of the account's key, made at
\* that time; the other attempts of the key lie between and beside them.
TriesLogged(a) ==
  \E f \in [1..Len(tries[a]) -> 1..Len(log[Cut[a]])] :
    /\ \A i \in 1..Len(tries[a]) : log[Cut[a]][f[i]].at = tries[a][i]
    /\ \A i, j \in 1..Len(tries[a]) : i <= j => f[i] + (j - i) <= f[j]

\* A request that is about to charge an account has paid, and none has charged
\* with its payment.
Waiting == {r \in Req : pc[r] = "account"}
ChargesPaid ==
  /\ IsFiniteSet(Held) /\ IsFiniteSet(Waiting) /\ IsFiniteSet(Paid)
  /\ Cardinality(Held) + Cardinality(Waiting) <= Cardinality(Paid)

LoginInv ==
  /\ IInv /\ LoginTypeOK
  /\ \A k \in Key : InOrder(k)
  /\ \A a \in Address : TriesLogged(a)
  /\ ChargesPaid
=============================================================================
