------------------------------ MODULE Sessions ------------------------------
(***************************************************************************)
(* Sessions in Redis, the pair of signed tokens that names one, and the    *)
(* guards that read them back: the access strategy, which looks up the     *)
(* session and then its user, and the refresh strategy.  Redis lets a key  *)
(* lapse by its time to live, a token carries its own expiry, and the two  *)
(* start at different moments: the key when Redis stores it, the token     *)
(* when the handler resumes.  Nor are they counted alike: Redis counts     *)
(* from the very moment of the SET, a token's times are whole seconds.     *)
(***************************************************************************)
EXTENDS Naturals

CONSTANTS
  Clients,      \* concurrent requests
  Users,
  Uuids,
  Second,       \* how many ticks of the clock a second has
  AccessLife,   \* config.auth.jwt.access.lifetime, in seconds
  RefreshLife,  \* config.auth.jwt.refresh.lifetime, in seconds
  MaxDelay,     \* how many ticks the handler may have to wait for the answer to a SET
  MaxTime,      \* bound on the clock
  None

InTicks(seconds) == seconds * Second

ASSUME SecondAssumption == Second \in Nat \ {0}
ASSUME LifeAssumption == AccessLife \in Nat \ {0} /\ RefreshLife \in Nat \ {0}
\* The configured lifetimes, a day and thirty days, leave room for any such wait.
ASSUME DelayAssumption ==
  MaxDelay \in Nat /\ InTicks(AccessLife) + MaxDelay <= InTicks(RefreshLife)
ASSUME TimeAssumption == MaxTime \in Nat
ASSUME NoneIsNoId == None \notin Users \X Uuids

\* session:<user>:<uuid>; userId in the stored session is that user.
SessionIds == Users \X Uuids
User(id) == id[1]

VARIABLES
  now,     \* ticks
  rows,    \* users in the table
  until,   \* per session id: when Redis lets the key lapse, in ticks, 0 without a key
  pair,    \* per session id: expiries of the tokens handed out for it, in seconds, or None
  pc, sid, \* per client: next step, and the session id of its latest request
  answer   \* per client: how that request was answered, "none" until it is

vars == <<now, rows, until, pair, pc, sid, answer>>

Init ==
  /\ now = 0
  /\ rows = Users
  /\ until = [id \in SessionIds |-> 0]
  /\ pair = [id \in SessionIds |-> None]
  /\ pc = [c \in Clients |-> "idle"]
  /\ sid = [c \in Clients |-> None]
  /\ answer = [c \in Clients |-> "none"]

\* What get() finds.
Cached(id) == now < until[id]

\* Math.floor(Date.now() / 1000), by which jsonwebtoken signs and verifies.
NumericDate == now \div Second
Expired(exp) == NumericDate >= exp

\* What passport accepts as an access token: its expiry has not come.
AccessVerifies(id) == ~Expired(pair[id].access)

\* sign() is given a secret and no algorithm, the refresh strategy takes RS256 only.
SignAlgorithm == "HS256"
RefreshAlgorithms == {"RS256"}
RefreshVerifies(id) == ~Expired(pair[id].refresh) /\ SignAlgorithm \in RefreshAlgorithms

FreshIds(u) == {id \in {u} \X Uuids : until[id] = 0 /\ pair[id] = None
                                        /\ \A c \in Clients : sid[c] # id}

Answer(c, a) ==
  /\ answer' = [answer EXCEPT ![c] = a]
  /\ pc' = [pc EXCEPT ![c] = "idle"]

-----------------------------------------------------------------------------
(* create: sign-in *)

\* A sign-in has checked the user's row (module Accounts) and creates a session.
SignIn(c) ==
  /\ pc[c] = "idle"
  /\ \E u \in rows : \E id \in FreshIds(u) : sid' = [sid EXCEPT ![c] = id]
  /\ pc' = [pc EXCEPT ![c] = "set"]
  /\ answer' = [answer EXCEPT ![c] = "none"]
  /\ UNCHANGED <<now, rows, until, pair>>

\* Mutant: the session is stored for the lifetime of an access token.
SessionTime_Access == AccessLife
\* Mutant: the session is stored for longer than the tokens live.
SessionTime_Long == RefreshLife + AccessLife
SessionTime == RefreshLife

\* SET with a time to live of so many seconds reaches Redis.
SetSession(c) ==
  /\ pc[c] = "set"
  /\ until' = [until EXCEPT ![sid[c]] = now + InTicks(SessionTime)]
  /\ pc' = [pc EXCEPT ![c] = "sign"]
  /\ UNCHANGED <<now, rows, pair, sid, answer>>

\* exp is iat, a whole second, and the lifetime.
CreateTokens == [access |-> NumericDate + AccessLife, refresh |-> NumericDate + RefreshLife]

\* The answer of Redis is there: the tokens are signed and handed out.
Sign(c) ==
  /\ pc[c] = "sign"
  /\ pair' = [pair EXCEPT ![sid[c]] = CreateTokens]
  /\ Answer(c, "signedIn")
  /\ UNCHANGED <<now, rows, until, sid>>

-----------------------------------------------------------------------------
(* The guards *)

\* A guarded request brings an access token; one that has expired is refused there
\* and then.
Access(c) ==
  /\ pc[c] = "idle"
  /\ \E id \in SessionIds :
       /\ pair[id] # None
       /\ sid' = [sid EXCEPT ![c] = id]
       /\ \/ /\ AccessVerifies(id)
             /\ pc' = [pc EXCEPT ![c] = "getSession"]
             /\ answer' = [answer EXCEPT ![c] = "none"]
          \/ ~AccessVerifies(id) /\ Answer(c, "refused")
  /\ UNCHANGED <<now, rows, until, pair>>

GetSession(c) ==
  /\ pc[c] = "getSession"
  /\ \/ /\ Cached(sid[c])
        /\ pc' = [pc EXCEPT ![c] = "getUser"]
        /\ UNCHANGED answer
     \/ ~Cached(sid[c]) /\ Answer(c, "refused")
  /\ UNCHANGED <<now, rows, until, pair, sid>>

\* Mutant: the user is looked up by the id of the session.
FindUser_BySession(id) == {id} \cap rows
FindUser(id) == {User(id)} \cap rows

GetUser(c) ==
  /\ pc[c] = "getUser"
  /\ \/ FindUser(sid[c]) # {} /\ Answer(c, "admitted")
     \/ /\ FindUser(sid[c]) = {}
        /\ pc' = [pc EXCEPT ![c] = "dropSession"]
        /\ UNCHANGED answer
  /\ UNCHANGED <<now, rows, until, pair, sid>>

\* The session of a user that is gone is deleted, whatever became of it meanwhile.
DropSession(c) ==
  /\ pc[c] = "dropSession"
  /\ until' = [until EXCEPT ![sid[c]] = 0]
  /\ Answer(c, "refused")
  /\ UNCHANGED <<now, rows, pair, sid>>

\* GET /refresh.  What the handler does behind the guard is not here: no token the
\* service signs gets there.
Refresh(c) ==
  /\ pc[c] = "idle"
  /\ \E id \in SessionIds :
       /\ pair[id] # None /\ ~RefreshVerifies(id)
       /\ sid' = [sid EXCEPT ![c] = id]
  /\ Answer(c, "refreshRefused")
  /\ UNCHANGED <<now, rows, until, pair>>

\* Redis or the database rejects, or answers too late: an error for the client, and a
\* session that was stored stays without tokens.
Fail(c) ==
  /\ pc[c] # "idle"
  /\ Answer(c, "error")
  /\ UNCHANGED <<now, rows, until, pair, sid>>

-----------------------------------------------------------------------------
(* Around the service *)

\* Time passes; nobody waits longer than MaxDelay for the answer to a SET.
Tick ==
  /\ now < MaxTime
  /\ \A c \in Clients :
       pc[c] = "sign" => now + InTicks(SessionTime) < until[sid[c]] + MaxDelay
  /\ now' = now + 1
  /\ UNCHANGED <<rows, until, pair, pc, sid, answer>>

\* A user's row is deleted; the service itself never does.
RemoveUser(u) ==
  /\ u \in rows
  /\ rows' = rows \ {u}
  /\ UNCHANGED <<now, until, pair, pc, sid, answer>>

Next ==
  \/ \E c \in Clients :
       \/ SignIn(c) \/ SetSession(c) \/ Sign(c)
       \/ Access(c) \/ GetSession(c) \/ GetUser(c) \/ DropSession(c)
       \/ Refresh(c) \/ Fail(c)
  \/ Tick
  \/ \E u \in Users : RemoveUser(u)

Spec == Init /\ [][Next]_vars

-----------------------------------------------------------------------------
(* Properties *)

PCs == {"idle", "set", "sign", "getSession", "getUser", "dropSession"}

TypeOK ==
  /\ now \in 0..MaxTime
  /\ rows \subseteq Users
  /\ until \in [SessionIds -> Nat]
  /\ pair \in [SessionIds -> [access : Nat, refresh : Nat] \cup {None}]
  /\ pc \in [Clients -> PCs]
  /\ sid \in [Clients -> SessionIds \cup {None}]
  /\ answer \in [Clients -> {"none", "admitted", "refused", "refreshRefused", "signedIn",
                           "error"}]

\* The access guard refuses a token only once it has expired or its user is gone:
\* the key in Redis, which started to age before the token did, outlives it, and no
\* other request deletes it (JwtAccessStrategy.validate, SessionsProcessor.create).
RefusedForCause ==
  [][\A c \in Clients : answer[c] # "refused" /\ answer'[c] = "refused"
       => Expired(pair[sid'[c]].access) \/ User(sid'[c]) \notin rows]_vars

\* A session and its refresh token end together, but for what is between the SET and
\* the signing and for the fraction of a second the token leaves out: the key outlives
\* the token by less than a second (SessionsProcessor.create, createTokens), and the
\* token the key, unless that was dropped, by no more than the wait for the SET.
SessionEndsWithRefresh ==
  \A id \in SessionIds : pair[id] # None =>
    /\ until[id] < InTicks(pair[id].refresh) + Second
    /\ User(id) \in rows => InTicks(pair[id].refresh) <= until[id] + MaxDelay

\* A session ends by lapsing, or because its user is gone; the guard, which deletes by
\* a key it read three awaits before, ends no other.
EndsByLapseOrOrphan ==
  [][\A id \in SessionIds : Cached(id) /\ until'[id] # until[id] => User(id) \notin rows]_vars

\* A refresh token renews the session as long as neither has expired.
RefreshRenews ==
  [][\A c \in Clients :
       answer[c] # "refreshRefused" /\ answer'[c] = "refreshRefused"
         => Expired(pair[sid'[c]].refresh) \/ ~Cached(sid'[c])]_vars

-----------------------------------------------------------------------------
(* Invariants that make the properties inductive *)

\* A session id is one client's until its tokens are out: nobody can name it.
PrivateUntilSigned ==
  \A c \in Clients : pc[c] \in {"set", "sign"} =>
    /\ pair[sid[c]] = None
    /\ \A d \in Clients \ {c} : sid[d] # sid[c]

\* What a client at each step knows of the session it works on.
StepKnows ==
  \A c \in Clients :
    /\ pc[c] # "idle" => sid[c] \in SessionIds
    /\ pc[c] = "set" => until[sid[c]] = 0
    /\ pc[c] = "sign" => /\ until[sid[c]] <= now + InTicks(RefreshLife)
                         /\ now + InTicks(RefreshLife) <= until[sid[c]] + MaxDelay
    /\ pc[c] \in {"getSession", "getUser", "dropSession"} => pair[sid[c]] # None
    /\ pc[c] = "dropSession" => User(sid[c]) \notin rows

\* The key outlives the access token as long as the user is there.
AccessEndsFirst ==
  \A id \in SessionIds :
    pair[id] # None /\ User(id) \in rows => InTicks(pair[id].access) <= until[id]

\* The inductive invariant of the module: who works on a session, and how its three
\* expiries, counted by two clocks, relate (SessionsProcessor.create,
\* JwtAccessStrategy.validate).
SessionInv ==
  TypeOK /\ PrivateUntilSigned /\ StepKnows /\ AccessEndsFirst /\ SessionEndsWithRefresh
=============================================================================
