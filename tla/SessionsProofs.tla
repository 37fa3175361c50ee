--------------------------- MODULE SessionsProofs ---------------------------
(* The inductive invariant of Sessions and what follows from it, proved for any *)
(* number of clients, users and sessions, and any lifetimes.                    *)
EXTENDS Sessions, TLAPS

\* A session id is a pair, so its user is one of the users, and None is no id.
LEMMA IdFacts ==
  /\ \A id \in SessionIds : User(id) \in Users
  /\ None \notin SessionIds
  /\ \A u \in Users : \A id \in {u} \X Uuids : id \in SessionIds
BY NoneIsNoId DEF SessionIds, User

\* Numbers of ticks and of seconds are natural.
LEMMA TickFacts ==
  /\ \A s \in Nat : InTicks(s) \in Nat
  /\ \A s, l \in Nat : InTicks(s + l) = InTicks(s) + InTicks(l)
BY SecondAssumption DEF InTicks

\* What jsonwebtoken takes for the time is less than a second behind it (NumericDate).
LEMMA DateFacts ==
  ASSUME now \in Nat
  PROVE  /\ NumericDate \in Nat
         /\ InTicks(NumericDate) <= now /\ now < InTicks(NumericDate) + Second
BY SecondAssumption DEF NumericDate, InTicks

\* A token expires at the second its expiry names, not later in it.
LEMMA ExpiredInTicks ==
  ASSUME now \in Nat, NEW exp \in Nat, InTicks(exp) <= now
  PROVE  Expired(exp)
<1>1. NumericDate \in Nat /\ now < InTicks(NumericDate) + Second
  BY DateFacts
<1>2. exp * Second < (NumericDate + 1) * Second
  BY <1>1, SecondAssumption DEF InTicks
<1>3. exp < NumericDate + 1
  BY <1>1, <1>2, SecondAssumption
<1> QED
  BY <1>1, <1>3 DEF Expired

\* At the start no client works and no session exists.
LEMMA InitInv == Init => SessionInv
BY IdFacts, TimeAssumption
   DEF Init, SessionInv, TypeOK, PrivateUntilSigned, StepKnows, AccessEndsFirst,
       SessionEndsWithRefresh, PCs

\* A sign-in works on an id that has no key, no tokens and no other client.
LEMMA SignInFresh ==
  ASSUME TypeOK, NEW c \in Clients, SignIn(c)
  PROVE \E id \in SessionIds : /\ sid' = [sid EXCEPT ![c] = id]
                               /\ until[id] = 0 /\ pair[id] = None
                               /\ \A d \in Clients : sid[d] # id
<1>1. PICK u \in rows : \E id \in FreshIds(u) : sid' = [sid EXCEPT ![c] = id]
  BY DEF SignIn
<1>2. PICK id \in FreshIds(u) : sid' = [sid EXCEPT ![c] = id]
  BY <1>1
<1>3. id \in SessionIds /\ until[id] = 0 /\ pair[id] = None /\ \A d \in Clients : sid[d] # id
  BY IdFacts DEF FreshIds, TypeOK
<1> QED
  BY <1>2, <1>3

\* Every action keeps the types (the module's TypeOK).
LEMMA TypeStep == SessionInv /\ [Next]_vars => TypeOK'
<1> SUFFICES ASSUME SessionInv, [Next]_vars PROVE TypeOK'
  OBVIOUS
<1> USE LifeAssumption, TimeAssumption
<1>0. TypeOK /\ StepKnows
  BY DEF SessionInv
<1>1. ASSUME NEW c \in Clients, SignIn(c) PROVE TypeOK'
  <2>1. PICK id \in SessionIds : sid' = [sid EXCEPT ![c] = id]
    BY <1>0, <1>1, SignInFresh
  <2> QED
    BY <1>0, <1>1, <2>1 DEF SignIn, TypeOK, PCs
<1>2. ASSUME NEW c \in Clients, SetSession(c) PROVE TypeOK'
  <2>1. now + InTicks(SessionTime) \in Nat
    BY <1>0, TickFacts DEF TypeOK, SessionTime
  <2> QED
    BY <1>0, <1>2, <2>1 DEF SetSession, TypeOK, PCs
<1>3. ASSUME NEW c \in Clients, Sign(c) PROVE TypeOK'
  <2>1. CreateTokens \in [access : Nat, refresh : Nat]
    BY <1>0, DateFacts DEF TypeOK, CreateTokens
  <2> QED
    BY <1>0, <1>3, <2>1 DEF Sign, Answer, TypeOK, PCs
<1>4. ASSUME NEW c \in Clients, Access(c) PROVE TypeOK'
  BY <1>0, <1>4 DEF Access, Answer, TypeOK, PCs
<1>5. ASSUME NEW c \in Clients, GetSession(c) PROVE TypeOK'
  BY <1>0, <1>5 DEF GetSession, Answer, TypeOK, PCs
<1>6. ASSUME NEW c \in Clients, GetUser(c) PROVE TypeOK'
  BY <1>0, <1>6 DEF GetUser, Answer, TypeOK, PCs
<1>7. ASSUME NEW c \in Clients, DropSession(c) PROVE TypeOK'
  BY <1>0, <1>7 DEF DropSession, Answer, TypeOK, PCs
<1>8. ASSUME NEW c \in Clients, Refresh(c) PROVE TypeOK'
  BY <1>0, <1>8 DEF Refresh, Answer, TypeOK, PCs
<1>9. ASSUME NEW c \in Clients, Fail(c) PROVE TypeOK'
  BY <1>0, <1>9 DEF Fail, Answer, TypeOK, PCs
<1>10. CASE Tick
  BY <1>0, <1>10 DEF Tick, TypeOK
<1>11. ASSUME NEW u \in Users, RemoveUser(u) PROVE TypeOK'
  BY <1>0, <1>11 DEF RemoveUser, TypeOK
<1>12. CASE UNCHANGED vars
  BY <1>0, <1>12 DEF vars, TypeOK
<1> QED
  BY <1>1, <1>2, <1>3, <1>4, <1>5, <1>6, <1>7, <1>8, <1>9, <1>10, <1>11, <1>12 DEF Next

\* No request can name a session before its tokens are handed out (PrivateUntilSigned):
\* a sign-in takes an id nobody works on, the guards take one that has tokens.
LEMMA PrivateStep == SessionInv /\ [Next]_vars => PrivateUntilSigned'
<1> SUFFICES ASSUME SessionInv, [Next]_vars PROVE PrivateUntilSigned'
  OBVIOUS
<1>0. TypeOK /\ PrivateUntilSigned /\ StepKnows
  BY DEF SessionInv
<1>1. ASSUME NEW c \in Clients, SignIn(c) PROVE PrivateUntilSigned'
  <2>1. PICK id \in SessionIds : /\ sid' = [sid EXCEPT ![c] = id]
                               /\ pair[id] = None /\ \A d \in Clients : sid[d] # id
    BY <1>0, <1>1, SignInFresh
  <2> QED
    BY <1>0, <1>1, <2>1 DEF SignIn, TypeOK, PrivateUntilSigned
<1>2. ASSUME NEW c \in Clients, SetSession(c) PROVE PrivateUntilSigned'
  BY <1>0, <1>2 DEF SetSession, TypeOK, PrivateUntilSigned
<1>3. ASSUME NEW c \in Clients, Sign(c) PROVE PrivateUntilSigned'
  BY <1>0, <1>3 DEF Sign, Answer, TypeOK, PrivateUntilSigned, StepKnows
<1>4. ASSUME NEW c \in Clients, Access(c) PROVE PrivateUntilSigned'
  BY <1>0, <1>4 DEF Access, Answer, TypeOK, PrivateUntilSigned
<1>5. ASSUME NEW c \in Clients, GetSession(c) PROVE PrivateUntilSigned'
  BY <1>0, <1>5 DEF GetSession, Answer, TypeOK, PrivateUntilSigned
<1>6. ASSUME NEW c \in Clients, GetUser(c) PROVE PrivateUntilSigned'
  BY <1>0, <1>6 DEF GetUser, Answer, TypeOK, PrivateUntilSigned
<1>7. ASSUME NEW c \in Clients, DropSession(c) PROVE PrivateUntilSigned'
  BY <1>0, <1>7 DEF DropSession, Answer, TypeOK, PrivateUntilSigned
<1>8. ASSUME NEW c \in Clients, Refresh(c) PROVE PrivateUntilSigned'
  BY <1>0, <1>8 DEF Refresh, Answer, TypeOK, PrivateUntilSigned
<1>9. ASSUME NEW c \in Clients, Fail(c) PROVE PrivateUntilSigned'
  BY <1>0, <1>9 DEF Fail, Answer, TypeOK, PrivateUntilSigned
<1>10. CASE Tick
  BY <1>0, <1>10 DEF Tick, PrivateUntilSigned
<1>11. ASSUME NEW u \in Users, RemoveUser(u) PROVE PrivateUntilSigned'
  BY <1>0, <1>11 DEF RemoveUser, PrivateUntilSigned
<1>12. CASE UNCHANGED vars
  BY <1>0, <1>12 DEF vars, PrivateUntilSigned
<1> QED
  BY <1>1, <1>2, <1>3, <1>4, <1>5, <1>6, <1>7, <1>8, <1>9, <1>10, <1>11, <1>12 DEF Next

\* What a client knows of its session stays true under every step of the others
\* (StepKnows): nobody else writes a session without tokens, users never come back,
\* and time does not run past the longest wait for a SET.
LEMMA KnowsStep == SessionInv /\ [Next]_vars => StepKnows'
<1> SUFFICES ASSUME SessionInv, [Next]_vars PROVE StepKnows'
  OBVIOUS
<1> USE LifeAssumption, DelayAssumption
<1>0. TypeOK /\ PrivateUntilSigned /\ StepKnows
  BY DEF SessionInv
<1>a. InTicks(RefreshLife) \in Nat
  BY TickFacts
<1>1. ASSUME NEW c \in Clients, SignIn(c) PROVE StepKnows'
  <2>1. PICK id \in SessionIds : sid' = [sid EXCEPT ![c] = id] /\ until[id] = 0
    BY <1>0, <1>1, SignInFresh
  <2> QED
    BY <1>0, <1>1, <2>1 DEF SignIn, TypeOK, StepKnows
<1>2. ASSUME NEW c \in Clients, SetSession(c) PROVE StepKnows'
  BY <1>0, <1>a, <1>2 DEF SetSession, TypeOK, StepKnows, SessionTime, PrivateUntilSigned
<1>3. ASSUME NEW c \in Clients, Sign(c) PROVE StepKnows'
  BY <1>0, <1>3 DEF Sign, Answer, TypeOK, StepKnows, PrivateUntilSigned
<1>4. ASSUME NEW c \in Clients, Access(c) PROVE StepKnows'
  BY <1>0, <1>4 DEF Access, Answer, TypeOK, StepKnows
<1>5. ASSUME NEW c \in Clients, GetSession(c) PROVE StepKnows'
  BY <1>0, <1>5 DEF GetSession, Answer, TypeOK, StepKnows
<1>6. ASSUME NEW c \in Clients, GetUser(c) PROVE StepKnows'
  BY <1>0, <1>6 DEF GetUser, Answer, TypeOK, StepKnows, FindUser
<1>7. ASSUME NEW c \in Clients, DropSession(c) PROVE StepKnows'
  BY <1>0, <1>7 DEF DropSession, Answer, TypeOK, StepKnows, PrivateUntilSigned
<1>8. ASSUME NEW c \in Clients, Refresh(c) PROVE StepKnows'
  BY <1>0, <1>8 DEF Refresh, Answer, TypeOK, StepKnows
<1>9. ASSUME NEW c \in Clients, Fail(c) PROVE StepKnows'
  BY <1>0, <1>9 DEF Fail, Answer, TypeOK, StepKnows
<1>10. CASE Tick
  BY <1>0, <1>a, <1>10 DEF Tick, SessionTime, TypeOK, StepKnows
<1>11. ASSUME NEW u \in Users, RemoveUser(u) PROVE StepKnows'
  BY <1>0, <1>11 DEF RemoveUser, TypeOK, StepKnows
<1>12. CASE UNCHANGED vars
  BY <1>0, <1>12 DEF vars, StepKnows
<1> QED
  BY <1>1, <1>2, <1>3, <1>4, <1>5, <1>6, <1>7, <1>8, <1>9, <1>10, <1>11, <1>12 DEF Next

\* The three expiries keep their order (AccessEndsFirst, SessionEndsWithRefresh): it is
\* settled when the tokens are signed, by how long the SET may have taken and by how much
\* of a second is cut off, and no step breaks it but the end of a session whose user is
\* gone.
LEMMA OrderStep == SessionInv /\ [Next]_vars => AccessEndsFirst' /\ SessionEndsWithRefresh'
<1> DEFINE Order == AccessEndsFirst /\ SessionEndsWithRefresh
<1> SUFFICES ASSUME SessionInv, [Next]_vars PROVE Order'
  OBVIOUS
<1> USE LifeAssumption, DelayAssumption, SecondAssumption
<1>0. TypeOK /\ PrivateUntilSigned /\ StepKnows /\ AccessEndsFirst /\ SessionEndsWithRefresh
  BY DEF SessionInv
<1>1. ASSUME NEW c \in Clients, SetSession(c) PROVE Order'
  <2>1. pair[sid[c]] = None /\ sid[c] \in SessionIds
    BY <1>0, <1>1 DEF SetSession, PrivateUntilSigned, StepKnows
  <2> QED
    BY <1>0, <1>1, <2>1 DEF SetSession, TypeOK, AccessEndsFirst, SessionEndsWithRefresh
<1>2. ASSUME NEW c \in Clients, Sign(c) PROVE Order'
  <2>1. /\ sid[c] \in SessionIds
        /\ until[sid[c]] <= now + InTicks(RefreshLife)
        /\ now + InTicks(RefreshLife) <= until[sid[c]] + MaxDelay
    BY <1>0, <1>2 DEF Sign, StepKnows
  <2>2. /\ NumericDate \in Nat /\ now \in Nat /\ until[sid[c]] \in Nat
        /\ InTicks(NumericDate) <= now /\ now < InTicks(NumericDate) + Second
    BY <1>0, <2>1, DateFacts DEF TypeOK
  <2>3. /\ InTicks(CreateTokens.access) = InTicks(NumericDate) + InTicks(AccessLife)
        /\ InTicks(CreateTokens.refresh) = InTicks(NumericDate) + InTicks(RefreshLife)
        /\ InTicks(NumericDate) \in Nat /\ InTicks(AccessLife) \in Nat
        /\ InTicks(RefreshLife) \in Nat
    BY <2>2, TickFacts DEF CreateTokens
  <2>4. /\ InTicks(CreateTokens.access) <= until[sid[c]]
        /\ until[sid[c]] < InTicks(CreateTokens.refresh) + Second
        /\ InTicks(CreateTokens.refresh) <= until[sid[c]] + MaxDelay
    BY <2>1, <2>2, <2>3
  <2> HIDE DEF Order
  <2>5. /\ pair' = [pair EXCEPT ![sid[c]] = CreateTokens]
        /\ UNCHANGED <<rows, until>>
    BY <1>2 DEF Sign
  <2> QED
    BY <1>0, <2>1, <2>4, <2>5 DEF Order, TypeOK, AccessEndsFirst, SessionEndsWithRefresh
<1>3. ASSUME NEW c \in Clients, DropSession(c) PROVE Order'
  <2>1. User(sid[c]) \notin rows /\ sid[c] \in SessionIds /\ pair[sid[c]] # None
    BY <1>0, <1>3 DEF DropSession, StepKnows
  <2>2. InTicks(pair[sid[c]].refresh) \in Nat
    BY <1>0, <2>1, TickFacts DEF TypeOK
  <2> QED
    BY <1>0, <1>3, <2>1, <2>2 DEF DropSession, Answer, TypeOK, AccessEndsFirst, SessionEndsWithRefresh
<1>4. ASSUME NEW u \in Users, RemoveUser(u) PROVE Order'
  BY <1>0, <1>4 DEF RemoveUser, TypeOK, AccessEndsFirst, SessionEndsWithRefresh
<1>5. CASE UNCHANGED <<rows, until, pair>>
  BY <1>0, <1>5 DEF AccessEndsFirst, SessionEndsWithRefresh
<1>6. CASE UNCHANGED vars
  BY <1>5, <1>6 DEF vars
<1>7. ASSUME NEW c \in Clients,
             SignIn(c) \/ Access(c) \/ GetSession(c) \/ GetUser(c) \/ Refresh(c) \/ Fail(c)
      PROVE Order'
  BY <1>5, <1>7 DEF SignIn, Access, GetSession, GetUser, Refresh, Fail
<1>8. CASE Tick
  BY <1>5, <1>8 DEF Tick
<1> QED
  BY <1>1, <1>2, <1>3, <1>4, <1>6, <1>7, <1>8 DEF Next

\* SessionInv holds in every state of every behaviour of the sessions.
THEOREM SessionsInvariant == Spec => []SessionInv
<1>1. SessionInv /\ [Next]_vars => SessionInv'
  BY TypeStep, PrivateStep, KnowsStep, OrderStep DEF SessionInv
<1> QED
  BY InitInv, <1>1, PTL DEF Spec

\* Every behaviour keeps the types of the state.
THEOREM SessionsTypes == Spec => []TypeOK
<1>1. SessionInv => TypeOK
  BY DEF SessionInv
<1> QED
  BY <1>1, SessionsInvariant, PTL

\* What SessionsProcessor.create stores outlives the refresh token it hands out by less than
\* the second the token's times are cut to, and the token the key by no more than the wait.
THEOREM SessionsEnd == Spec => []SessionEndsWithRefresh
<1>1. SessionInv => SessionEndsWithRefresh
  BY DEF SessionInv
<1> QED
  BY <1>1, SessionsInvariant, PTL

\* The access guard refuses no token that is still good: JwtAccessStrategy.validate finds
\* the session whenever the token has not expired and the user is there.
THEOREM AccessIsKept == Spec => RefusedForCause
<1> DEFINE Good(c) == Expired(pair[sid'[c]].access) \/ User(sid'[c]) \notin rows
<1>1. ASSUME SessionInv, Next, NEW c \in Clients, answer[c] # "refused", answer'[c] = "refused"
      PROVE Good(c)
  <2>0. TypeOK /\ StepKnows /\ AccessEndsFirst
    BY <1>1 DEF SessionInv
  <2>1. Access(c) \/ GetSession(c) \/ DropSession(c)
    BY <1>1, <2>0 DEF Next, SignIn, SetSession, Sign, Access, GetSession, GetUser, DropSession,
       Refresh, Fail, Tick, RemoveUser, Answer, TypeOK
  <2>2. CASE Access(c)
    <3>1. PICK id \in SessionIds : /\ pair[id] # None
                                   /\ sid' = [sid EXCEPT ![c] = id]
                                   /\ AccessVerifies(id) => answer' = [answer EXCEPT ![c] = "none"]
      BY <2>2 DEF Access
    <3>2. ~AccessVerifies(id)
      BY <1>1, <2>0, <3>1 DEF TypeOK
    <3> QED
      BY <2>0, <3>1, <3>2 DEF AccessVerifies, TypeOK
  <2>3. CASE GetSession(c)
    <3>1. ~Cached(sid[c]) /\ sid'[c] = sid[c]
      BY <1>1, <2>3 DEF GetSession
    <3>2. sid[c] \in SessionIds /\ pair[sid[c]] # None
      BY <2>0, <2>3 DEF GetSession, StepKnows
    <3>3. User(sid[c]) \in rows => InTicks(pair[sid[c]].access) <= until[sid[c]]
      BY <2>0, <3>2 DEF AccessEndsFirst
    <3>4. pair[sid[c]].access \in Nat /\ now \in Nat /\ until[sid[c]] <= now
      BY <2>0, <3>1, <3>2 DEF Cached, TypeOK
    <3>5. User(sid[c]) \in rows => InTicks(pair[sid[c]].access) <= now
      BY <2>0, <3>2, <3>3, <3>4, TickFacts DEF TypeOK
    <3> QED
      BY <3>1, <3>4, <3>5, ExpiredInTicks
  <2>4. CASE DropSession(c)
    BY <2>0, <2>4 DEF DropSession, StepKnows
  <2> QED
    BY <2>1, <2>2, <2>3, <2>4
<1>2. SessionInv /\ [Next]_vars =>
        [\A c \in Clients : answer[c] # "refused" /\ answer'[c] = "refused" => Good(c)]_vars
  BY <1>1
<1> QED
  BY <1>2, SessionsInvariant, PTL DEF Spec, RefusedForCause

\* The deletion in JwtAccessStrategy.validate, three awaits after the key was read, ends
\* no session but that of a user that is gone, and no sign-in overwrites one.
THEOREM SessionsAreKept == Spec => EndsByLapseOrOrphan
<1>1. ASSUME SessionInv, Next, NEW id \in SessionIds, Cached(id), until'[id] # until[id]
      PROVE User(id) \notin rows
  <2>0. TypeOK /\ StepKnows
    BY <1>1 DEF SessionInv
  <2>1. PICK c \in Clients : SetSession(c) \/ DropSession(c)
    BY <1>1 DEF Next, SignIn, Sign, Access, GetSession, GetUser, Refresh, Fail, Tick, RemoveUser
  <2>2. sid[c] = id
    BY <1>1, <2>0, <2>1 DEF SetSession, DropSession, TypeOK
  <2>3. CASE SetSession(c)
    BY <1>1, <2>0, <2>2, <2>3 DEF SetSession, StepKnows, Cached, TypeOK
  <2>4. CASE DropSession(c)
    BY <2>0, <2>2, <2>4 DEF DropSession, StepKnows
  <2> QED
    BY <2>1, <2>3, <2>4
<1>2. SessionInv /\ [Next]_vars =>
        [\A id \in SessionIds : Cached(id) /\ until'[id] # until[id] => User(id) \notin rows]_vars
  BY <1>1
<1> QED
  BY <1>2, SessionsInvariant, PTL DEF Spec, EndsByLapseOrOrphan
=============================================================================
