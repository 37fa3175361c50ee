--------------------------- MODULE GatewayProofs ---------------------------
(* The inductive invariant of Gateway and the properties that follow from it,  *)
(* proved for any clients, addresses, limits and scenarios.                    *)
EXTENDS Gateway, FiniteSetTheorems, TLAPS

----------------------------------------------------------------------------
(* Operators *)

\* An honest request is counted among its own sender's, through the proxy or not.
LEMMA HonestTracker == \A c \in Honest : Tracker(c) = Origin[c]
BY ClientsAssumption DEF Honest, Tracker, Ip

\* Any request is counted among those of the address it names, else of its sender.
LEMMA TrackerNamesSender == \A c \in Clients : Tracker(c) \in {Origin[c], Header[c]}
BY ClientsAssumption DEF Tracker, Ip

\* Every limit allows a request.
LEMMA LimitPositive == \A r : Limit(r) \in Nat \ {0}
BY LimitAssumption DEF Limit

\* Every answer of a step is one of Answers, and only TooMany has status 429.
LEMMA AnswersFit ==
  /\ Value \in Answers /\ Pending \in Answers
  /\ \A e \in {TooMany, Unauthorized, Unhealthy, Internal, InvalidPayload} : Refused(e) \in Answers
  /\ \A r : Outcomes(r) \subseteq Answers
  /\ Value.status # 429 /\ Pending.status # 429
  /\ \A e \in {Unauthorized, Unhealthy, Internal, InvalidPayload} : Refused(e).status # 429
  /\ \A r : \A a \in Outcomes(r) : a.status # 429
  /\ Value.ok /\ ~Refused(Unhealthy).ok
<1>1. /\ Refused(TooMany) \in Answers /\ Refused(Unauthorized) \in Answers
      /\ Refused(Unhealthy) \in Answers /\ Refused(Internal) \in Answers
      /\ Value \in Answers /\ Pending \in Answers
  BY DEF Answers
<1>2. \A s \in {400, 403, 404} : Refused(Exception(s, Text)) \in Answers
  BY DEF Answers
<1>3. Refused(InvalidPayload) \in Answers
  BY <1>2 DEF InvalidPayload
<1>4. /\ Value.status = 200 /\ Pending.status = 0 /\ Value.ok
      /\ \A s, m : Refused(Exception(s, m)).status = s /\ ~Refused(Exception(s, m)).ok
  BY DEF Value, Pending, Refused, Exception
<1>5. \A r : Outcomes(r) \subseteq {Value, Refused(Internal)}
                        \cup {Refused(Exception(s, Text)) : s \in {400, 403, 404}}
  BY DEF Outcomes
<1>6. /\ Refused(Unauthorized).status = 401 /\ Refused(Internal).status = 500
      /\ Refused(Unhealthy).status = 503 /\ Refused(InvalidPayload).status = 400
      /\ ~Refused(Unhealthy).ok
  BY <1>4 DEF Unauthorized, Internal, Unhealthy, InvalidPayload
<1>7. \A r : \A a \in Outcomes(r) : a.status # 429
  <2> SUFFICES ASSUME NEW r, NEW a \in Outcomes(r) PROVE a.status # 429
    OBVIOUS
  <2>1. CASE a \in {Value, Refused(Internal)}
    BY <2>1, <1>4, <1>6
  <2>2. CASE a \in {Refused(Exception(s, Text)) : s \in {400, 403, 404}}
    BY <2>2, <1>4
  <2> QED
    BY <2>1, <2>2, <1>5
<1> QED
  BY <1>1, <1>2, <1>3, <1>4, <1>5, <1>6, <1>7

\* The steps after the throttler are steps, and none of them adds a record.
LEMMA AfterThrottlerFits == \A r : AfterThrottler(r) \in {"guard", "handler", "pipe"}
BY DEF AfterThrottler

\* Live records and requests about to add them are finitely many.
LEMMA FiniteParts ==
  ASSUME IsFiniteSet(records), NEW t, NEW r
  PROVE  /\ IsFiniteSet(Live(t, r)) /\ Cardinality(Live(t, r)) \in Nat
         /\ IsFiniteSet(Adding(t, r)) /\ Cardinality(Adding(t, r)) \in Nat
         /\ IsFiniteSet(SendersOf(t)) /\ Cardinality(SendersOf(t)) \in Nat
         /\ Cardinality(Adding(t, r)) <= Cardinality(SendersOf(t))
<1>1. Live(t, r) \in SUBSET records /\ SendersOf(t) \in SUBSET Clients
  BY DEF Live, SendersOf
<1>2. Adding(t, r) \in SUBSET SendersOf(t)
  BY DEF Adding, SendersOf
<1>3. IsFiniteSet(Live(t, r)) /\ IsFiniteSet(SendersOf(t))
  BY <1>1, FS_Subset, ClientsAssumption
<1>4. IsFiniteSet(Adding(t, r)) /\ Cardinality(Adding(t, r)) <= Cardinality(SendersOf(t))
  BY <1>2, <1>3, FS_Subset
<1> QED
  BY <1>3, <1>4, FS_CardinalityType

----------------------------------------------------------------------------
(* The invariant *)

\* At the start no request is under way and no record exists.
LEMMA InitInv == Init => GatewayInv
<1> SUFFICES ASSUME Init PROVE GatewayInv
  OBVIOUS
<1>1. TypeOK
  BY AnswersFit, ScenariosAssumption DEF Init, TypeOK, PCs
<1>2. RoutesFit /\ CheckInv /\ FindingsInv
  BY DEF Init, RoutesFit, CheckInv, FindingsInv
<1>3. IsFiniteSet(records)
  BY FS_EmptySet DEF Init
<1>4. ASSUME NEW t \in Trackers, NEW r \in Routes
      PROVE  Cardinality(Live(t, r)) + Cardinality(Adding(t, r))
               <= Limit(r) - 1 + Cardinality(SendersOf(t))
  <2>1. Live(t, r) = {} /\ Adding(t, r) = {}
    BY DEF Init, Live, Adding
  <2>2. Cardinality(SendersOf(t)) \in Nat
    BY <1>3, FiniteParts
  <2> QED
    BY <2>1, <2>2, LimitPositive, FS_EmptySet
<1> QED
  BY <1>1, <1>2, <1>3, <1>4 DEF GatewayInv, OverrunInv

\* Every step keeps the types, and gives every request under way its route.
LEMMA TypeStep == GatewayInv /\ [Next]_vars => TypeOK' /\ RoutesFit'
<1> SUFFICES ASSUME GatewayInv, [Next]_vars PROVE TypeOK' /\ RoutesFit'
  OBVIOUS
<1>0. TypeOK /\ RoutesFit /\ IsFiniteSet(records)
  BY DEF GatewayInv, OverrunInv
<1>1. ASSUME NEW c \in Clients, Arrive(c) PROVE TypeOK' /\ RoutesFit'
  <2>1. PICK r \in scenario.asks[c] :
          /\ route' = [route EXCEPT ![c] = r]
          /\ pc' = [pc EXCEPT ![c] = IF IsSkipped(r) THEN AfterThrottler(r) ELSE "getRecord"]
    BY <1>1 DEF Arrive
  <2>2. r \in Routes
    BY <1>0, ScenariosAssumption DEF TypeOK
  <2>3. pc'[c] \in PCs \ {"addRecord", "checking"} /\ (pc'[c] = "getRecord" => r \notin ReadOnly)
    BY <1>0, <2>1, AfterThrottlerFits DEF TypeOK, PCs, IsSkipped
  <2> QED
    BY <1>0, <1>1, <2>1, <2>2, <2>3, AnswersFit DEF Arrive, TypeOK, RoutesFit, checkVars
<1>2. ASSUME NEW c \in Clients, GetRecord(c) PROVE TypeOK' /\ RoutesFit'
  <2>1. CASE Full(c, route[c])
    BY <1>0, <1>2, <2>1, AnswersFit DEF GetRecord, Reply, TypeOK, RoutesFit, PCs, checkVars
  <2>2. CASE ~Full(c, route[c])
    BY <1>0, <1>2, <2>2 DEF GetRecord, GoTo, TypeOK, RoutesFit, PCs, checkVars
  <2> QED
    BY <2>1, <2>2
<1>3. ASSUME NEW c \in Clients, AddRecord(c) PROVE TypeOK' /\ RoutesFit'
  <2>1. Own(c, route[c]) \in SUBSET records
    BY DEF Own
  <2>2. Cardinality(Own(c, route[c])) + 1 \in Nat
    BY <1>0, <2>1, FS_Subset, FS_CardinalityType
  <2>3. route[c] \in Routes \ ReadOnly
    BY <1>0, <1>3 DEF AddRecord, RoutesFit
  <2>4. <<c, route[c], Cardinality(Own(c, route[c])) + 1>> \in Clients \X (Routes \ ReadOnly) \X Nat
    BY <2>2, <2>3
  <2>5. AfterThrottler(route[c]) \in PCs \ {"idle", "getRecord", "addRecord", "checking"}
    BY AfterThrottlerFits DEF PCs
  <2>6. records' \subseteq Clients \X (Routes \ ReadOnly) \X Nat
    BY <1>0, <1>3, <2>4 DEF AddRecord, TypeOK
  <2> QED
    BY <1>0, <1>3, <2>3, <2>5, <2>6 DEF AddRecord, GoTo, TypeOK, RoutesFit, checkVars
<1>4. ASSUME NEW c \in Clients, StorageFails(c) PROVE TypeOK' /\ RoutesFit'
  BY <1>0, <1>4, AnswersFit DEF StorageFails, Reply, TypeOK, RoutesFit, PCs, checkVars
<1>5. ASSUME NEW c \in Clients, RouteGuard(c) PROVE TypeOK' /\ RoutesFit'
  BY <1>0, <1>5, AnswersFit DEF RouteGuard, Reply, GoTo, TypeOK, RoutesFit, PCs, checkVars
<1>6. ASSUME NEW c \in Clients, Validate(c) PROVE TypeOK' /\ RoutesFit'
  BY <1>0, <1>6, AnswersFit DEF Validate, Reply, GoTo, TypeOK, RoutesFit, PCs, checkVars
<1>7. ASSUME NEW c \in Clients, Handle(c) PROVE TypeOK' /\ RoutesFit'
  <2>1. PICK a \in Outcomes(route[c]), opens \in BOOLEAN :
          /\ Reply(c, a)
          /\ up' = IF opens THEN up \cup {"rabbit"} ELSE up
          /\ IF up' = up THEN UNCHANGED changed ELSE Changes("rabbit")
    BY <1>7 DEF Handle
  <2>2. a \in Answers
    BY AnswersFit
  <2>3. up' \subseteq Dependencies /\ changed' \in [Clients -> SUBSET Dependencies]
    BY <1>0, <2>1 DEF TypeOK, Dependencies, Changes
  <2>4. \A d \in Clients : pc[d] # "checking" => changed'[d] = {}
    BY <1>0, <2>1 DEF TypeOK, Changes
  <2> QED
    BY <1>0, <1>7, <2>1, <2>2, <2>3, <2>4 DEF Handle, Reply, TypeOK, RoutesFit, PCs
<1>8. ASSUME NEW c \in Clients, StartCheck(c) PROVE TypeOK' /\ RoutesFit'
  <2>1. AtOnce \ up \subseteq Dependencies
    BY DEF Dependencies, AtOnce
  <2> QED
    BY <1>0, <1>8, <2>1 DEF StartCheck, GoTo, TypeOK, RoutesFit, PCs
<1>9. ASSUME NEW c \in Clients, Indicate(c) PROVE TypeOK' /\ RoutesFit'
  <2> DEFINE Down(d) == found[c] \cup ({d} \ up)
  <2>1. PICK d \in asking[c] :
          /\ asking' = [asking EXCEPT ![c] = @ \ {d}]
          /\ IF asking[c] = {d}
               THEN /\ Reply(c, IF Down(d) = {} THEN Value ELSE Refused(Unhealthy))
                    /\ found' = [found EXCEPT ![c] = {}]
                    /\ changed' = [changed EXCEPT ![c] = {}]
               ELSE /\ GoTo(c, "checking")
                    /\ found' = [found EXCEPT ![c] = Down(d)]
                    /\ UNCHANGED changed
    BY <1>9 DEF Indicate
  <2>2. Down(d) \subseteq Dependencies /\ asking[c] \ {d} \subseteq Later
    BY <1>0 DEF TypeOK, Dependencies, Later
  <2>3. CASE asking[c] = {d}
    <3>1. PICK a \in Answers : Reply(c, a)
      BY <2>1, <2>3, AnswersFit
    <3>2. /\ asking' = [asking EXCEPT ![c] = {}] /\ found' = [found EXCEPT ![c] = {}]
          /\ changed' = [changed EXCEPT ![c] = {}]
      BY <2>1, <2>3
    <3> QED
      BY <1>0, <1>9, <3>1, <3>2 DEF Indicate, Reply, TypeOK, RoutesFit, PCs
  <2>4. CASE asking[c] # {d}
    BY <1>0, <1>9, <2>1, <2>2, <2>4 DEF Indicate, GoTo, TypeOK, RoutesFit, PCs
  <2> QED
    BY <2>3, <2>4
<1>10. ASSUME NEW c \in Clients, NEW r \in Routes, Lapse(c, r) PROVE TypeOK' /\ RoutesFit'
  BY <1>0, <1>10 DEF Lapse, TypeOK, RoutesFit, checkVars
<1>11. ASSUME NEW d \in Dependencies, Fail(d) PROVE TypeOK' /\ RoutesFit'
  BY <1>0, <1>11, ScenariosAssumption DEF Fail, Changes, TypeOK, RoutesFit
<1>12. ASSUME NEW d \in Dependencies, Recover(d) PROVE TypeOK' /\ RoutesFit'
  BY <1>0, <1>12 DEF Recover, Changes, TypeOK, RoutesFit
<1>13. CASE Restart
  BY <1>0, <1>13, ScenariosAssumption DEF Restart, TypeOK, RoutesFit, PCs
<1>14. CASE UNCHANGED vars
  BY <1>0, <1>14 DEF vars, checkVars, TypeOK, RoutesFit
<1> QED
  BY <1>1, <1>2, <1>3, <1>4, <1>5, <1>6, <1>7, <1>8, <1>9, <1>10, <1>11, <1>12, <1>13, <1>14
  DEF Next, Step

\* The bound OverrunInv puts on one window.
Bound(t, r) ==
  Cardinality(Live(t, r)) + Cardinality(Adding(t, r)) <= Limit(r) - 1 + Cardinality(SendersOf(t))

\* What stands on the right of the bound does not change.
LEMMA BoundConstant == \A t, r : Limit(r)' = Limit(r) /\ SendersOf(t)' = SendersOf(t) /\ Trackers' = Trackers
BY DEF Limit, SendersOf, Tracker, Ip, Trackers

\* The bound on a window outlives a step by which nothing joins it.
LEMMA BoundKept ==
  ASSUME NEW t, NEW r, IsFiniteSet(records), Bound(t, r),
         Live(t, r)' \subseteq Live(t, r), Adding(t, r)' \subseteq Adding(t, r)
  PROVE  Bound(t, r)'
<1>1. /\ Cardinality(Live(t, r)') \in Nat /\ Cardinality(Live(t, r)') <= Cardinality(Live(t, r))
      /\ Cardinality(Adding(t, r)') \in Nat /\ Cardinality(Adding(t, r)') <= Cardinality(Adding(t, r))
  BY FiniteParts, FS_Subset, FS_CardinalityType
<1>2. Cardinality(Live(t, r)) \in Nat /\ Cardinality(Adding(t, r)) \in Nat
      /\ Cardinality(SendersOf(t)) \in Nat /\ Limit(r) \in Nat
  BY FiniteParts, LimitPositive
<1>3. Cardinality(Live(t, r)') + Cardinality(Adding(t, r)') <= Limit(r) - 1 + Cardinality(SendersOf(t))
  BY <1>1, <1>2 DEF Bound
<1> QED
  BY <1>3, BoundConstant DEF Bound

\* No step but GetRecord brings a request to the storage, none but AddRecord a record.
LEMMA OverrunKept ==
  ASSUME OverrunInv, records' \subseteq records,
         \A c \in Clients : pc'[c] = "addRecord" => pc[c] = "addRecord" /\ route'[c] = route[c]
  PROVE  OverrunInv'
<1>1. IsFiniteSet(records) /\ IsFiniteSet(records')
  BY FS_Subset DEF OverrunInv
<1>2. \A t, r : Live(t, r)' \subseteq Live(t, r)
  BY DEF Live, Tracker, Ip
<1>3. \A t, r : Adding(t, r)' \subseteq Adding(t, r)
  BY DEF Adding, Tracker, Ip
<1>4. \A t \in Trackers, r \in Routes : Bound(t, r)'
  BY <1>1, <1>2, <1>3, BoundKept DEF OverrunInv, Bound
<1> QED
  BY <1>1, <1>4, BoundConstant DEF OverrunInv, Bound

\* The count is below the limit, and whoever else counted the same is another request.
LEMMA GetRecordOverrun ==
  ASSUME GatewayInv, NEW c \in Clients, GetRecord(c)
  PROVE  OverrunInv'
<1>0. TypeOK /\ OverrunInv /\ RoutesFit /\ IsFiniteSet(records)
  BY DEF GatewayInv, OverrunInv
<1>1. records' = records /\ \A t, r : Live(t, r)' = Live(t, r)
  BY DEF GetRecord, Live, Tracker, Ip
<1>2. CASE Full(c, route[c])
  BY <1>0, <1>1, <1>2, OverrunKept DEF GetRecord, Reply, TypeOK
<1>3. CASE ~Full(c, route[c])
  <2> DEFINE t0 == Tracker(c)
             r0 == route[c]
  <2>1. pc' = [pc EXCEPT ![c] = "addRecord"] /\ route' = route
    BY <1>3 DEF GetRecord, GoTo
  <2>2. ASSUME NEW t \in Trackers, NEW r \in Routes PROVE Bound(t, r)'
    <3>1. CASE t = t0 /\ r = r0
      <4>1. Cardinality(Live(t, r)) \in Nat /\ Cardinality(SendersOf(t)) \in Nat
        BY <1>0, FiniteParts
      <4>2. Cardinality(Live(t, r)) < Limit(r)
        BY <1>3, <3>1, <4>1, LimitPositive DEF Full
      <4>3. Adding(t, r)' \in SUBSET SendersOf(t)
        BY DEF Adding, SendersOf, Tracker, Ip
      <4>4. Cardinality(Adding(t, r)') \in Nat /\ Cardinality(Adding(t, r)') <= Cardinality(SendersOf(t))
        BY <4>3, <1>0, FiniteParts, FS_Subset, FS_CardinalityType
      <4>5. Cardinality(Live(t, r)') + Cardinality(Adding(t, r)') <= Limit(r) - 1 + Cardinality(SendersOf(t))
        BY <1>1, <4>1, <4>2, <4>4, LimitPositive
      <4> QED
        BY <4>5, BoundConstant DEF Bound
    <3>2. CASE ~(t = t0 /\ r = r0)
      <4>1. Adding(t, r)' \subseteq Adding(t, r)
        BY <1>0, <2>1, <3>2 DEF Adding, TypeOK, Tracker, Ip
      <4> QED
        BY <1>0, <1>1, <4>1, BoundKept DEF OverrunInv, Bound
    <3> QED
      BY <3>1, <3>2
  <2> QED
    BY <1>0, <1>1, <2>2, BoundConstant DEF OverrunInv, Bound
<1> QED
  BY <1>2, <1>3

\* A request that adds its record no longer is about to.
LEMMA AddRecordOverrun ==
  ASSUME GatewayInv, NEW c \in Clients, AddRecord(c)
  PROVE  OverrunInv'
<1> DEFINE t0 == Tracker(c)
           r0 == route[c]
           x == <<c, route[c], Cardinality(Own(c, route[c])) + 1>>
<1>0. TypeOK /\ OverrunInv /\ IsFiniteSet(records)
  BY DEF GatewayInv, OverrunInv
<1>1. /\ records' = records \cup {x} /\ route' = route /\ pc[c] = "addRecord"
      /\ \E q \in {"guard", "handler", "pipe"} : pc' = [pc EXCEPT ![c] = q]
  BY AfterThrottlerFits DEF AddRecord, GoTo
<1>2. IsFiniteSet(records')
  BY <1>0, <1>1, FS_AddElement
<1>3. ASSUME NEW t \in Trackers, NEW r \in Routes PROVE Bound(t, r)'
  <2>1. x[1] = c /\ x[2] = r0
    OBVIOUS
  <2>2. CASE t = t0 /\ r = r0
    <3>1. Live(t, r)' = Live(t, r) \cup {x}
      BY <1>1, <2>1, <2>2 DEF Live, Tracker, Ip
    <3>2. Adding(t, r)' = Adding(t, r) \ {c} /\ c \in Adding(t, r)
      BY <1>0, <1>1, <2>2 DEF Adding, TypeOK, Tracker, Ip
    <3>3. IsFiniteSet(Live(t, r)) /\ IsFiniteSet(Adding(t, r))
          /\ Cardinality(Live(t, r)) \in Nat /\ Cardinality(Adding(t, r)) \in Nat
          /\ Cardinality(SendersOf(t)) \in Nat /\ Limit(r) \in Nat
      BY <1>0, FiniteParts, LimitPositive
    <3>4. Cardinality(Live(t, r)') \in {Cardinality(Live(t, r)), Cardinality(Live(t, r)) + 1}
      BY <3>1, <3>3, FS_AddElement
    <3>5. Cardinality(Adding(t, r)') = Cardinality(Adding(t, r)) - 1
      BY <3>2, <3>3, FS_RemoveElement
    <3>6. Bound(t, r)
      BY <1>0 DEF OverrunInv, Bound
    <3>7. Cardinality(Live(t, r)') + Cardinality(Adding(t, r)') <= Limit(r) - 1 + Cardinality(SendersOf(t))
      BY <3>3, <3>4, <3>5, <3>6 DEF Bound
    <3> QED
      BY <3>7, BoundConstant DEF Bound
  <2>3. CASE ~(t = t0 /\ r = r0)
    <3>1. Live(t, r)' = Live(t, r)
      BY <1>1, <2>1, <2>3 DEF Live, Tracker, Ip
    <3>2. Adding(t, r)' \subseteq Adding(t, r)
      BY <1>0, <1>1 DEF Adding, TypeOK, Tracker, Ip
    <3> QED
      BY <1>0, <3>1, <3>2, BoundKept DEF OverrunInv, Bound
  <2> QED
    BY <2>2, <2>3
<1> QED
  BY <1>2, <1>3, BoundConstant DEF OverrunInv, Bound

\* Every step keeps the bound on every window.
LEMMA OverrunStep == GatewayInv /\ [Next]_vars => OverrunInv'
<1> SUFFICES ASSUME GatewayInv, [Next]_vars PROVE OverrunInv'
  OBVIOUS
<1>0. TypeOK /\ OverrunInv
  BY DEF GatewayInv
<1>1. ASSUME NEW c \in Clients, Arrive(c) PROVE OverrunInv'
  <2>1. PICK r \in scenario.asks[c] :
          /\ route' = [route EXCEPT ![c] = r]
          /\ pc' = [pc EXCEPT ![c] = IF IsSkipped(r) THEN AfterThrottler(r) ELSE "getRecord"]
    BY <1>1 DEF Arrive
  <2>2. pc'[c] # "addRecord"
    BY <1>0, <2>1, AfterThrottlerFits DEF TypeOK
  <2> QED
    BY <1>0, <1>1, <2>1, <2>2, OverrunKept DEF Arrive, TypeOK
<1>2. ASSUME NEW c \in Clients, GetRecord(c) PROVE OverrunInv'
  BY <1>2, GetRecordOverrun
<1>3. ASSUME NEW c \in Clients, AddRecord(c) PROVE OverrunInv'
  BY <1>3, AddRecordOverrun
<1>4. ASSUME NEW c \in Clients,
             StorageFails(c) \/ RouteGuard(c) \/ Validate(c) \/ Handle(c) \/ StartCheck(c) \/ Indicate(c)
      PROVE  OverrunInv'
  <2>1. records' = records
    BY <1>4 DEF StorageFails, RouteGuard, Validate, Handle, StartCheck, Indicate
  <2>2. (\E q \in {"idle", "handler", "checking"} : pc' = [pc EXCEPT ![c] = q])
        /\ (route' = route \/ route' = [route EXCEPT ![c] = None])
    BY <1>4 DEF StorageFails, RouteGuard, Validate, Handle, StartCheck, Indicate, Reply, GoTo
  <2> QED
    BY <1>0, <2>1, <2>2, OverrunKept DEF TypeOK
<1>5. ASSUME NEW c \in Clients, NEW r \in Routes, Lapse(c, r) PROVE OverrunInv'
  BY <1>0, <1>5, OverrunKept DEF Lapse
<1>6. ASSUME NEW d \in Dependencies, Fail(d) \/ Recover(d) PROVE OverrunInv'
  BY <1>0, <1>6, OverrunKept DEF Fail, Recover
<1>7. CASE Restart
  BY <1>0, <1>7, OverrunKept DEF Restart
<1>8. CASE UNCHANGED vars
  BY <1>0, <1>8, OverrunKept DEF vars
<1> QED
  BY <1>1, <1>2, <1>3, <1>4, <1>5, <1>6, <1>7, <1>8 DEF Next, Step

\* Steps that leave the dependencies and the checks under way alone keep CheckInv.
LEMMA CheckKept ==
  ASSUME GatewayInv, up' = up, UNCHANGED checkVars,
         \A c \in Clients : pc'[c] = "checking" => pc[c] = "checking"
  PROVE  CheckInv' /\ FindingsInv'
BY DEF GatewayInv, CheckInv, FindingsInv, checkVars

\* A change of a dependency is noted by every check under way.
LEMMA ChangeNoted ==
  ASSUME GatewayInv, NEW d, Changes(d), UNCHANGED <<found, asking>>,
         \A e \in Dependencies \ {d} : e \in up' <=> e \in up,
         \A c \in Clients : pc'[c] = "checking" => pc[c] = "checking"
  PROVE  CheckInv' /\ FindingsInv'
BY DEF GatewayInv, CheckInv, FindingsInv, Changes

\* Every step leaves the checks under way with true findings.
LEMMA CheckStep == GatewayInv /\ [Next]_vars => CheckInv' /\ FindingsInv'
<1> SUFFICES ASSUME GatewayInv, [Next]_vars PROVE CheckInv' /\ FindingsInv'
  OBVIOUS
<1>0. TypeOK /\ CheckInv /\ FindingsInv
  BY DEF GatewayInv
<1>1. ASSUME NEW c \in Clients, Arrive(c) PROVE CheckInv' /\ FindingsInv'
  <2>1. PICK r \in scenario.asks[c] :
          pc' = [pc EXCEPT ![c] = IF IsSkipped(r) THEN AfterThrottler(r) ELSE "getRecord"]
    BY <1>1 DEF Arrive
  <2>2. pc'[c] # "checking"
    BY <1>0, <2>1, AfterThrottlerFits DEF TypeOK
  <2> QED
    BY <1>0, <1>1, <2>1, <2>2, CheckKept DEF Arrive, TypeOK
<1>2. ASSUME NEW c \in Clients,
             GetRecord(c) \/ AddRecord(c) \/ StorageFails(c) \/ RouteGuard(c) \/ Validate(c)
      PROVE  CheckInv' /\ FindingsInv'
  <2>1. up' = up /\ UNCHANGED checkVars
    BY <1>2 DEF GetRecord, AddRecord, StorageFails, RouteGuard, Validate, checkVars
  <2>2. \E q \in {"idle", "addRecord", "guard", "handler", "pipe"} : pc' = [pc EXCEPT ![c] = q]
    BY <1>2, AfterThrottlerFits DEF GetRecord, AddRecord, StorageFails, RouteGuard, Validate, Reply, GoTo
  <2> QED
    BY <1>0, <2>1, <2>2, CheckKept DEF TypeOK
<1>3. ASSUME NEW c \in Clients, Handle(c) PROVE CheckInv' /\ FindingsInv'
  <2>1. PICK opens \in BOOLEAN :
          /\ pc' = [pc EXCEPT ![c] = "idle"]
          /\ up' = IF opens THEN up \cup {"rabbit"} ELSE up
          /\ IF up' = up THEN UNCHANGED changed ELSE Changes("rabbit")
          /\ UNCHANGED <<found, asking>>
    BY <1>3 DEF Handle, Reply
  <2>2. \A e \in Clients : pc'[e] = "checking" => pc[e] = "checking"
    BY <1>0, <2>1 DEF TypeOK
  <2>3. CASE up' = up
    BY <2>1, <2>2, <2>3, CheckKept DEF checkVars
  <2>4. CASE up' # up
    BY <2>1, <2>2, <2>4, ChangeNoted
  <2> QED
    BY <2>3, <2>4
<1>4. ASSUME NEW c \in Clients, StartCheck(c) PROVE CheckInv' /\ FindingsInv'
  <2>1. /\ pc' = [pc EXCEPT ![c] = "checking"] /\ up' = up /\ changed' = changed
        /\ found' = [found EXCEPT ![c] = AtOnce \ up]
        /\ asking' = [asking EXCEPT ![c] = Later]
    BY <1>4 DEF StartCheck, GoTo
  <2>2. Dependencies \ Later = AtOnce /\ AtOnce \cap Later = {}
    BY DEF Dependencies, AtOnce, Later
  <2> QED
    BY <1>0, <2>1, <2>2 DEF TypeOK, CheckInv, FindingsInv
<1>5. ASSUME NEW c \in Clients, Indicate(c) PROVE CheckInv' /\ FindingsInv'
  <2> DEFINE Down(d) == found[c] \cup ({d} \ up)
  <2>1. PICK d \in asking[c] :
          /\ asking' = [asking EXCEPT ![c] = @ \ {d}]
          /\ IF asking[c] = {d}
               THEN /\ Reply(c, IF Down(d) = {} THEN Value ELSE Refused(Unhealthy))
                    /\ found' = [found EXCEPT ![c] = {}]
                    /\ changed' = [changed EXCEPT ![c] = {}]
               ELSE /\ GoTo(c, "checking")
                    /\ found' = [found EXCEPT ![c] = Down(d)]
                    /\ UNCHANGED changed
    BY <1>5 DEF Indicate
  <2>2. up' = up /\ pc[c] = "checking"
    BY <1>5 DEF Indicate
  <2>3. CASE asking[c] = {d}
    BY <1>0, <2>1, <2>2, <2>3 DEF Reply, TypeOK, CheckInv, FindingsInv
  <2>4. CASE asking[c] # {d}
    BY <1>0, <2>1, <2>2, <2>4 DEF GoTo, TypeOK, CheckInv, FindingsInv
  <2> QED
    BY <2>3, <2>4
<1>6. ASSUME NEW c \in Clients, NEW r \in Routes, Lapse(c, r) PROVE CheckInv' /\ FindingsInv'
  BY <1>6, CheckKept DEF Lapse
<1>7. ASSUME NEW d \in Dependencies, Fail(d) \/ Recover(d) PROVE CheckInv' /\ FindingsInv'
  <2>1. Changes(d) /\ UNCHANGED <<found, asking>> /\ pc' = pc
        /\ \A e \in Dependencies \ {d} : e \in up' <=> e \in up
    BY <1>7 DEF Fail, Recover
  <2> QED
    BY <2>1, ChangeNoted
<1>8. CASE Restart
  BY <1>8 DEF Restart, CheckInv, FindingsInv
<1>9. CASE UNCHANGED vars
  BY <1>9, CheckKept DEF vars
<1> QED
  BY <1>1, <1>2, <1>3, <1>4, <1>5, <1>6, <1>7, <1>8, <1>9 DEF Next, Step

----------------------------------------------------------------------------
(* Theorems *)

\* Every reachable state satisfies the invariant.
THEOREM GatewayInvariant == Spec => []GatewayInv
<1>1. GatewayInv /\ [Next]_vars => GatewayInv'
  BY TypeStep, OverrunStep, CheckStep DEF GatewayInv
<1> QED
  BY InitInv, <1>1, PTL DEF Spec

\* Types, for any clients and scenarios; routes that only read leave no record.
THEOREM GatewayTypes == Spec => []TypeOK
<1>1. GatewayInv => TypeOK
  BY DEF GatewayInv
<1> QED
  BY <1>1, GatewayInvariant, PTL

\* A window never holds more than the limit and one record for each other request
\* of its address (LimitedOverrun), for any limits and any number of requests.
THEOREM OverrunIsLimited == Spec => []LimitedOverrun
<1>1. GatewayInv => LimitedOverrun
  <2> SUFFICES ASSUME GatewayInv, NEW t \in Trackers, NEW r \in Routes
               PROVE  Cardinality(Live(t, r)) <= Limit(r) - 1 + Cardinality(SendersOf(t))
    BY DEF LimitedOverrun
  <2>1. /\ IsFiniteSet(records)
        /\ Cardinality(Live(t, r)) + Cardinality(Adding(t, r)) <= Limit(r) - 1 + Cardinality(SendersOf(t))
    BY DEF GatewayInv, OverrunInv
  <2>2. /\ Cardinality(Live(t, r)) \in Nat /\ Cardinality(Adding(t, r)) \in Nat
        /\ Cardinality(SendersOf(t)) \in Nat /\ Limit(r) \in Nat
    BY <2>1, FiniteParts, LimitPositive
  <2> QED
    BY <2>1, <2>2
<1> QED
  BY <1>1, GatewayInvariant, PTL

\* An honest request answered 429 has met the limit in its own sender's name.
LEMMA RefusalStep ==
  ASSUME GatewayInv, [Next]_vars, NEW c \in Honest,
         answer'[c] # answer[c], answer'[c].status = 429
  PROVE  Cardinality(Concerning(Origin[c], route[c])) >= Limit(route[c])
<1>0. TypeOK /\ IsFiniteSet(records) /\ c \in Clients
  BY DEF GatewayInv, OverrunInv, Honest
<1>1. ASSUME NEW d \in Clients, GetRecord(d)
      PROVE  Cardinality(Concerning(Origin[c], route[c])) >= Limit(route[c])
  <2>1. Full(d, route[d]) /\ answer' = [answer EXCEPT ![d] = Refused(TooMany)]
    BY <1>1 DEF GetRecord, GoTo, Reply
  <2>2. d = c
    BY <1>0, <2>1 DEF TypeOK
  <2>3. \A x \in records : Tracker(x[1]) \in {Origin[x[1]], Header[x[1]]}
    BY <1>0, TrackerNamesSender DEF TypeOK
  <2>4. Live(Origin[c], route[c]) \in SUBSET Concerning(Origin[c], route[c])
    BY <2>3 DEF Live, Concerning
  <2>5. Concerning(Origin[c], route[c]) \in SUBSET records
    BY DEF Concerning
  <2>6. /\ IsFiniteSet(Concerning(Origin[c], route[c]))
        /\ Cardinality(Concerning(Origin[c], route[c])) \in Nat
        /\ Cardinality(Live(Origin[c], route[c])) <= Cardinality(Concerning(Origin[c], route[c]))
    BY <1>0, <2>4, <2>5, FS_Subset, FS_CardinalityType
  <2>7. Cardinality(Live(Origin[c], route[c])) >= Limit(route[c])
    BY <2>1, <2>2, HonestTracker DEF Full
  <2> QED
    BY <1>0, <2>6, <2>7, FiniteParts, LimitPositive
<1>2. ASSUME NEW d \in Clients, Arrive(d) \/ AddRecord(d) \/ StartCheck(d) PROVE FALSE
  <2>1. answer' = answer \/ answer' = [answer EXCEPT ![d] = Pending]
    BY <1>2 DEF Arrive, AddRecord, StartCheck, GoTo
  <2> QED
    BY <1>0, <2>1, AnswersFit DEF TypeOK
<1>3. ASSUME NEW d \in Clients,
             StorageFails(d) \/ RouteGuard(d) \/ Validate(d) \/ Handle(d) \/ Indicate(d)
      PROVE FALSE
  <2>1. \/ answer' = answer
        \/ \E a \in {Value} \cup Outcomes(route[d]) \cup
                    {Refused(e) : e \in {Unauthorized, Unhealthy, Internal, InvalidPayload}} :
             answer' = [answer EXCEPT ![d] = a]
    BY <1>3 DEF StorageFails, RouteGuard, Validate, Handle, Indicate, GoTo, Reply
  <2> QED
    BY <1>0, <2>1, AnswersFit DEF TypeOK
<1>4. ASSUME (\E d \in Clients, r \in Routes : Lapse(d, r)) \/ Restart \/ UNCHANGED vars
             \/ \E d \in Dependencies : Fail(d) \/ Recover(d)
      PROVE  FALSE
  BY <1>4 DEF Lapse, Restart, Fail, Recover, vars
<1> QED
  BY <1>1, <1>2, <1>3, <1>4 DEF Next, Step

\* Senders that act in their own names do not use up each other's limit, behind the
\* proxy or not (RefusedInOwnName): a refusal takes requests that its sender sent or
\* that carried its address.
THEOREM RefusalsHaveOwnCause == Spec => RefusedInOwnName
<1>1. GatewayInv /\ [Next]_vars =>
        [\A c \in Honest :
           answer'[c] # answer[c] /\ answer'[c].status = 429
           => Cardinality(Concerning(Origin[c], route[c])) >= Limit(route[c])]_vars
  BY RefusalStep
<1> QED
  BY <1>1, GatewayInvariant, PTL DEF Spec, RefusedInOwnName

\* A check's answer is right about every dependency that held still.
LEMMA CheckAnswer ==
  ASSUME GatewayInv, [Next]_vars, NEW c \in Clients, pc[c] = "checking", answer'[c] # answer[c]
  PROVE  IF answer'[c].ok THEN Dependencies \ changed[c] \subseteq up
                          ELSE ~(Dependencies \ changed[c] \subseteq up) \/ changed[c] # {}
<1>0. TypeOK /\ CheckInv /\ FindingsInv
  BY DEF GatewayInv
<1>1. ASSUME NEW d \in Clients,
             \/ Arrive(d) \/ GetRecord(d) \/ AddRecord(d) \/ StorageFails(d)
             \/ RouteGuard(d) \/ Validate(d) \/ Handle(d) \/ StartCheck(d)
      PROVE  FALSE
  <2>1. pc[d] # "checking" /\ \E a : answer' = [answer EXCEPT ![d] = a] \/ answer' = answer
    BY <1>1 DEF Arrive, GetRecord, AddRecord, StorageFails, RouteGuard, Validate, Handle, StartCheck,
                GoTo, Reply
  <2> QED
    BY <1>0, <2>1 DEF TypeOK
<1>2. ASSUME (\E d \in Clients, r \in Routes : Lapse(d, r)) \/ Restart \/ UNCHANGED vars
             \/ \E d \in Dependencies : Fail(d) \/ Recover(d)
      PROVE  FALSE
  BY <1>2 DEF Lapse, Restart, Fail, Recover, vars
<1>3. ASSUME NEW d \in Clients, Indicate(d)
      PROVE  IF answer'[c].ok THEN Dependencies \ changed[c] \subseteq up
                              ELSE ~(Dependencies \ changed[c] \subseteq up) \/ changed[c] # {}
  <2> DEFINE Down(e) == found[d] \cup ({e} \ up)
  <2>1. PICK e \in asking[d] :
          IF asking[d] = {e}
            THEN Reply(d, IF Down(e) = {} THEN Value ELSE Refused(Unhealthy))
            ELSE GoTo(d, "checking")
    BY <1>3 DEF Indicate
  <2>2. asking[d] = {e} /\ answer' = [answer EXCEPT ![d] = IF Down(e) = {} THEN Value ELSE Refused(Unhealthy)]
    BY <2>1 DEF GoTo, Reply
  <2>3. d = c
    BY <1>0, <2>2 DEF TypeOK
  <2>4. answer'[c] = IF Down(e) = {} THEN Value ELSE Refused(Unhealthy)
    BY <1>0, <2>2, <2>3 DEF TypeOK
  <2>5. \A f \in Dependencies \ {e} : f \in changed[c] \/ (f \in found[c] <=> f \notin up)
    BY <1>0, <2>2, <2>3 DEF CheckInv
  <2>6. CASE Down(e) = {}
    <3>1. found[c] = {} /\ e \in up
      BY <2>3, <2>6
    <3> QED
      BY <2>4, <2>5, <2>6, <3>1, AnswersFit
  <2>7. CASE Down(e) # {}
    <3>1. PICK f \in Down(e) : TRUE
      BY <2>7
    <3>2. f \in Dependencies
      BY <1>0, <2>2, <3>1 DEF TypeOK, Dependencies, Later
    <3>3. f \notin up \/ f \in changed[c]
      BY <1>0, <2>2, <2>3, <2>5, <3>1, <3>2 DEF FindingsInv
    <3> QED
      BY <2>4, <2>7, <3>2, <3>3, AnswersFit
  <2> QED
    BY <2>6, <2>7
<1> QED
  BY <1>1, <1>2, <1>3 DEF Next, Step

\* A check tells the truth of the dependencies that held still (HealthTellsTruth).
THEOREM ChecksTellTruth == Spec => HealthTellsTruth
<1>1. GatewayInv /\ [Next]_vars =>
        [\A c \in Clients :
           pc[c] = "checking" /\ answer'[c] # answer[c]
           => IF answer'[c].ok THEN Dependencies \ changed[c] \subseteq up
                               ELSE ~(Dependencies \ changed[c] \subseteq up) \/ changed[c] # {}]_vars
  BY CheckAnswer
<1> QED
  BY <1>1, GatewayInvariant, PTL DEF Spec, HealthTellsTruth
=============================================================================
