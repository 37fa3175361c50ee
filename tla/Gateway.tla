------------------------------ MODULE Gateway ------------------------------
(***************************************************************************)
(* What stands between a request and AuthService: the rate limit, whose    *)
(* records live in Redis, the refresh guard, the validation of payloads,   *)
(* and the response interceptor and exceptions filter that shape every     *)
(* answer; and the health check, which reads its dependencies one by one.  *)
(* A step ends at an await; dependencies fail and come back between steps, *)
(* and a process may restart while Redis keeps the records.                *)
(***************************************************************************)
EXTENDS Naturals, FiniteSets

CONSTANTS
  Clients,       \* concurrent requests; each has a sender, at the address Origin[c]
  Origin,
  Header,        \* what it sends in x-forwarded-for, None for nothing: any address,
                 \* its own or not (who varies it is several clients with one Origin)
  Proxied,       \* clients whose requests come through the proxy ...
  Proxy,         \* ... from its address, with a header in any case
  DefaultLimit,  \* config.rate_limit.default.limit
  ResendLimit,   \* config.rate_limit.resend.default.limit
  Scenarios,     \* bounds: routes each client asks for, dependencies that may fail,
                 \* and how many failures and restarts there may be
  None

Routes == {"refresh", "sign-up", "sign-up/confirm", "sign-in", "sign-up/resend",
           "password-recovery", "password-recovery/confirm", "health"}
Dependencies == {"database", "memory", "disk", "redis", "rabbit"}

ASSUME LimitAssumption == DefaultLimit \in Nat \ {0} /\ ResendLimit \in Nat \ {0}
ASSUME ClientsAssumption ==
  /\ IsFiniteSet(Clients) /\ Clients # {} /\ Proxied \subseteq Clients
  /\ \A c \in Clients : Origin[c] # None
  /\ \A c \in Proxied : Header[c] # None
ASSUME ScenariosAssumption ==
  Scenarios \subseteq
    [asks : [Clients -> SUBSET Routes], fails : SUBSET (Dependencies \ {"rabbit"}),
     faults : Nat]

VARIABLES
  scenario,
  records,  \* Redis: <<c, r, n>>, the nth live record of client c on route r
  up,       \* dependencies that work; "rabbit": the client has opened a connection,
            \* which it keeps in its field even when the server drops it
  pc, route,  \* per client: next step and the route it asks for
  answer,   \* per client: how that request was answered
  found,    \* per client: dependencies its check found down
  asking,   \* per client: indicators of its check still to answer
  changed,  \* per client: dependencies that failed or came back since its check began
  faults

checkVars == <<found, asking, changed>>
vars == <<scenario, records, up, pc, route, answer, checkVars, faults>>

----------------------------------------------------------------------------
(* The rate limit *)

ReadOnly == {"refresh", "sign-up/confirm", "health"}

\* Mutant: the reading routes are counted as well.
IsSkipped_Never(r) == FALSE
\* skipIf
IsSkipped(r) == r \in ReadOnly

\* @Throttle on the two routes that send a mail again, else the module's limit
Limit(r) == IF r \in {"sign-up/resend", "password-recovery"} THEN ResendLimit
                                                              ELSE DefaultLimit

\* req.ip
Ip(c) == IF c \in Proxied THEN Proxy ELSE Origin[c]

\* Mutant: the header is not looked at.
Tracker_Ip(c) == Ip(c)
\* Whose records a request is counted among: the header is believed from anyone.
Tracker(c) == IF Header[c] # None THEN Header[c] ELSE Ip(c)

Own(c, r) == {x \in records : x[1] = c /\ x[2] = r}
Live(t, r) == {x \in records : Tracker(x[1]) = t /\ x[2] = r}
\* Mutant: off by one.
Full_OneMore(c, r) == Cardinality(Live(Tracker(c), r)) > Limit(r)
\* ttls.length >= limit
Full(c, r) == Cardinality(Live(Tracker(c), r)) >= Limit(r)

----------------------------------------------------------------------------
(* Exceptions and answers *)

\* What getResponse() returns: a string, the object with a message that Nest's
\* own exceptions carry, the report of a health check, or null for an exception
\* that is no HttpException.
Text == [kind |-> "string", message |-> "undefined"]
Object == [kind |-> "object", message |-> "text"]
Report == [kind |-> "object", message |-> "undefined"]
Null == [kind |-> "null", message |-> "undefined"]

Exception(status, response) == [status |-> status, response |-> response]

InvalidPayload == Exception(400, Text)
TooMany == Exception(429, Text)
Unauthorized == Exception(401, Object)
Unhealthy == Exception(503, Report)
Internal == Exception(500, Null)

\* AppExceptionsFilter.catch
Message(e) ==
  CASE e.status = 503 -> "report"
    [] e.status = 429 -> e.response.message
    [] e.response.kind = "null" -> "null"
    [] OTHER -> "text"
Refused(e) == [ok |-> FALSE, status |-> e.status, message |-> Message(e)]

\* ResponseInterceptor
Value == [ok |-> TRUE, status |-> 200, message |-> "none"]
Pending == [ok |-> FALSE, status |-> 0, message |-> "none"]

\* How the service's methods end: with a value, or with an exception.
Outcomes(r) ==
  {Value, Refused(Internal)} \cup
  CASE r = "sign-up" -> {Refused(Exception(400, Text))}
    [] r = "sign-up/confirm" -> {Refused(Exception(404, Text))}
    [] r = "sign-in" -> {Refused(Exception(403, Text))}
    [] OTHER -> {}

\* Routes whose method may reach the notifications, and so the broker.
Mailing == {"sign-up", "sign-up/resend", "password-recovery"}

----------------------------------------------------------------------------
(* The pipeline *)

Init ==
  /\ scenario \in Scenarios
  /\ records = {}
  /\ up = Dependencies \ {"rabbit"}
  /\ pc = [c \in Clients |-> "idle"]
  /\ route = [c \in Clients |-> None]
  /\ answer = [c \in Clients |-> Pending]
  /\ found = [c \in Clients |-> {}]
  /\ asking = [c \in Clients |-> {}]
  /\ changed = [c \in Clients |-> {}]
  /\ faults = 0

GoTo(c, next) == pc' = [pc EXCEPT ![c] = next] /\ UNCHANGED <<route, answer>>
Reply(c, a) ==
  /\ pc' = [pc EXCEPT ![c] = "idle"] /\ route' = [route EXCEPT ![c] = None]
  /\ answer' = [answer EXCEPT ![c] = a]

\* After the throttler: the guard of the route, or the validation, or the method.
AfterThrottler(r) == CASE r = "refresh" -> "guard"
                       [] r = "health" -> "handler"
                       [] OTHER -> "pipe"

Arrive(c) ==
  /\ pc[c] = "idle"
  /\ \E r \in scenario.asks[c] :
       /\ route' = [route EXCEPT ![c] = r]
       /\ pc' = [pc EXCEPT ![c] = IF IsSkipped(r) THEN AfterThrottler(r) ELSE "getRecord"]
  /\ answer' = [answer EXCEPT ![c] = Pending]
  /\ UNCHANGED <<scenario, records, up, checkVars, faults>>

\* Mutant: a refused request leaves a record, too.
GetRecord_CountsRefused(c) ==
  /\ pc[c] = "getRecord" /\ "redis" \in up
  /\ Cardinality(Own(c, route[c])) < 2
  /\ records' = records \cup {<<c, route[c], Cardinality(Own(c, route[c])) + 1>>}
  /\ IF Full(c, route[c]) THEN Reply(c, Refused(TooMany))
                          ELSE GoTo(c, AfterThrottler(route[c]))
  /\ UNCHANGED <<scenario, up, checkVars, faults>>
\* getRecord: the throttler counts the live records, and refuses or goes on to add one.
GetRecord(c) ==
  /\ pc[c] = "getRecord" /\ "redis" \in up
  /\ IF Full(c, route[c]) THEN Reply(c, Refused(TooMany)) ELSE GoTo(c, "addRecord")
  /\ UNCHANGED <<scenario, records, up, checkVars, faults>>

AddRecord(c) ==
  /\ pc[c] = "addRecord" /\ "redis" \in up
  /\ records' = records \cup {<<c, route[c], Cardinality(Own(c, route[c])) + 1>>}
  /\ GoTo(c, AfterThrottler(route[c]))
  /\ UNCHANGED <<scenario, up, checkVars, faults>>

\* Mutant: the record is waited for until Redis is back.
StorageFails_NotOnAdd(c) ==
  /\ pc[c] = "getRecord" /\ "redis" \notin up
  /\ Reply(c, Refused(Internal))
  /\ UNCHANGED <<scenario, records, up, checkVars, faults>>
\* The storage gives up while Redis is away.
StorageFails(c) ==
  /\ pc[c] \in {"getRecord", "addRecord"} /\ "redis" \notin up
  /\ Reply(c, Refused(Internal))
  /\ UNCHANGED <<scenario, records, up, checkVars, faults>>

\* handleRequest of the refresh guard, either way.
RouteGuard(c) ==
  /\ pc[c] = "guard"
  /\ GoTo(c, "handler") \/ Reply(c, Refused(Unauthorized))
  /\ UNCHANGED <<scenario, records, up, checkVars, faults>>

\* AppValidationPipe.transform, on a payload that validates or not
Validate(c) ==
  /\ pc[c] = "pipe"
  /\ GoTo(c, "handler") \/ Reply(c, Refused(InvalidPayload))
  /\ UNCHANGED <<scenario, records, up, checkVars, faults>>

\* What a check under way will have missed.
Changes(d) ==
  changed' = [c \in Clients |-> IF pc[c] = "checking" THEN changed[c] \cup {d} ELSE {}]

\* Routes whose method needs a connection of the pool, for which it may wait for ever.
Pooled == Routes \ {"refresh", "health"}

\* The service's method, once it ends.  Without the database it ends with an error.  A mail opens
\* the broker's connection when there is none, unless RabbitMQ cannot be reached,
\* which the broadcast keeps to itself.
Handle(c) ==
  /\ pc[c] = "handler" /\ route[c] # "health"
  /\ \E a \in Outcomes(route[c]), opens \in BOOLEAN :
       /\ "database" \notin up => a = Refused(Internal) /\ ~opens
       /\ opens => route[c] \in Mailing /\ a \in {Value, Refused(Internal)}
       /\ Reply(c, a)
       /\ up' = IF opens THEN up \cup {"rabbit"} ELSE up
       /\ IF up' = up THEN UNCHANGED changed ELSE Changes("rabbit")
  /\ UNCHANGED <<scenario, records, found, asking, faults>>

\* Indicators that answer while they are called, and those that wait for an answer.
AtOnce == {"memory", "redis", "rabbit"}
Later == {"database", "disk"}

\* Mutant: the indicator of RabbitMQ returns its status and does not throw.
StartCheck_RabbitReturns(c) ==
  /\ pc[c] = "handler" /\ route[c] = "health"
  /\ GoTo(c, "checking")
  /\ found' = [found EXCEPT ![c] = (AtOnce \ {"rabbit"}) \ up]
  /\ asking' = [asking EXCEPT ![c] = Later]
  /\ UNCHANGED <<scenario, records, up, changed, faults>>
\* HealthCheckerService.check: all indicators are called.
StartCheck(c) ==
  /\ pc[c] = "handler" /\ route[c] = "health"
  /\ GoTo(c, "checking")
  /\ found' = [found EXCEPT ![c] = AtOnce \ up]
  /\ asking' = [asking EXCEPT ![c] = Later]
  /\ UNCHANGED <<scenario, records, up, changed, faults>>

\* One more indicator answers; the check ends with the last of them.
Indicate(c) ==
  /\ pc[c] = "checking"
  /\ \E d \in asking[c] :
       LET down == found[c] \cup ({d} \ up) IN
       /\ asking' = [asking EXCEPT ![c] = @ \ {d}]
       /\ IF asking[c] = {d}
            THEN /\ Reply(c, IF down = {} THEN Value ELSE Refused(Unhealthy))
                 /\ found' = [found EXCEPT ![c] = {}]
                 /\ changed' = [changed EXCEPT ![c] = {}]
            ELSE /\ GoTo(c, "checking")
                 /\ found' = [found EXCEPT ![c] = down]
                 /\ UNCHANGED changed
  /\ UNCHANGED <<scenario, records, up, faults>>

Step(c) ==
  \/ GetRecord(c) \/ AddRecord(c) \/ StorageFails(c)
  \/ RouteGuard(c) \/ Validate(c)
  \/ StartCheck(c) \/ Indicate(c)

----------------------------------------------------------------------------
(* The environment *)

\* A record lapses, rate seconds after it was added.
Lapse(c, r) ==
  /\ Own(c, r) # {}
  /\ records' = records \ {<<c, r, Cardinality(Own(c, r))>>}
  /\ UNCHANGED <<scenario, up, pc, route, answer, checkVars, faults>>

Fail(d) ==
  /\ d \in scenario.fails \cap up /\ faults < scenario.faults
  /\ up' = up \ {d} /\ faults' = faults + 1
  /\ Changes(d)
  /\ UNCHANGED <<scenario, records, pc, route, answer, found, asking>>

\* The broker's connection is not among them: the next mail opens it.
Recover(d) ==
  /\ d \in Dependencies \ (up \cup {"rabbit"})
  /\ up' = up \cup {d}
  /\ Changes(d)
  /\ UNCHANGED <<scenario, records, pc, route, answer, found, asking, faults>>

\* The process dies with its requests, and a new one starts.
Restart ==
  /\ faults < scenario.faults /\ faults' = faults + 1
  /\ up' = up \ {"rabbit"}
  /\ pc' = [c \in Clients |-> "idle"] /\ route' = [c \in Clients |-> None]
  /\ found' = [c \in Clients |-> {}] /\ asking' = [c \in Clients |-> {}]
  /\ changed' = [c \in Clients |-> {}]
  /\ UNCHANGED <<scenario, records, answer>>

Next ==
  \/ \E c \in Clients : Arrive(c) \/ Step(c) \/ Handle(c)
  \/ \E c \in Clients, r \in Routes : Lapse(c, r)
  \/ \E d \in Dependencies : Fail(d) \/ Recover(d)
  \/ Restart

Spec == Init /\ [][Next]_vars

\* What a client may be counted for.
Throttled(c) == UNION {s.asks[c] : s \in Scenarios} \ ReadOnly

\* The event loop runs every step that can run, but only a method that needs no
\* connection is sure to end; and Redis lapses every record.
Fairness ==
  /\ \A c \in Clients : WF_vars(Step(c) \/ (route[c] \notin Pooled /\ Handle(c)))
  /\ \A c \in Clients : \A r \in Throttled(c) : WF_vars(Lapse(c, r))
FairSpec == Spec /\ Fairness

----------------------------------------------------------------------------
(* Properties *)

Answers == {Pending, Value} \cup
  {Refused(e) : e \in {TooMany, Unauthorized, Unhealthy, Internal} \cup
                      {Exception(s, Text) : s \in {400, 403, 404}}}

PCs == {"idle", "getRecord", "addRecord", "guard", "pipe", "handler", "checking"}

\* Every variable has its type: read-only routes leave no record, and only a check
\* under way has findings.
TypeOK ==
  /\ scenario \in Scenarios /\ up \subseteq Dependencies /\ faults \in 0 .. scenario.faults
  /\ records \subseteq Clients \X (Routes \ ReadOnly) \X Nat
  /\ pc \in [Clients -> PCs]
  /\ route \in [Clients -> Routes \cup {None}]
  /\ answer \in [Clients -> Answers]
  /\ found \in [Clients -> SUBSET Dependencies]
  /\ asking \in [Clients -> SUBSET Later]
  /\ changed \in [Clients -> SUBSET Dependencies]
  /\ \A c \in Clients :
       pc[c] # "checking" => found[c] = {} /\ asking[c] = {} /\ changed[c] = {}

Trackers == {Tracker(c) : c \in Clients}
SendersOf(t) == {c \in Clients : Tracker(c) = t}

\* The throttler counts and adds in two steps: a window never holds more records of
\* one tracked address and route than the limit and one for each other request
\* counted for that address that can be between the two.
LimitedOverrun ==
  \A t \in Trackers, r \in Routes :
    Cardinality(Live(t, r)) <= Limit(r) - 1 + Cardinality(SendersOf(t))

\* Clients that send no header but their own address, if any.
Honest == {c \in Clients : Header[c] \in {Origin[c], None}}
\* Records of a sender's own requests, and of those that named its address.
Concerning(address, r) ==
  {x \in records : x[2] = r /\ address \in {Origin[x[1]], Header[x[1]]}}

\* An honest request is answered 429 only when the limit is used up by requests for
\* the same route that its sender sent or that carried its address in the header,
\* never by what others behind the proxy sent in their own names.
RefusedInOwnName ==
  [][\A c \in Honest :
       answer'[c] # answer[c] /\ answer'[c].status = 429
       => Cardinality(Concerning(Origin[c], route[c])) >= Limit(route[c])]_vars

\* However often a sender is refused, its window opens again: a refused request
\* leaves no record behind.
WindowReopens ==
  \A c \in Clients : \A r \in Throttled(c) : Full(c, r) ~> ~Full(c, r)

\* Every request is answered, whatever is down, unless the process dies under it or
\* its method waits for ever for a connection of the pool.
EveryRequestEnds ==
  \A c \in Clients :
    \/ pc[c] # "idle" ~> pc[c] = "idle"
    \/ <>[](pc[c] = "handler" /\ route[c] \in Pooled)

\* A check torn over several moments still tells the truth of what held still: a
\* dependency that was down throughout makes it 503, and 503 has a cause.
HealthTellsTruth ==
  [][\A c \in Clients :
       pc[c] = "checking" /\ answer'[c] # answer[c]
       => IF answer'[c].ok THEN Dependencies \ changed[c] \subseteq up
                           ELSE ~(Dependencies \ changed[c] \subseteq up) \/ changed[c] # {}]_vars

\* What app.exceptions.filter.ts asserts of a 429, by casting its response to
\* TooManyRequestsResponse: that it has a message to put into the answer.
RefusalsCarryMessage ==
  \A c \in Clients : answer[c].status = 429 => answer[c].message # "undefined"

----------------------------------------------------------------------------
(* What is invariant beside the types *)

\* Only a counted request is at the throttler's storage, and every step has a route.
RoutesFit ==
  \A c \in Clients :
    /\ pc[c] # "idle" => route[c] \in Routes
    /\ pc[c] \in {"getRecord", "addRecord"} => route[c] \notin ReadOnly

\* The requests that have counted and are about to add: with the live records, they
\* are never more than the limit and the other requests allow.
Adding(t, r) ==
  {c \in Clients : pc[c] = "addRecord" /\ Tracker(c) = t /\ route[c] = r}
OverrunInv ==
  /\ IsFiniteSet(records)
  /\ \A t \in Trackers, r \in Routes :
       Cardinality(Live(t, r)) + Cardinality(Adding(t, r))
         <= Limit(r) - 1 + Cardinality(SendersOf(t))

\* A check has found of every indicator that has answered what still is so, unless
\* the dependency has changed.
CheckInv ==
  \A c \in Clients : pc[c] = "checking" =>
    \A d \in Dependencies \ asking[c] : d \in changed[c] \/ (d \in found[c] <=> d \notin up)

FindingsInv ==
  \A c \in Clients : found[c] \cap asking[c] = {}

GatewayInv == TypeOK /\ RoutesFit /\ OverrunInv /\ CheckInv /\ FindingsInv
=============================================================================
