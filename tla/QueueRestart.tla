---------------------------- MODULE QueueRestart ----------------------------
(***************************************************************************)
(* libs/queue_restart: every few seconds a service walks through the       *)
(* queues of the process and puts their failed Bull jobs back.  A tick is  *)
(* one call of handle(); the interval does not wait for the tick before    *)
(* it, so ticks overlap.  Bull keeps each queue's failed jobs in a sorted  *)
(* set, newest first.  A call that Bull rejects ends its tick, for nothing *)
(* on the way up catches.                                                  *)
(***************************************************************************)
EXTENDS Integers, Sequences, Functions

CONSTANTS
  Ticks,    \* calls of handle() that may run at once
  Queues,   \* the decorated queues in the order of the container: a sequence
  Jobs,
  QueueOf,  \* the queue of each job
  Limit     \* `limit' of restartQueue, 100 in the code

QueueSet == {Queues[i] : i \in DOMAIN Queues}

ASSUME QueuesAssumption ==
  Queues \in Seq(QueueSet) /\ \A j \in Jobs : QueueOf[j] \in QueueSet
ASSUME LimitAssumption == Limit \in Nat \ {0}

VARIABLES
  failed,  \* per queue: its failed jobs, newest failure first
  old,     \* failed jobs whose failure is at least refreshTime ago
  busy,    \* jobs that are waiting or active
  answers, \* FALSE while Bull rejects what ticks call: Redis is away or fails, or the
           \* job is locked
  pc, at,  \* per tick: next step, index of its queue
  offset,  \* per tick: `offset' of restartQueue
  page,    \* per tick: the jobs of the last getFailed it has not looked at yet
  stale    \* per tick: jobs of its page that were put back since it read them, and
           \* whose failure it read is refreshTime ago when it looks at them

tickVars == <<pc, at, offset, page, stale>>
jobVars == <<failed, old, busy>>
vars == <<jobVars, answers, tickVars>>

InSeq(s, j) == \E i \in DOMAIN s : s[i] = j
\* s without j, which is in it at most once.
Without(s, j) ==
  IF InSeq(s, j)
  THEN LET i == CHOOSE k \in DOMAIN s : s[k] = j
       IN SubSeq(s, 1, i - 1) \o SubSeq(s, i + 1, Len(s))
  ELSE s
Failed(j) == InSeq(failed[QueueOf[j]], j)

Init ==
  /\ failed = [q \in QueueSet |-> <<>>]
  /\ old = {}
  /\ busy = Jobs
  /\ answers = TRUE
  /\ pc = [t \in Ticks |-> "idle"]
  /\ at = [t \in Ticks |-> 1]
  /\ offset = [t \in Ticks |-> 0]
  /\ page = [t \in Ticks |-> <<>>]
  /\ stale = [t \in Ticks |-> {}]

-----------------------------------------------------------------------------
(* The jobs *)

\* A worker fails the job.
JobFails(j) ==
  /\ j \in busy
  /\ busy' = busy \ {j}
  /\ failed' = [failed EXCEPT ![QueueOf[j]] = <<j>> \o @]
  /\ UNCHANGED <<old, answers, tickVars>>

\* Time passes: a failure gets old no sooner than the ones before it.
Age(j) ==
  LET f == failed[QueueOf[j]] IN
  /\ \E i \in DOMAIN f : f[i] = j /\ \A k \in DOMAIN f : k > i => f[k] \in old
  /\ j \notin old
  /\ old' = old \cup {j}
  /\ UNCHANGED <<failed, busy, answers, tickVars>>

\* Redis fails, or works again; for one call, if it turns twice.
RedisTurns ==
  /\ answers' = ~answers
  /\ UNCHANGED <<jobVars, tickVars>>

-----------------------------------------------------------------------------
(* A tick *)

\* The elements of s from position a to position b, counted from 0, that there are.
Range0(s, a, b) == LET last == IF b < Len(s) THEN b ELSE Len(s) - 1
                   IN SubSeq(s, a + 1, last + 1)
\* Mutant: the end of the range is not included.
GetFailed_EndExcluded(q, start, end) == Range0(failed[q], start, end - 1)
\* Bull's getFailed(start, end): positions start to end, both included.
GetFailed(q, start, end) == Range0(failed[q], start, end)

\* handle() is called: the first queue, if there is one.
Begin(t) ==
  /\ pc[t] = "idle"
  /\ Queues # <<>>
  /\ pc' = [pc EXCEPT ![t] = "read"]
  /\ UNCHANGED <<jobVars, answers, at, offset, page, stale>>

\* Mutant: the tick returns where it should go on with the next queue.
NextQueue_Stops(t) ==
  /\ pc' = [pc EXCEPT ![t] = "idle"]
  /\ at' = [at EXCEPT ![t] = 1]
\* Mutant: the walk over the queues does not stop after the last one.
NextQueue_PastEnd(t) ==
  /\ pc' = [pc EXCEPT ![t] = "read"]
  /\ at' = [at EXCEPT ![t] = @ + 1]
\* The tick leaves its queue, for the next one or for good.
NextQueue(t) ==
  IF at[t] = Len(Queues)
  THEN /\ pc' = [pc EXCEPT ![t] = "idle"]
       /\ at' = [at EXCEPT ![t] = 1]
  ELSE /\ pc' = [pc EXCEPT ![t] = "read"]
       /\ at' = [at EXCEPT ![t] = @ + 1]

\* handle() rejects: the queues after this one stay unvisited.
EndTick(t) ==
  /\ pc' = [pc EXCEPT ![t] = "idle"]
  /\ at' = [at EXCEPT ![t] = 1]
  /\ offset' = [offset EXCEPT ![t] = 0]

\* await getFailed(offset, limit): an empty page ends restartQueue.
Read(t) ==
  LET jobs == GetFailed(Queues[at[t]], offset[t], Limit) IN
  /\ pc[t] = "read" /\ answers
  /\ page' = [page EXCEPT ![t] = jobs]
  /\ stale' = [stale EXCEPT ![t] = {}]
  /\ IF jobs = <<>>
     THEN NextQueue(t) /\ offset' = [offset EXCEPT ![t] = 0]
     ELSE /\ pc' = [pc EXCEPT ![t] = "look"]
          /\ UNCHANGED <<at, offset>>
  /\ UNCHANGED <<jobVars, answers>>

\* ... and rejects.
ReadFails(t) ==
  /\ pc[t] = "read" /\ ~answers
  /\ EndTick(t)
  /\ stale' = [stale EXCEPT ![t] = {}]
  /\ UNCHANGED <<jobVars, answers, page>>

\* Mutant: the age of the failure is not looked at.
IsOld_Unchecked(t, j) == TRUE
\* timeLeft >= refreshTime, by the finishedOn read with the page: an earlier failure
\* if the job was put back meanwhile.
IsOld(t, j) == j \in stale[t] \/ j \in old

\* A job that failed too recently is left for a later tick.
Skip(t) ==
  /\ pc[t] = "look" /\ page[t] # <<>>
  /\ LET j == Head(page[t]) IN ~IsOld(t, j)
  /\ page' = [page EXCEPT ![t] = Tail(@)]
  /\ UNCHANGED <<jobVars, answers, pc, at, offset, stale>>

\* The tick has come to a job to put back.
AtRetry(t) == pc[t] = "look" /\ page[t] # <<>> /\ IsOld(t, Head(page[t]))

\* Bull moves j back to waiting, for t, which goes on with `rest' of its page.  Ticks
\* that have it in their page go by the failure they read, which is old when they look
\* or, if the job was put back too early, may be too recent for them and skipped.
PutBack(t, j, rest) ==
  /\ failed' = [failed EXCEPT ![QueueOf[j]] = Without(@, j)]
  /\ old' = old \ {j}
  /\ busy' = busy \cup {j}
  /\ LET readers == {u \in Ticks \ {t} : InSeq(page[u], j)} IN
       \E late \in SUBSET readers :
         /\ \A u \in readers : IsOld(u, j) => u \in late
         /\ stale' = [u \in Ticks |-> IF u = t THEN {k \in stale[t] : InSeq(rest, k)}
                                      ELSE IF u \in late THEN stale[u] \cup {j}
                                      ELSE stale[u]]
         /\ page' = [u \in Ticks |-> IF u = t THEN rest
                                     ELSE IF u \in late THEN page[u]
                                     ELSE Without(page[u], j)]

\* Mutant: the loop looks at the job it has just put back once more.
Retry_Again(t) ==
  LET j == Head(page[t]) IN
  /\ AtRetry(t) /\ answers /\ Failed(j)
  /\ failed' = [failed EXCEPT ![QueueOf[j]] = Without(@, j)]
  /\ busy' = busy \cup {j}
  /\ UNCHANGED <<old, answers, tickVars>>
\* await job.retry() of a failed job.
Retry(t) ==
  LET j == Head(page[t]) IN
  /\ AtRetry(t) /\ answers /\ Failed(j)
  /\ PutBack(t, j, Tail(page[t]))
  /\ UNCHANGED <<answers, pc, at, offset>>

\* ... of a job that is no longer failed: it throws.
RetryThrows(t) ==
  /\ AtRetry(t) /\ answers /\ ~Failed(Head(page[t]))
  /\ EndTick(t)
  /\ page' = [page EXCEPT ![t] = <<>>]
  /\ stale' = [stale EXCEPT ![t] = {}]
  /\ UNCHANGED <<jobVars, answers>>

\* ... that rejects, the job left as it was or, when only the answer is lost, put back.
RetryFails(t) ==
  LET j == Head(page[t]) IN
  /\ AtRetry(t) /\ ~answers
  /\ EndTick(t)
  /\ \/ /\ page' = [page EXCEPT ![t] = <<>>]
        /\ UNCHANGED <<jobVars, stale>>
     \/ Failed(j) /\ PutBack(t, j, <<>>)
  /\ UNCHANGED answers

\* Mutant: the offset stays where it is.
Advance_Forgotten(o) == o
\* offset += limit
Advance(o) == o + Limit

TurnPage(t) ==
  /\ pc[t] = "look" /\ page[t] = <<>>
  /\ offset' = [offset EXCEPT ![t] = Advance(@)]
  /\ pc' = [pc EXCEPT ![t] = "read"]
  /\ UNCHANGED <<jobVars, answers, at, page, stale>>

Work(t) ==
  \/ Read(t) \/ ReadFails(t) \/ TurnPage(t)
  \/ Skip(t) \/ Retry(t) \/ RetryThrows(t) \/ RetryFails(t)

Next ==
  \/ \E j \in Jobs : JobFails(j) \/ Age(j)
  \/ RedisTurns
  \/ \E t \in Ticks : Begin(t) \/ Work(t)

Spec == Init /\ [][Next]_vars

\* Time passes, the interval ticks, and the event loop runs each tick's next step.
\* Nothing makes a job fail, and nothing stops it from failing for ever; nor does
\* anything make Redis fail, or work again.
FairSpec ==
  /\ Spec
  /\ \A j \in Jobs : WF_vars(Age(j))
  /\ \A t \in Ticks : WF_vars(Begin(t)) /\ WF_vars(Work(t))

-----------------------------------------------------------------------------
(* Properties *)

\* Every variable stays in its type; the third page of a queue is always empty, so no
\* offset goes beyond it.
TypeOK ==
  /\ failed \in [QueueSet -> Seq(Jobs)]
  /\ old \subseteq Jobs /\ busy \subseteq Jobs /\ answers \in BOOLEAN
  /\ pc \in [Ticks -> {"idle", "read", "look"}]
  /\ at \in [Ticks -> DOMAIN Queues \cup {1}]
  /\ offset \in [Ticks -> {0, Limit, 2 * Limit}]
  /\ page \in [Ticks -> Seq(Jobs)]
  /\ stale \in [Ticks -> SUBSET Jobs]

\* No job is lost or doubled: it is busy, or failed in its own queue, once.
JobsInv ==
  /\ \A j \in Jobs : Failed(j) <=> j \notin busy
  /\ \A q \in QueueSet : /\ IsInjective(failed[q])
                         /\ \A j \in Jobs : InSeq(failed[q], j) => QueueOf[j] = q
  /\ \A j \in old : Failed(j)

\* A page is of the queue the tick is at, no longer than the range read, and each job
\* on it is failed, or another tick has put it back since the page was read.
PageInv(t) ==
  /\ pc[t] # "idle" => at[t] \in DOMAIN Queues
  /\ pc[t] # "look" => page[t] = <<>>
  /\ pc[t] = "look" => offset[t] # 2 * Limit
  /\ Len(page[t]) <= IF offset[t] = 0 THEN Limit + 1 ELSE 1
  /\ IsInjective(page[t])
  /\ \A j \in Jobs : InSeq(page[t], j) =>
        QueueOf[j] = Queues[at[t]] /\ (Failed(j) \/ j \in stale[t])

\* Jobs are conserved and every page is what its tick may act on, however ticks
\* overlap and jobs fail meanwhile (handle, restartQueue).
RestartInv == TypeOK /\ JobsInv /\ \A t \in Ticks : PageInv(t)

\* A tick ends before its last queue only because Bull rejects a call, or over a job
\* that another tick has put back since it read it.
EndsEarlyForCause ==
  [][\A t \in Ticks : pc[t] # "idle" /\ pc'[t] = "idle" =>
       \/ ~answers
       \/ pc[t] = "look" /\ Head(page[t]) \in stale[t]
       \/ pc[t] = "read" /\ at[t] = Len(Queues)]_vars

\* A tick ends, although restartQueue loops until a page is empty while jobs keep
\* failing into, and being taken out of, the set it pages through.
EveryTickEnds == \A t \in Ticks : pc[t] # "idle" ~> pc[t] = "idle"

\* No two calls of handle() are running.
NoOverlap == \A t, u \in Ticks : pc[t] # "idle" /\ pc[u] # "idle" => t = u

\* Once ticks no longer overlap and Redis answers them for good, a failed job is put
\* back sooner or later, as long as its queue has no more than Limit + 1 jobs.
EveryFailedIsRetried ==
  <>[](NoOverlap /\ answers) => \A j \in Jobs : Failed(j) ~> ~Failed(j)

\* Ticks that overlap make each other throw, for ever if it has to be, but never so
\* that the first queue is not served: who throws was preceded by who did the work.
\* Rejected calls may stop that, until Redis answers for good.
FirstQueueIsServed ==
  <>[]answers => \A j \in Jobs : QueueOf[j] = Queues[1] /\ Failed(j) ~> ~Failed(j)
=============================================================================
