\* Overlapping ticks over a queue of Limit + 1 jobs and a queue after it.
SPECIFICATION FairSpec
CONSTANTS
  Ticks = {t1, t2}
  Queues <- MCQueues
  Jobs <- MCJobs
  QueueOf <- MCQueueOf
  Sizes <- MCTwoOne
  Limit = 1
INVARIANT RestartInv
PROPERTIES EndsEarlyForCause EveryTickEnds FirstQueueIsServed EveryFailedIsRetried
