SPECIFICATION FairSpec
CONSTANTS
  Ticks = {t1}
  Queues <- MCOneQueue
  Jobs <- MCJobs
  QueueOf <- MCQueueOf
  Sizes <- MCThree
  Limit = 1
PROPERTIES  EveryFailedIsRetried
