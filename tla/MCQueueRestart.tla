--------------------------- MODULE MCQueueRestart ---------------------------
(* Two queues of jobs for TLC; a job is a queue and a number. *)
EXTENDS QueueRestart

CONSTANT Sizes   \* how many jobs each queue has

MCQueues == <<"a", "b">>
MCOneQueue == <<"a">>
MCJobs == UNION {{MCQueues[i]} \X (1..Sizes[i]) : i \in DOMAIN Sizes}
MCQueueOf == [j \in MCJobs |-> j[1]]
MCTwoOne == <<2, 1>>
MCThree == <<3>>
=============================================================================
