---------------------------- MODULE MCTaskQueue ----------------------------
(* Two queues that share the budget of workers; the tasks are of the first. *)
EXTENDS TaskQueue

MCTwoQueues == {"q1", "q2"}
MCQueueOf == [t \in Task |-> "q1"]
MCMaxRetries == [q \in Queue |-> 1]
MCDelayed == {"q1"}
=============================================================================
