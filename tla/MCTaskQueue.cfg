SPECIFICATION LiveSpec
CONSTANTS
  t1 = t1
  t2 = t2
  Queue <- MCTwoQueues
  Task = {t1, t2}
  QueueOf <- MCQueueOf
  MaxRetries <- MCMaxRetries
  Delayed <- MCDelayed
  MaxConcurrency = 2
  MayCrash = TRUE
  MaxGen = 2
  MaxFaults = 1
INVARIANTS NoDoubleRun RetriesHonoured
PROPERTIES EndedStaysEnded EveryTaskEnds
