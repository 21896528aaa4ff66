SPECIFICATION PoolFairSpec
CONSTANTS
  w1 = w1
  w2 = w2
  w3 = w3
  w4 = w4
  t1 = t1
  t2 = t2
  t3 = t3
  t4 = t4
  Owner = Owner
  NoTask = NoTask
  Free = Free
  Workers <- MCWorkers
  Tasks <- MCTasks
  Submits <- MCSubmits
INVARIANTS
  NoLostWakeUp
PROPERTIES
  ImplementsTaskQueue
  EveryTaskRuns
  DestructorEnds
