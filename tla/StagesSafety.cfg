\* Ten tasks in six stages, two of the four sources distributed.
CONSTANTS
  COUNT = 6
  NumTasks = 10
  Stage <- TenTasks
  CanRunInParallel = {1, 2, 3, 4, 5, 6, 9}
  CanDistribute = {2, 3}
  GiveJobIndex = {1, 2, 3, 4, 5, 6, 9}
  Accelerated = TRUE
SPECIFICATION Spec
INVARIANT TypeOK
INVARIANT StagesInOrder
INVARIANT SequentialRunsAlone
INVARIANT FailureStopsBuild
INVARIANT SuccessMeansAllExecuted
INVARIANT ProgressIsDisjoint
