SPECIFICATION FairSpec
CONSTANTS
  p1 = p1  p2 = p2  Nil = Nil
  Patches = {p1, p2}
  MaxSignals = 2
  Faults = {"raise", "kill", "celery"}
  MasterInConfig = FALSE
INVARIANTS TypeOK LevelFollowsConfig OrderlyEnd BootHasTenant
PROPERTIES RequestsAnswered StopEnds FailureEnds
