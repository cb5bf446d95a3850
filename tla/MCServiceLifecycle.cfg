\* A service, a second one or a quit, and one more of either.
CONSTANTS
  N = 3
  Workers <- MCWorkers
  MaxRequests = 1
SPECIFICATION FairSpec
CHECK_DEADLOCK FALSE
INVARIANTS OneServes QuitMeansStopped NotCutOff
PROPERTIES StopIsHeard
