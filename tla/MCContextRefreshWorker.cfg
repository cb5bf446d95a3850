\* Three focus changes or stops, over three instants.
CONSTANTS
  Time <- MCTime
  Largest = 2
  DecisionTtl = 1
  Snapshots <- MCSnapshots
  ReadStates <- MCReadStates
  Failed = Failed
  MaxGenerations = 3
SPECIFICATION FairSpec
INVARIANTS WorkerInv ReadIsOfThisFocus RuleIsFresh StoppedIsEmpty
PROPERTIES FocusServed KeepsRefreshing StopReturns
