\* Two windows; two document versions each.
CONSTANTS
  Windows = {w1, w2}
  Nobody = Nobody
  NoExchange = NoExchange
  MaxVersion = 2
  MaxGeneration = 3
  MaxFaults = 1
  MaxMoves = 1
  Lease = 2
  Poll = 1
SPECIFICATION FairSpec
CHECK_DEADLOCK FALSE
INVARIANT LeftProjectEnds
PROPERTIES ShownIsServed SymbolsShown LeavingEnds
