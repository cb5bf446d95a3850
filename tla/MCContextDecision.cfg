\* Every snapshot over two instants, 93312 of them.
CONSTANTS
  Time <- MCTime
SPECIFICATION DecisionSpec
INVARIANTS FirstRowDecides SplitEvaluation NoSwitchDropped
