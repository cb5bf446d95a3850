\* Ratio of the defaults: the debounce is shorter than the heartbeat.
CONSTANTS
  DebounceMs = 1
  HeartbeatMs = 3
  MaxChanges = 2
  Off = Off
  Nothing = Nothing
  Unavailable = Unavailable
  Invalidation = Invalidation
SPECIFICATION FairSpec
INVARIANT Settled
PROPERTIES StoreMovesOn KeepsReporting DisablingIsReported
