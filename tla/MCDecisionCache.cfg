\* One reader (readers share nothing they write) against a writer of three stores.
CONSTANTS
  Time <- MCTime
  Readers = {r1}
  NotAsked = NotAsked
  Decisions <- MCDecisions
  Deadlines = {1, 2}
  ReadStates <- MCReadStates
  MaximumReadAttempts = 3
  MaxStores = 3
SPECIFICATION FairSpec
INVARIANTS CacheInv NoTornRead
PROPERTIES ImplementsSlot ReadReturns
