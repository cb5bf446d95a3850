SPECIFICATION Spec
CONSTANTS
  p1 = p1
  p2 = p2
  symbol = symbol
  other = other
  term = term
  Projects = {p1, p2}
  Keys <- MCKeys
  Approved <- MCApproved
  Requests <- MCRequests
  Observations = {1, 2}
  MaximumEntries = 2
  Corrupt = Corrupt
  Nothing = Nothing
  NoJob = NoJob
  NoProject = NoProject
  MaxOutside = 1
  Lease = 1
INVARIANTS
  CacheCoherent
  ActiveIsDurable
PROPERTIES
  ImplementsDurable
  NothingForgotten
