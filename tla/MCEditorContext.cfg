\* Two windows, and the time a rule lives longer than a report travels.
CONSTANTS
  Time <- MCTime
  Windows = {w1, w2}
  Elsewhere = Elsewhere
  Syntaxes <- MCSyntaxes
  Ttl = 2
  MaxTransit = 1
  NoReport = NoReport
SPECIFICATION Spec
INVARIANTS ForeignRuleEnds LeavingSilences
