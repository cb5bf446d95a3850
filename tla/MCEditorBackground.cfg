\* Two windows, the other one in the background.
CONSTANTS
  Time <- MCTime
  Windows = {w1, w2}
  Elsewhere = Elsewhere
  Syntaxes <- MCSyntaxes
  Ttl = 2
  MaxTransit = 1
  NoReport = NoReport
SPECIFICATION Spec
PROPERTY FocusedKeepsRule
