\* Four instants; the user is protected for longer than a switch may take to
\* be confirmed.
CONSTANTS
  Time <- MCTime
  Largest = 3
  DecisionTtl = 1
  ManualOverrideDurationMs = 2
  AutomaticOriginDurationMs = 1
  NoPending = NoPending
  NoAnswer = NoAnswer
SPECIFICATION FairSpec
PROPERTIES LangBarWins OriginExact ManualWins ModeFollowsRule
