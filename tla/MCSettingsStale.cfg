CONSTANTS
  Projects <- MCProjects
  Entries <- MCEntries
  Terms <- MCTerms
  Refused <- MCRefused
  EntryPage = 1
  ProjectPage = 1
  MaximumDisplayed = 2
  MaxFaults = 2
  MaxOthers = 1
SPECIFICATION Spec
PROPERTIES RemovesSelectedRecord
