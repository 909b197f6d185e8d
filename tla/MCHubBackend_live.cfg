\* A request and a notification, a child whose own requests have the id 0, and
\* fair goroutines.
CONSTANTS
  c1 = c1
  c2 = c2
  n1 = n1
  Calls <- CallAndNote
  Notes <- OneNote
  NoCall = NoCall
  ServerIds <- ZeroId
  PipeCap = 2
SPECIFICATION FairSpec
PROPERTY EveryCallReturns
CHECK_DEADLOCK FALSE
