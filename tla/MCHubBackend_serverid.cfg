\* One request, and a child whose own requests are numbered from 1.
CONSTANTS
  c1 = c1
  c2 = c2
  n1 = n1
  Calls <- OneCall
  Notes <- NoNotes
  NoCall = NoCall
  ServerIds <- FirstId
  PipeCap = 2
SPECIFICATION Spec
INVARIANT RoutedToCaller
CHECK_DEADLOCK FALSE
