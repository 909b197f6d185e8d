\* Two requests and a notification share one child.
CONSTANTS
  c1 = c1
  c2 = c2
  n1 = n1
  Calls <- CallsAndNote
  Notes <- OneNote
  NoCall = NoCall
  ServerIds <- Silent
  PipeCap = 2
SPECIFICATION Spec
SYMMETRY Symmetry
INVARIANTS RoutingInv RoutedToCaller LinesIntact EntriesAreLive SendFindsRoom
PROPERTIES NoReplyLost IsRemoteCall
CHECK_DEADLOCK FALSE
