\* A request and a notification of the child, either side may stop speaking
\* JSON-RPC, the client may stop reading, and the child may crash.
CONSTANTS
  r1 = r1
  n1 = n1
  s1 = s1
  Requests <- OneRequest
  ClientNotes <- Nothing
  ServerNotes <- OneServerNote
  Redactable <- OneRequest
  Broken = Broken
  MayBreak <- Both
  MayCrash = TRUE
  PipeCap = 1
SPECIFICATION FairSpec
PROPERTIES ReturnsAfterEOF ChildIsHeard
CHECK_DEADLOCK FALSE
