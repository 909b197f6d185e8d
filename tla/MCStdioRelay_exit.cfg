\* The test's child: it answers each request, and exits at the end of its stdin.
CONSTANTS
  r1 = r1
  n1 = n1
  s1 = s1
  Requests <- OneRequest
  ClientNotes <- Nothing
  ServerNotes <- Nothing
  Redactable <- OneRequest
  Broken = Broken
  MayBreak <- Nothing
  MayCrash = FALSE
  PipeCap = 1
SPECIFICATION Spec
INVARIANT RepliesReachClient
CHECK_DEADLOCK FALSE
