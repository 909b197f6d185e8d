\* A request and a notification of the client, a notification of the child, a line
\* of the client that is not JSON-RPC, a client that may stop reading and a child
\* that may crash.  What the client sends can be redacted, the child's notification
\* cannot.
CONSTANTS
  r1 = r1
  n1 = n1
  s1 = s1
  Requests <- OneRequest
  ClientNotes <- OneNote
  ServerNotes <- OneServerNote
  Redactable <- FromClient
  Broken = Broken
  MayBreak <- InOnly
  MayCrash = TRUE
  PipeCap = 1
SPECIFICATION Spec
INVARIANTS TypeOK AuditTrail AnsweredOnce ClientLinesIntact ClientFullyAudited
PROPERTY IsEnforcement
CHECK_DEADLOCK FALSE
