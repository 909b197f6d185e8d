\* One process, up to three rotated copies, calls that fail, lines up to one that is longer than the cap.
CONSTANTS
  p = p
  q = q
  Procs <- OneProc
  KeepOptions <- MCKeep
  MaxBytes = 3
  Sizes <- MCSizes
  MayFail = TRUE
  MaxLines = 6
SPECIFICATION Spec
INVARIANTS AuditInv HistoryIsSuffix FilesUnderCap DroppedAtHorizon
CHECK_DEADLOCK FALSE
