\* One process that rotates when a third line comes, and may stop anywhere; beside it
\* logs -f, or the ui with one browser that connects twice and whose channel holds a line.
CONSTANTS
  p = p
  b = b
  Procs <- OneProc
  KeepOptions <- MCKeep
  MaxBytes = 2
  Sizes <- MCSizes
  MayFail = FALSE
  MaxLines = 5
  Programs <- BothPrograms
  LastNs <- MCLastNs
  Browsers <- OneBrowser
  ChanCap = 1
  MaxConnects = 2
SPECIFICATION FairFollowSpec
INVARIANTS ShownInOrder GapsOnlyWhenSlow NoSendOnClosed
PROPERTIES EachLineFollowed
CHECK_DEADLOCK FALSE
