------------------------------ MODULE LogFollower -----------------------------
(***************************************************************************)
(* A follower beside a process that writes and rotates the audit log       *)
(* (AuditLog): `dvarapala logs -f` (src/cmd/dvarapala/logs.go:108-270) or  *)
(* the tail of `dvarapala ui` (src/internal/ui/server.go), which publishes *)
(* to the browsers that are connected.  Both keep a handle, look every     *)
(* 200 ms whether the path has become another file, and reopen it then:    *)
(* logs -f from its start, the ui from its end.                            *)
(*                                                                         *)
(* Which of them runs is chosen at the start.  A line is read whole: its   *)
(* write(2) is one step.  Stat and Open of a file that has taken the path  *)
(* are one step too.                                                       *)
(***************************************************************************)
EXTENDS AuditLog, FiniteSets

CONSTANTS
  Programs,    \* the followers to choose from: ui, logs
  LastNs,      \* the values of logs -n; 0 shows all there is
  Browsers,
  ChanCap,     \* lines a browser's channel holds (64 in the code)
  MaxConnects  \* bound: connections a browser makes

ASSUME ProgramsAssumption == Programs \subseteq {"ui", "logs"} /\ LastNs \subseteq Nat
ASSUME BrowsersAssumption == ChanCap \in Nat \ {0} /\ MaxConnects \in Nat

VARIABLES
  program,  \* the follower
  lastN,    \* its -n
  reading,  \* where it is
  handle,   \* the inode it has open, 0 for none
  pos,      \* lines of it that have been read
  out,      \* the lines printed, or published, in order
  skipped,  \* the last line that was there and is not to be shown
  mu,       \* broadcaster.mu: who holds it
  clients,  \* the browsers whose channel is registered
  todo,     \* those the line being published has yet to be sent to
  page,     \* where the handler of each browser is
  chan,     \* the lines waiting in its channel
  closed,   \* is that channel closed
  shown,    \* the lines it has received
  since,    \* Len(out) when it subscribed
  dropped,  \* the lines its full channel has not taken
  connects  \* how often it has connected

readerVars  == <<reading, handle, pos, skipped>>
browserVars == <<page, chan, closed, shown, since, dropped, connects>>
followVars  == <<program, lastN, readerVars, out, mu, clients, todo, browserVars>>

FollowInit ==
  /\ program \in Programs /\ lastN \in (IF program = "logs" THEN LastNs ELSE {0})
  /\ reading = "open" /\ handle = NoFile /\ pos = 0 /\ out = << >> /\ skipped = 0
  /\ mu = "free" /\ clients = {} /\ todo = {}
  /\ page = [b \in Browsers |-> "away"]
  /\ chan = [b \in Browsers |-> << >>] /\ closed = [b \in Browsers |-> FALSE]
  /\ shown = [b \in Browsers |-> << >>] /\ since = [b \in Browsers |-> 0]
  /\ dropped = [b \in Browsers |-> {}] /\ connects = [b \in Browsers |-> 0]

LinesIn(i) == data[i].lines
Held == LinesIn(handle)
AtEOF == pos = Len(Held)
LastOf(s) == IF s = << >> THEN 0 ELSE s[Len(s)]

\* isRotated, reopenIfRotated: no file under the path is not a rotation.
Rotated == dir[0] \notin {NoFile, handle}

-------------------------------------------------------------------------------
\* dvarapala logs -f.

\* waitForFile, and os.Open.
OpenLog ==
  /\ program = "logs" /\ reading = "open" /\ dir[0] # NoFile
  /\ handle' = dir[0] /\ pos' = 0 /\ reading' = "existing"
  /\ UNCHANGED <<program, lastN, out, skipped, mu, clients, todo, browserVars>>

\* Phase 1 reads to the end of the file.  With -n it keeps the last N in a ring
\* and prints that at the end.
ReadExisting ==
  /\ reading = "existing" /\ ~AtEOF
  /\ pos' = pos + 1
  /\ out' = IF lastN > 0 THEN out ELSE Append(out, Held[pos + 1])
  /\ UNCHANGED <<program, lastN, reading, handle, skipped, mu, clients, todo, browserVars>>

Ring == IF pos > lastN THEN SubSeq(Held, pos - lastN + 1, pos) ELSE SubSeq(Held, 1, pos)

EndExisting ==
  /\ reading = "existing" /\ AtEOF
  /\ reading' = "read"
  /\ IF lastN > 0 THEN /\ out' = Ring
                       /\ skipped' = IF pos > lastN THEN Held[pos - lastN] ELSE 0
                  ELSE UNCHANGED <<out, skipped>>
  /\ UNCHANGED <<program, lastN, handle, pos, mu, clients, todo, browserVars>>

PrintLine ==
  /\ program = "logs" /\ reading = "read" /\ ~AtEOF
  /\ pos' = pos + 1 /\ out' = Append(out, Held[pos + 1])
  /\ UNCHANGED <<program, lastN, reading, handle, skipped, mu, clients, todo, browserVars>>

EndOf(i) == Len(LinesIn(i))
StartOf(i) == 0

\* The tick after an end of file: the rest of the old file is not looked at again.
LogsTick ==
  /\ program = "logs" /\ reading = "tick"
  /\ IF Rotated THEN handle' = dir[0] /\ pos' = StartOf(dir[0])
                ELSE UNCHANGED <<handle, pos>>
  /\ reading' = "read"
  /\ UNCHANGED <<program, lastN, out, skipped, mu, clients, todo, browserVars>>

-------------------------------------------------------------------------------
\* The tail of the ui.

OpenTail ==
  /\ program = "ui" /\ reading = "open" /\ dir[0] # NoFile
  /\ handle' = dir[0] /\ reading' = "seek"
  /\ UNCHANGED <<program, lastN, pos, out, skipped, mu, clients, todo, browserVars>>

SeekEnd ==
  /\ reading = "seek"
  /\ pos' = Len(Held) /\ reading' = "read"
  /\ skipped' = IF Held = << >> THEN skipped ELSE LastOf(Held)
  /\ UNCHANGED <<program, lastN, handle, out, mu, clients, todo, browserVars>>

EndOfFile ==
  /\ reading = "read" /\ AtEOF
  /\ reading' = "tick"
  /\ UNCHANGED <<program, lastN, handle, pos, out, skipped, mu, clients, todo, browserVars>>

TailTick ==
  /\ program = "ui" /\ reading = "tick"
  /\ IF Rotated THEN reading' = "open" /\ handle' = NoFile
                ELSE reading' = "read" /\ UNCHANGED handle
  /\ UNCHANGED <<program, lastN, pos, out, skipped, mu, clients, todo, browserVars>>

\* publish holds the mutex over its whole loop.
Nobody == {}
Recipients == clients

Publish ==
  /\ program = "ui" /\ reading = "read" /\ ~AtEOF /\ mu = "free"
  /\ mu' = "tail" /\ todo' = Recipients
  /\ pos' = pos + 1 /\ out' = Append(out, Held[pos + 1])
  /\ reading' = "publish"
  /\ UNCHANGED <<program, lastN, handle, skipped, clients, browserVars>>

\* A channel that is full does not take the line, and publish does not wait.
SendTo(b) ==
  /\ b \in todo
  /\ todo' = todo \ {b}
  /\ IF Len(chan[b]) < ChanCap
     THEN chan' = [chan EXCEPT ![b] = Append(@, LastOf(out))] /\ UNCHANGED dropped
     ELSE dropped' = [dropped EXCEPT ![b] = @ \cup {LastOf(out)}] /\ UNCHANGED chan
  /\ UNCHANGED <<program, lastN, readerVars, out, mu, clients, page, closed, shown, since,
                 connects>>

EndPublish ==
  /\ reading = "publish" /\ todo = {}
  /\ reading' = "read" /\ mu' = "free"
  /\ UNCHANGED <<program, lastN, handle, pos, out, skipped, clients, todo, browserVars>>

-------------------------------------------------------------------------------
\* The stream of a page in a browser.

\* serveStream subscribes with a new channel, after the headers are sent.
Subscribe(b) ==
  /\ program = "ui" /\ page[b] = "away" /\ connects[b] < MaxConnects /\ mu = "free"
  /\ clients' = clients \cup {b}
  /\ chan' = [chan EXCEPT ![b] = << >>] /\ closed' = [closed EXCEPT ![b] = FALSE]
  /\ since' = [since EXCEPT ![b] = Len(out)] /\ shown' = [shown EXCEPT ![b] = << >>]
  /\ dropped' = [dropped EXCEPT ![b] = {}]
  /\ connects' = [connects EXCEPT ![b] = @ + 1]
  /\ page' = [page EXCEPT ![b] = "live"]
  /\ UNCHANGED <<program, lastN, readerVars, out, mu, todo>>

Deliver(b) ==
  /\ page[b] = "live" /\ chan[b] # << >>
  /\ shown' = [shown EXCEPT ![b] = Append(@, Head(chan[b]))]
  /\ chan' = [chan EXCEPT ![b] = Tail(@)]
  /\ UNCHANGED <<program, lastN, readerVars, out, mu, clients, todo, page, closed, since,
                 dropped, connects>>

\* The request ends: unsubscribe takes the channel from the map, under the mutex,
\* and closes it.  EventSource connects again by itself.
CloseFirst(b) == /\ page[b] = "live" /\ ~closed[b]
                 /\ closed' = [closed EXCEPT ![b] = TRUE]
                 /\ UNCHANGED <<clients, page>>
TakeOut(b) == /\ page[b] = "live" /\ mu = "free"
              /\ clients' = clients \ {b}
              /\ page' = [page EXCEPT ![b] = "closing"]
              /\ UNCHANGED closed

Unsubscribe(b) ==
  /\ TakeOut(b)
  /\ UNCHANGED <<program, lastN, readerVars, out, mu, todo, chan, shown, since, dropped,
                 connects>>

CloseChan(b) ==
  /\ page[b] = "closing"
  /\ closed' = [closed EXCEPT ![b] = TRUE]
  /\ page' = [page EXCEPT ![b] = "away"]
  /\ UNCHANGED <<program, lastN, readerVars, out, mu, clients, todo, chan, shown, since,
                 dropped, connects>>

-------------------------------------------------------------------------------
Reader ==
  \/ OpenLog \/ ReadExisting \/ EndExisting \/ PrintLine \/ LogsTick
  \/ OpenTail \/ SeekEnd \/ EndOfFile \/ TailTick
  \/ Publish \/ EndPublish \/ \E b \in Browsers : SendTo(b)

Handler(b) == Subscribe(b) \/ Deliver(b) \/ Unsubscribe(b) \/ CloseChan(b)

\* The writer does not notice who reads.
WriterStep == Next /\ UNCHANGED followVars
FollowStep == (Reader \/ \E b \in Browsers : Handler(b)) /\ UNCHANGED vars

FollowNext == WriterStep \/ FollowStep
FollowSpec == Init /\ FollowInit /\ [][FollowNext]_<<vars, followVars>>

\* Only the follower's own goroutine is sure to run.
FairFollowSpec ==
  FollowSpec /\ WF_<<vars, followVars>>(Reader /\ UNCHANGED vars)

-------------------------------------------------------------------------------
Elements(s) == {s[i] : i \in 1..Len(s)}
Increasing(s) == \A i, j \in 1..Len(s) : i < j => s[i] < s[j]

\* A follower shows lines in the order they were written, none twice, of each file
\* a part without a gap, and of the file it reads all it has come past - whatever
\* rotates, fails or crashes while it reads.
ShownInOrder ==
  /\ Increasing(out)
  /\ \A i \in Inodes : \A j, k, l \in 1..Len(LinesIn(i)) :
       (j < k /\ k < l /\ LinesIn(i)[j] \in Elements(out) /\ LinesIn(i)[l] \in Elements(out)) =>
         LinesIn(i)[k] \in Elements(out)
  /\ reading \in {"read", "tick", "publish"} =>
       \A k \in 1..pos : Held[k] > skipped => Held[k] \in Elements(out)

\* What a page gets from its stream is what was published since it subscribed, but
\* for lines that came when its channel was full (server.go:137-139).
Meant(b) ==
  {out[i] : i \in since[b] + 1..(IF b \in todo THEN Len(out) - 1 ELSE Len(out))}
Got(b) == shown[b] \o chan[b]
GapsOnlyWhenSlow ==
  \A b \in Browsers : page[b] = "live" =>
    Increasing(Got(b)) /\ Elements(Got(b)) = Meant(b) \ dropped[b]

\* publish never sends on a channel that has been closed, which would panic.
NoSendOnClosed == \A b \in todo : ~closed[b]

\* A line that stays in audit.jsonl is shown, unless it was there already when
\* the follower came to the end it starts from.
EachLineFollowed ==
  \A n \in 1..MaxLines :
    n \in LinesOf(0) ~> (n \in Elements(out) \/ n <= skipped \/ n \notin LinesOf(0))

-------------------------------------------------------------------------------
(* Why the safety properties hold beside a process that has the log to itself: *)
(* see LogFollower_proofs.                                                      *)

FollowTypeOK ==
  /\ program \in {"ui", "logs"} /\ lastN \in Nat
  /\ reading \in {"open", "existing", "seek", "read", "tick", "publish"}
  /\ handle \in Nat /\ pos \in Nat /\ skipped \in Nat /\ out \in Seq(Nat)
  /\ chan \in [Browsers -> Seq(Nat)] /\ shown \in [Browsers -> Seq(Nat)]
  /\ since \in [Browsers -> Nat] /\ dropped \in [Browsers -> SUBSET Nat]

\* audit.jsonl is the newest inode, and lines are numbered along the inodes.
InodesInv ==
  /\ dir[0] \in {NoFile, Len(data)}
  /\ \A i \in Inodes : \A k \in 1..Len(LinesIn(i)) : LinesIn(i)[k] \in 1..lines
  /\ \A i, j \in Inodes : \A k \in 1..Len(LinesIn(i)), l \in 1..Len(LinesIn(j)) :
       i < j \/ (i = j /\ k < l) => LinesIn(i)[k] < LinesIn(j)[l]

\* The follower has not come to a line yet.
Ahead(i, k) ==
  CASE reading = "open" -> i = Len(data)
    [] reading = "seek" -> i >= handle
    [] OTHER            -> i > handle \/ (i = handle /\ k > pos)

\* What is printed, or was passed over, was written before all that lies ahead.
FrontierInv ==
  \A n \in Elements(out) \cup {skipped} :
    /\ n \in 0..lines
    /\ \A i \in Inodes : \A k \in 1..Len(LinesIn(i)) : Ahead(i, k) => n < LinesIn(i)[k]

\* Of the file it reads it has printed what was not passed over, unless it still
\* has to find out what that is.
Filling == reading = "existing" /\ lastN > 0
PlaceInv ==
  /\ IF reading = "open" THEN handle = NoFile ELSE handle \in Inodes
  /\ reading \notin {"open", "seek"} => pos <= Len(Held)
  /\ reading = "existing" \/ (reading = "open" /\ program = "logs") => skipped = 0
  /\ Filling \/ (reading = "open" /\ program = "logs") => out = << >>
  /\ reading \notin {"open", "seek"} /\ ~Filling =>
       \A k \in 1..pos : Held[k] \in Elements(out) <=> Held[k] > skipped

FollowInv == FollowTypeOK /\ InodesInv /\ FrontierInv /\ PlaceInv /\ ShownInOrder

\* A browser is registered while its channel is open, and the mutex keeps it so
\* until publish has come past it.
RegisteredInv ==
  /\ mu \in {"free", "tail"} /\ (mu = "tail" <=> reading = "publish")
  /\ page \in [Browsers -> {"away", "live", "closing"}] /\ closed \in [Browsers -> BOOLEAN]
  /\ clients = {b \in Browsers : page[b] = "live"} /\ todo \subseteq clients
  /\ reading # "publish" => todo = {}
  /\ reading = "existing" => program = "logs"
  /\ \A b \in clients : program = "ui" /\ ~closed[b]

\* A stream begins with what is published after it, and refuses nothing else.
StreamInv ==
  \A b \in clients :
    /\ since[b] <= Len(out) /\ (b \in todo => since[b] < Len(out))
    /\ dropped[b] \subseteq Meant(b)
===============================================================================
