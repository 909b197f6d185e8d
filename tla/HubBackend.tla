------------------------------ MODULE HubBackend ------------------------------
(***************************************************************************)
(* One stdio server behind `dvarapala hub` (src/internal/hub/server.go):   *)
(* every HTTP handler goroutine runs Call, which registers a channel under *)
(* a fresh internal id, writes one line to the child's stdin under         *)
(* writeMu, and waits for either its channel or its context.  A single     *)
(* readLoop goroutine reads the child's stdout and hands every message     *)
(* with a numeric id to the channel pending under that id.                 *)
(*                                                                         *)
(* A call stands for one HTTP request, so it runs once.  The payload of a  *)
(* line is abstracted to the call it belongs to; the client's own id is    *)
(* restored from a local variable (line 155) and is part of that payload.  *)
(***************************************************************************)
EXTENDS Naturals, Sequences

CONSTANTS
  Calls,       \* the HTTP requests routed to this server
  Notes,       \* those whose message has no id (notifications)
  NoCall,      \* not a call
  ServerIds,   \* numeric ids the child gives to requests of its own
  PipeCap      \* chunks or lines a pipe holds before a writer blocks

ASSUME NotesAssumption == Notes \subseteq Calls
ASSUME NoCallAssumption == NoCall \notin Calls
ASSUME ServerIdsAssumption == ServerIds \subseteq Nat
ASSUME PipeCapAssumption == PipeCap \in Nat /\ PipeCap >= 2

VARIABLES
  nextID,      \* the last internal id handed out
  pending,     \* the sync.Map: a set of entries [id, to]
  writeMu,     \* the call holding writeMu, or NoCall
  stdinOpen,   \* FALSE once Close has closed the child's stdin
  stdin,       \* chunks in the pipe to the child
  stdout,      \* lines in the pipe from the child
  pc,          \* where each call is
  myID,        \* the internal id of each call, 0 before it has one
  ctxDone,     \* has the call's context ended
  chan,        \* the call's channel of capacity one
  outcome,     \* what the call returned
  got,         \* the line it returned
  reader,      \* where readLoop is
  rdLine,      \* the message it is dispatching
  rdTo,        \* the call whose channel it has taken out of pending
  childUp,     \* is the child process running
  taken,       \* requests the child has read: a set of [id, to]
  answered     \* calls the child has replied to

callVars   == <<pc, myID, ctxDone, chan, outcome, got>>
readerVars == <<reader, rdLine, rdTo>>
childVars  == <<childUp, taken, answered>>
pipeVars   == <<stdin, stdout, stdinOpen>>
vars == <<nextID, pending, writeMu, callVars, readerVars, childVars, pipeVars>>

Requests == Calls \ Notes

\* A line from the child: a reply, a request of its own with a numeric id, a
\* message that carries no numeric id, or text that is not JSON-RPC.
Line == [kind : {"none", "reply", "request", "other", "broken"},
         id : Nat, of : Calls \cup {NoCall}]
NoLine == [kind |-> "none", id |-> 0, of |-> NoCall]

\* WriteRaw makes two writes, the message and then the newline.
Chunk == [part : {"text", "newline"}, id : Nat, of : Calls]

Entry == [id : Nat, to : Calls]

PcValues == {"start", "store", "lock", "text", "newline", "unlock", "failed",
             "await", "cleanup", "done"}

Init ==
  /\ nextID = 0 /\ pending = {} /\ writeMu = NoCall
  /\ stdinOpen = TRUE /\ stdin = << >> /\ stdout = << >>
  /\ pc = [c \in Calls |-> "start"]
  /\ myID = [c \in Calls |-> 0]
  /\ ctxDone = [c \in Calls |-> FALSE]
  /\ chan = [c \in Calls |-> NoLine]
  /\ outcome = [c \in Calls |-> "none"]
  /\ got = [c \in Calls |-> NoLine]
  /\ reader = "scan" /\ rdLine = NoLine /\ rdTo = NoCall
  /\ childUp = TRUE /\ taken = {} /\ answered = {}

-------------------------------------------------------------------------------
\* The handler goroutine: Call.

\* The straight-line order of Call for a request; its last step is the select.
OrderWithLateStore == [start |-> "lock", lock |-> "text", text |-> "newline",
  newline |-> "unlock", unlock |-> "store", store |-> "await"]
Order == [start |-> "store", store |-> "lock", lock |-> "text",
  text |-> "newline", newline |-> "unlock", unlock |-> "await"]

GoTo(c, place) == pc' = [pc EXCEPT ![c] = place]

\* A notification goes straight to the write.
StartNote(c) ==
  /\ c \in Notes /\ pc[c] = "start"
  /\ GoTo(c, "lock")
  /\ UNCHANGED <<nextID, pending, writeMu, myID, ctxDone, chan, outcome, got,
                 readerVars, childVars, pipeVars>>

\* nextID.Add(1) returns the new value.
IDBeforeAdd == IF nextID = 0 THEN 1 ELSE nextID
FreshID == nextID + 1

NewID(c) ==
  /\ c \in Requests /\ pc[c] = "start"
  /\ nextID' = nextID + 1
  /\ myID' = [myID EXCEPT ![c] = FreshID]
  /\ GoTo(c, Order["start"])
  /\ UNCHANGED <<pending, writeMu, ctxDone, chan, outcome, got, readerVars,
                 childVars, pipeVars>>

\* A request registers its channel before anything is written.
Store(c) ==
  /\ pc[c] = "store"
  /\ pending' = pending \cup {[id |-> myID[c], to |-> c]}
  /\ GoTo(c, Order["store"])
  /\ UNCHANGED <<nextID, writeMu, myID, ctxDone, chan, outcome, got, readerVars,
                 childVars, pipeVars>>

EnterWrite(c) ==
  /\ pc[c] = "lock"
  /\ writeMu' = c
  /\ GoTo(c, Order["lock"])
  /\ UNCHANGED <<nextID, pending, myID, ctxDone, chan, outcome, got, readerVars,
                 childVars, pipeVars>>

Lock(c) == writeMu = NoCall /\ EnterWrite(c)

\* The two writes of WriteRaw.  Each blocks while the pipe is full and does not
\* look at the context.
Write(c, place, part) ==
  /\ pc[c] = place /\ childUp /\ stdinOpen /\ Len(stdin) < PipeCap
  /\ stdin' = Append(stdin, [part |-> part, id |-> myID[c], of |-> c])
  /\ GoTo(c, Order[place])
  /\ UNCHANGED <<nextID, pending, writeMu, myID, ctxDone, chan, outcome, got,
                 readerVars, childVars, stdout, stdinOpen>>

WriteText(c)    == Write(c, "text", "text")
WriteNewline(c) == Write(c, "newline", "newline")

\* Either write fails once the child is gone or stdin was closed.  The mutex is
\* released before the error is looked at.
ReturnAtOnce == "cleanup"
ReleaseFirst == "failed"

WriteFails(c) ==
  /\ pc[c] \in {"text", "newline"} /\ ~(childUp /\ stdinOpen)
  /\ GoTo(c, ReleaseFirst)
  /\ UNCHANGED <<nextID, pending, writeMu, myID, ctxDone, chan, outcome, got,
                 readerVars, childVars, pipeVars>>

\* A failed request returns the error, through its deferred Delete; a
\* notification is over either way.
AwaitAnyway(c) == IF c \in Notes THEN "done" ELSE "await"
AfterUnlock(c) == IF c \in Notes THEN "done"
                  ELSE IF pc[c] = "failed" THEN "cleanup" ELSE Order["unlock"]

Unlock(c) ==
  /\ pc[c] \in {"unlock", "failed"}
  /\ writeMu' = NoCall
  /\ GoTo(c, AfterUnlock(c))
  /\ outcome' = [outcome EXCEPT ![c] = IF pc[c] = "failed" THEN "error"
                                       ELSE IF c \in Notes THEN "sent" ELSE @]
  /\ UNCHANGED <<nextID, pending, myID, ctxDone, chan, got, readerVars,
                 childVars, pipeVars>>

\* The select: with both cases ready either may be chosen.
Receive(c) ==
  /\ pc[c] = "await" /\ chan[c] # NoLine
  /\ got' = [got EXCEPT ![c] = chan[c]]
  /\ chan' = [chan EXCEPT ![c] = NoLine]
  /\ outcome' = [outcome EXCEPT ![c] = "reply"]
  /\ GoTo(c, "cleanup")
  /\ UNCHANGED <<nextID, pending, writeMu, myID, ctxDone, readerVars, childVars,
                 pipeVars>>

GiveUp(c) ==
  /\ pc[c] = "await" /\ ctxDone[c]
  /\ outcome' = [outcome EXCEPT ![c] = "expired"]
  /\ GoTo(c, "cleanup")
  /\ UNCHANGED <<nextID, pending, writeMu, myID, ctxDone, chan, got, readerVars,
                 childVars, pipeVars>>

\* pending.Delete(id), and the delete of pending.LoadAndDelete(id).
Kept(id) == pending
Without(id) == {e \in pending : e.id # id}

\* The deferred Delete.
Cleanup(c) ==
  /\ pc[c] = "cleanup"
  /\ pending' = Without(myID[c])
  /\ GoTo(c, "done")
  /\ UNCHANGED <<nextID, writeMu, myID, ctxDone, chan, outcome, got, readerVars,
                 childVars, pipeVars>>

\* The 30 s timeout of the handler, or the HTTP client going away.  Only the
\* select of a request looks at it.
Expire(c) ==
  /\ c \in Requests /\ pc[c] \notin {"start", "done"} /\ ~ctxDone[c]
  /\ ctxDone' = [ctxDone EXCEPT ![c] = TRUE]
  /\ UNCHANGED <<nextID, pending, writeMu, pc, myID, chan, outcome, got,
                 readerVars, childVars, pipeVars>>

\* Hub.Close: handlers may still be in flight, Shutdown waits 5 s for them.
Close ==
  /\ stdinOpen
  /\ stdinOpen' = FALSE
  /\ UNCHANGED <<nextID, pending, writeMu, callVars, readerVars, childVars,
                 stdin, stdout>>

-------------------------------------------------------------------------------
\* The reader goroutine: readLoop.

\* Scan returns a message.  One with no id, or no numeric id, is skipped.
Scan ==
  /\ reader = "scan" /\ stdout # << >> /\ Head(stdout).kind # "broken"
  /\ stdout' = Tail(stdout)
  /\ IF Head(stdout).kind = "other"
     THEN UNCHANGED readerVars
     ELSE reader' = "lookup" /\ rdLine' = Head(stdout) /\ rdTo' = NoCall
  /\ UNCHANGED <<nextID, pending, writeMu, callVars, childVars, stdin, stdinOpen>>

\* Scan returns false on a line it cannot decode and at end of file: the
\* goroutine ends, and nobody is told.
ScanEnds ==
  /\ reader = "scan"
  /\ IF stdout = << >> THEN ~childUp ELSE Head(stdout).kind = "broken"
  /\ reader' = "end"
  /\ UNCHANGED <<nextID, pending, writeMu, callVars, rdLine, rdTo, childVars,
                 pipeVars>>

\* pending.LoadAndDelete(id).  Whether the message has a method is not checked.
LoadAndDelete ==
  /\ reader = "lookup"
  /\ \/ \E e \in pending :
          /\ e.id = rdLine.id
          /\ pending' = Without(rdLine.id)
          /\ rdTo' = e.to
          /\ reader' = "send"
     \/ /\ \A e \in pending : e.id # rdLine.id
        /\ reader' = "scan"
        /\ UNCHANGED <<pending, rdTo>>
  /\ UNCHANGED <<nextID, writeMu, callVars, rdLine, childVars, pipeVars>>

\* The send never blocks: into a full channel the message is dropped.
Send ==
  /\ reader = "send"
  /\ chan' = [chan EXCEPT ![rdTo] = IF @ = NoLine THEN rdLine ELSE @]
  /\ reader' = "scan"
  /\ UNCHANGED <<nextID, pending, writeMu, pc, myID, ctxDone, outcome, got, rdLine,
                 rdTo, childVars, pipeVars>>

-------------------------------------------------------------------------------
\* The child: a server that answers the requests it has read, in any order,
\* late or more than once, and that may also speak on its own behalf.

ChildTake ==
  /\ childUp /\ Len(stdin) >= 2
  /\ taken' = IF stdin[1].of \in Notes THEN taken
              ELSE taken \cup {[id |-> stdin[1].id, to |-> stdin[1].of]}
  /\ stdin' = Tail(Tail(stdin))
  /\ UNCHANGED <<nextID, pending, writeMu, callVars, readerVars, childUp,
                 answered, stdout, stdinOpen>>

Emit(line) ==
  /\ childUp /\ Len(stdout) < PipeCap
  /\ stdout' = Append(stdout, line)
  /\ UNCHANGED <<nextID, pending, writeMu, callVars, readerVars, childUp, taken,
                 stdin, stdinOpen>>

ChildReply == \E r \in taken :
  /\ Emit([kind |-> "reply", id |-> r.id, of |-> r.to])
  /\ answered' = answered \cup {r.to}

ChildSpeaks ==
  /\ \/ \E i \in ServerIds : Emit([kind |-> "request", id |-> i, of |-> NoCall])
     \/ \E k \in {"other", "broken"} : Emit([kind |-> k, id |-> 0, of |-> NoCall])
  /\ UNCHANGED answered

\* It exits, or is interrupted by Close; what it wrote can still be read.
ChildExit ==
  /\ childUp
  /\ childUp' = FALSE
  /\ UNCHANGED <<nextID, pending, writeMu, callVars, readerVars, taken, answered,
                 pipeVars>>

-------------------------------------------------------------------------------
CallStep(c) ==
  \/ StartNote(c) \/ NewID(c) \/ Store(c) \/ Lock(c) \/ WriteText(c)
  \/ WriteNewline(c) \/ WriteFails(c) \/ Unlock(c) \/ Receive(c) \/ GiveUp(c)
  \/ Cleanup(c)

ReaderStep == Scan \/ ScanEnds \/ LoadAndDelete \/ Send

Next ==
  \/ \E c \in Calls : CallStep(c) \/ Expire(c)
  \/ ReaderStep \/ Close
  \/ ChildTake \/ ChildReply \/ ChildSpeaks \/ ChildExit

Spec == Init /\ [][Next]_vars

\* Goroutines are scheduled, the 30 s timer fires, and the child goes on
\* reading its stdin until it exits.  It need not answer.
FairSpec ==
  /\ Spec
  /\ \A c \in Calls : WF_vars(CallStep(c)) /\ WF_vars(Expire(c))
  /\ WF_vars(ReaderStep) /\ WF_vars(ChildTake)

-------------------------------------------------------------------------------
TypeOK ==
  /\ nextID \in Nat
  /\ pending \subseteq Entry
  /\ writeMu \in Calls \cup {NoCall}
  /\ stdinOpen \in BOOLEAN
  /\ stdin \in Seq(Chunk)
  /\ stdout \in Seq(Line)
  /\ pc \in [Calls -> PcValues]
  /\ myID \in [Calls -> Nat]
  /\ ctxDone \in [Calls -> BOOLEAN]
  /\ chan \in [Calls -> Line]
  /\ outcome \in [Calls -> {"none", "sent", "reply", "expired", "error"}]
  /\ got \in [Calls -> Line]
  /\ reader \in {"scan", "lookup", "send", "end"}
  /\ rdLine \in Line
  /\ rdTo \in Calls \cup {NoCall}
  /\ childUp \in BOOLEAN
  /\ taken \subseteq Entry
  /\ answered \subseteq Calls

\* What a caller returns is the child's reply to its own request, whatever the
\* order, lateness or number of the replies (comment at server.go:51-56).
RoutedToCaller ==
  \A c \in Calls : outcome[c] = "reply" => got[c].kind = "reply" /\ got[c].of = c

\* The text of a message is followed by its own newline in the pipe: writers
\* never interleave on the child's stdin (writeMu).
LinesIntact ==
  \A i \in 1..Len(stdin) :
    /\ stdin[i].part = "text" =>
         IF i = Len(stdin) THEN pc[stdin[i].of] \in {"newline", "failed", "cleanup", "done"}
         ELSE stdin[i+1] = [stdin[i] EXCEPT !.part = "newline"]
    /\ stdin[i].part = "newline" => i > 1 /\ stdin[i-1].part = "text"

\* The map never holds an entry of a call that has returned, nor two entries
\* that a reply could be matched with: nothing leaks on any path of Call.
EntriesAreLive ==
  /\ \A e \in pending : pc[e.to] \notin {"start", "store", "done"} /\ myID[e.to] = e.id
  /\ \A e, f \in pending : e.id = f.id => e = f

\* The default branch of the non-blocking send is never taken: the channel the
\* reader has taken out of the map is empty (server.go:120-123).
SendFindsRoom == reader = "send" => chan[rdTo] = NoLine

\* A reply is thrown away by the lookup only if its call has already returned
\* or already has a reply: it cannot arrive before its channel is registered.
NoReplyLost ==
  [][ (reader = "lookup" /\ reader' = "scan" /\ rdLine.kind = "reply") =>
        \/ pc[rdLine.of] = "done"
        \/ chan[rdLine.of] # NoLine
        \/ got[rdLine.of] # NoLine ]_vars

\* Through its ids, pipes, map and reader the backend implements one remote
\* call per caller: a single return, and only with that caller's own answer.
Promise == INSTANCE RemoteCall WITH
  asked <- {e.to : e \in taken}, reply <- [c \in Calls |-> got[c].of]
IsRemoteCall == Promise!Spec

\* Every call returns, even when the child never answers, stops talking
\* JSON-RPC, or exits, as long as it keeps reading.
EveryCallReturns ==
  \A c \in Calls : pc[c] # "start" ~> pc[c] = "done"

-------------------------------------------------------------------------------
(* The inductive invariant behind RoutedToCaller.  It holds whatever ids the  *)
(* requests of the child carry; RoutedToCaller follows from it when none of   *)
(* them is an id a call can have: see HubBackend_proofs.                      *)

\* Every request that has started has an id of its own.
IdsDistinct ==
  /\ \A c \in Calls : myID[c] <= nextID
  /\ \A c \in Notes : myID[c] = 0 /\ pc[c] # "store"
  /\ \A c \in Requests : pc[c] = "start" <=> myID[c] = 0
  /\ \A c, d \in Calls : myID[c] # 0 /\ myID[c] = myID[d] => c = d

\* An id travels with the call it was given to: in the map, down the child's
\* stdin, through the child, and back up its stdout.
Belongs(id, c) == c \in Requests /\ id # 0 /\ myID[c] = id
ChunkBelongs(chunk) == chunk.of \in Requests => Belongs(chunk.id, chunk.of)
LineBelongs(line) ==
  /\ line.kind = "reply" => Belongs(line.id, line.of)
  /\ line.kind = "request" => line.id \in ServerIds

IdsTravelWithCalls ==
  /\ \A e \in pending : Belongs(e.id, e.to)
  /\ \A i \in 1..Len(stdin) : ChunkBelongs(stdin[i])
  /\ \A e \in taken : Belongs(e.id, e.to)
  /\ \A i \in 1..Len(stdout) : LineBelongs(stdout[i]) /\ stdout[i].kind # "none"
  /\ LineBelongs(rdLine)
  /\ reader \in {"lookup", "send"} => rdLine.kind \in {"reply", "request"}
  /\ reader = "send" => Belongs(rdLine.id, rdTo)

\* What is in a channel, or was received from it, is the reply to its call, or a
\* request of the child's own under the very id of that call, and nothing else.
OwnLine(line, c) ==
  \/ line.kind = "reply" /\ line.of = c
  \/ line.kind = "request" /\ line.id \in ServerIds /\ Belongs(line.id, c)

ChannelsHoldOwnLine ==
  \A c \in Calls :
    /\ chan[c] # NoLine => OwnLine(chan[c], c)
    /\ got[c] # NoLine => OwnLine(got[c], c)
    /\ outcome[c] = "reply" => got[c] # NoLine

RoutingInv == TypeOK /\ IdsDistinct /\ IdsTravelWithCalls /\ ChannelsHoldOwnLine
===============================================================================
