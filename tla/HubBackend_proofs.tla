-------------------------- MODULE HubBackend_proofs ---------------------------
(***************************************************************************)
(* Proofs about HubBackend, for any set of calls, any pipe capacity and    *)
(* any ids of the child's own requests: ids stay with their calls, writers *)
(* exclude each other and lines stay whole, the map holds what it must and *)
(* no more, no reply is lost.  Provided that the child's own requests have *)
(* no id a call can have, every caller gets its own reply, and every step  *)
(* is one of RemoteCall or none.                                           *)
(***************************************************************************)
EXTENDS HubBackend, TLAPS

USE NotesAssumption, NoCallAssumption, ServerIdsAssumption, PipeCapAssumption

\* The head and the tail of a pipe that is not empty have the types of the pipe.
LEMMA PipeTypes ==
  ASSUME NEW S, NEW q \in Seq(S), Len(q) >= 1
  PROVE  Head(q) \in S /\ Tail(q) \in Seq(S)
  OBVIOUS

\* What is left of a pipe without its first two elements.
LEMMA PipeShift ==
  ASSUME NEW S, NEW q \in Seq(S), Len(q) >= 2
  PROVE  \A i \in 1..Len(Tail(Tail(q))) :
            i + 2 \in 1..Len(q) /\ Tail(Tail(q))[i] = q[i + 2]
<1> DEFINE t == Tail(q)
<1>1. t \in Seq(S) /\ Len(t) = Len(q) - 1
  OBVIOUS
<1>2. \A i \in 1..Len(t) : t[i] = q[i + 1]
  OBVIOUS
<1> HIDE DEF t
<1>3. Len(Tail(t)) = Len(t) - 1 /\ \A i \in 1..Len(Tail(t)) : Tail(t)[i] = t[i + 1]
  BY <1>1
<1>4. \A i \in 1..Len(Tail(t)) : i + 2 \in 1..Len(q) /\ Tail(t)[i] = q[i + 2]
  BY <1>1, <1>2, <1>3
<1> QED
  BY <1>4 DEF t

\* Every step keeps the types.
LEMMA TypeStep == TypeOK /\ [Next]_vars => TypeOK'
<1> SUFFICES ASSUME TypeOK, [Next]_vars PROVE TypeOK'
  OBVIOUS
<1> USE DEF TypeOK
<1>1. ASSUME NEW c \in Calls, CallStep(c) PROVE TypeOK'
  <2>1. CASE StartNote(c)
    BY <2>1 DEF StartNote, GoTo, PcValues, readerVars, childVars, pipeVars
  <2>2. CASE NewID(c)
    BY <2>2 DEF NewID, FreshID, Order, GoTo, PcValues, readerVars, childVars, pipeVars
  <2>3. CASE Store(c)
    BY <2>3 DEF Store, Order, GoTo, PcValues, Entry, readerVars, childVars, pipeVars
  <2>4. CASE Lock(c)
    BY <2>4 DEF Lock, EnterWrite, Order, GoTo, PcValues, readerVars, childVars, pipeVars
  <2>5. CASE WriteText(c)
    <3>1. [part |-> "text", id |-> myID[c], of |-> c] \in Chunk
      BY DEF Chunk
    <3> QED
      BY <2>5, <3>1 DEF WriteText, Write, Order, GoTo, PcValues, readerVars, childVars
  <2>6. CASE WriteNewline(c)
    <3>1. [part |-> "newline", id |-> myID[c], of |-> c] \in Chunk
      BY DEF Chunk
    <3> QED
      BY <2>6, <3>1 DEF WriteNewline, Write, Order, GoTo, PcValues, readerVars, childVars
  <2>7. CASE WriteFails(c)
    BY <2>7 DEF WriteFails, ReleaseFirst, GoTo, PcValues, readerVars, childVars, pipeVars
  <2>8. CASE Unlock(c)
    BY <2>8 DEF Unlock, AfterUnlock, Order, GoTo, PcValues, readerVars, childVars, pipeVars
  <2>9. CASE Receive(c)
    BY <2>9 DEF Receive, GoTo, PcValues, Line, NoLine, readerVars, childVars, pipeVars
  <2>10. CASE GiveUp(c)
    BY <2>10 DEF GiveUp, GoTo, PcValues, readerVars, childVars, pipeVars
  <2>11. CASE Cleanup(c)
    BY <2>11 DEF Cleanup, Without, GoTo, PcValues, readerVars, childVars, pipeVars
  <2> QED
    BY <1>1, <2>1, <2>2, <2>3, <2>4, <2>5, <2>6, <2>7, <2>8, <2>9, <2>10, <2>11
       DEF CallStep
<1>2. ASSUME NEW c \in Calls, Expire(c) PROVE TypeOK'
  BY <1>2 DEF Expire, readerVars, childVars, pipeVars
<1>3. CASE ReaderStep
  <2>1. CASE Scan
    <3>1. Len(stdout) >= 1
      BY <2>1 DEF Scan
    <3>2. Head(stdout) \in Line /\ Tail(stdout) \in Seq(Line)
      BY <3>1, PipeTypes
    <3> QED
      BY <2>1, <3>2 DEF Scan, readerVars, callVars, childVars
  <2>2. CASE ScanEnds
    BY <2>2 DEF ScanEnds, callVars, childVars, pipeVars
  <2>3. CASE LoadAndDelete
    BY <2>3 DEF LoadAndDelete, Without, Entry, callVars, childVars, pipeVars
  <2>4. CASE Send
    BY <2>4 DEF Send, childVars, pipeVars
  <2> QED
    BY <1>3, <2>1, <2>2, <2>3, <2>4 DEF ReaderStep
<1>4. CASE Close
  BY <1>4 DEF Close, callVars, readerVars, childVars
<1>5. CASE ChildTake
  <2>1. Len(stdin) >= 2 /\ stdin \in Seq(Chunk)
    BY <1>5 DEF ChildTake
  <2>2. stdin[1] \in Chunk
    BY <2>1
  <2>3. Tail(stdin) \in Seq(Chunk) /\ Len(Tail(stdin)) >= 1
    BY <2>1
  <2>4. Tail(Tail(stdin)) \in Seq(Chunk)
    BY <2>3, PipeTypes
  <2>5. taken' \subseteq Entry
    BY <1>5, <2>2 DEF ChildTake, Chunk, Entry
  <2>6. stdin' \in Seq(Chunk)
    BY <1>5, <2>4 DEF ChildTake
  <2> QED
    BY <1>5, <2>5, <2>6 DEF ChildTake, callVars, readerVars
<1>6. CASE ChildReply
  <2>1. PICK r \in taken : Emit([kind |-> "reply", id |-> r.id, of |-> r.to])
                           /\ answered' = answered \cup {r.to}
    BY <1>6 DEF ChildReply
  <2>2. [kind |-> "reply", id |-> r.id, of |-> r.to] \in Line
    BY DEF Line, Entry
  <2> QED
    BY <2>1, <2>2 DEF Emit, Entry, callVars, readerVars
<1>7. CASE ChildSpeaks
  <2>1. PICK line \in Line : Emit(line) /\ UNCHANGED answered
    BY <1>7 DEF ChildSpeaks, Line
  <2> QED
    BY <2>1 DEF Emit, callVars, readerVars
<1>8. CASE ChildExit
  BY <1>8 DEF ChildExit, callVars, readerVars, pipeVars
<1>9. CASE UNCHANGED vars
  BY <1>9 DEF vars, callVars, readerVars, childVars, pipeVars
<1> QED
  BY <1>1, <1>2, <1>3, <1>4, <1>5, <1>6, <1>7, <1>8, <1>9 DEF Next

\* The state always has its types: every id, line, channel and place is one the
\* code can produce, and the two pipes hold chunks and lines.
THEOREM TypeCorrect == Spec => []TypeOK
<1>1. Init => TypeOK
  BY DEF Init, TypeOK, Line, NoLine, Entry, PcValues
<1> QED
  BY <1>1, TypeStep, PTL DEF Spec

-------------------------------------------------------------------------------
\* A call changes its id only when it has none, and only to an unused one: a
\* step leaves every id that belongs to a call with that call.
LEMMA BelongsStable ==
  ASSUME TypeOK, IdsDistinct, [Next]_vars, NEW i \in Nat, NEW c \in Calls, Belongs(i, c)
  PROVE  Belongs(i, c)'
<1> USE DEF TypeOK, IdsDistinct, Belongs
<1>1. ASSUME NEW d \in Calls, NewID(d) PROVE Belongs(i, c)'
  BY <1>1 DEF NewID
<1>2. CASE myID' = myID
  BY <1>2
<1>3. myID' = myID \/ \E d \in Calls : NewID(d)
  BY DEF Next, CallStep, StartNote, Store, Lock, EnterWrite, WriteText, WriteNewline,
         Write, WriteFails, Unlock, Receive, GiveUp, Cleanup, Expire, ReaderStep, Scan,
         ScanEnds, LoadAndDelete, Send, Close, ChildTake, ChildReply, ChildSpeaks, Emit,
         ChildExit, vars, callVars
<1> QED
  BY <1>1, <1>2, <1>3

\* Ids stay distinct: only NewID hands one out, and it is above all others.
LEMMA DistinctStep == TypeOK /\ IdsDistinct /\ [Next]_vars => IdsDistinct'
<1> SUFFICES ASSUME TypeOK, IdsDistinct, [Next]_vars PROVE IdsDistinct'
  OBVIOUS
<1> USE DEF TypeOK, IdsDistinct
<1>1. ASSUME NEW c \in Calls, NewID(c) PROVE IdsDistinct'
  BY <1>1 DEF NewID, FreshID, Order, GoTo, Requests
<1>2. ASSUME NEW c \in Calls, CallStep(c), ~NewID(c) PROVE IdsDistinct'
  <2>1. myID' = myID /\ nextID' = nextID
    BY <1>2 DEF CallStep, StartNote, Store, Lock, EnterWrite, WriteText, WriteNewline,
                Write, WriteFails, Unlock, Receive, GiveUp, Cleanup
  <2>2. /\ \A d \in Requests : pc'[d] = "start" <=> pc[d] = "start"
        /\ \A d \in Notes : pc'[d] # "store"
    BY <1>2 DEF CallStep, StartNote, Store, Lock, EnterWrite, WriteText, WriteNewline,
                Write, WriteFails, Unlock, Receive, GiveUp, Cleanup, GoTo, Order,
                ReleaseFirst, AfterUnlock, Requests
  <2> QED
    BY <2>1, <2>2
<1>3. CASE UNCHANGED <<pc, myID, nextID>>
  BY <1>3
<1>4. \/ UNCHANGED <<pc, myID, nextID>>
      \/ \E c \in Calls : CallStep(c)
  BY DEF Next, Expire, ReaderStep, Scan, ScanEnds, LoadAndDelete, Send, Close, ChildTake,
         ChildReply, ChildSpeaks, Emit, ChildExit, vars, callVars
<1> QED
  BY <1>1, <1>2, <1>3, <1>4

\* What a pipe, the map, the child and the reader hold stays with its call.
LEMMA TravelStep ==
  TypeOK /\ IdsDistinct /\ IdsTravelWithCalls /\ [Next]_vars => IdsTravelWithCalls'
<1> SUFFICES ASSUME TypeOK, IdsDistinct, IdsTravelWithCalls, [Next]_vars
             PROVE  IdsTravelWithCalls'
  OBVIOUS
<1> USE DEF TypeOK, IdsTravelWithCalls
<1>1. \A e \in pending \cup taken : Belongs(e.id, e.to)'
  BY BelongsStable DEF Entry
<1>2. \A line \in Line : LineBelongs(line) => LineBelongs(line)'
  <2> SUFFICES ASSUME NEW line \in Line, LineBelongs(line) PROVE LineBelongs(line)'
    OBVIOUS
  <2>1. CASE line.kind = "reply"
    <3>1. line.id \in Nat /\ line.of \in Calls /\ Belongs(line.id, line.of)
      BY <2>1 DEF LineBelongs, Belongs, Line, Requests
    <3> QED
      BY <2>1, <3>1, BelongsStable DEF LineBelongs
  <2> QED
    BY <2>1 DEF LineBelongs
<1>3. \A chunk \in Chunk : ChunkBelongs(chunk) => ChunkBelongs(chunk)'
  BY BelongsStable DEF Chunk, ChunkBelongs
<1> DEFINE StdinOK == \A i \in 1..Len(stdin) : ChunkBelongs(stdin[i])
           StdoutOK == \A i \in 1..Len(stdout) :
                          LineBelongs(stdout[i]) /\ stdout[i].kind # "none"
           RdOK == /\ LineBelongs(rdLine)
                   /\ reader \in {"lookup", "send"} => rdLine.kind \in {"reply", "request"}
                   /\ reader = "send" => Belongs(rdLine.id, rdTo)
           MapOK == \A e \in pending : Belongs(e.id, e.to)
           TakenOK == \A e \in taken : Belongs(e.id, e.to)
<1>4. UNCHANGED pending => MapOK'
  BY <1>1
<1>5. UNCHANGED taken => TakenOK'
  BY <1>1
<1>6. UNCHANGED stdin => StdinOK'
  <2> SUFFICES ASSUME UNCHANGED stdin, NEW i \in 1..Len(stdin)
               PROVE  ChunkBelongs(stdin[i])'
    OBVIOUS
  <2>1. stdin[i] \in Chunk
    OBVIOUS
  <2> QED
    BY <1>3, <2>1
<1>7. UNCHANGED stdout => StdoutOK'
  <2> SUFFICES ASSUME UNCHANGED stdout, NEW i \in 1..Len(stdout)
               PROVE  (LineBelongs(stdout[i]) /\ stdout[i].kind # "none")'
    OBVIOUS
  <2>1. stdout[i] \in Line
    OBVIOUS
  <2> QED
    BY <1>2, <2>1
<1>8. UNCHANGED readerVars => RdOK'
  <2>1. reader = "send" => rdTo \in Calls
    BY DEF Belongs, Requests
  <2>2. rdLine.id \in Nat
    BY DEF Line
  <2> QED
    BY <1>2, <2>1, <2>2, BelongsStable DEF readerVars
<1> HIDE DEF StdinOK, StdoutOK, RdOK, MapOK, TakenOK
<1>9. SUFFICES MapOK' /\ StdinOK' /\ TakenOK' /\ StdoutOK' /\ RdOK'
  BY DEF StdinOK, StdoutOK, RdOK, MapOK, TakenOK
<1>10. ASSUME NEW c \in Calls, CallStep(c) \/ Expire(c)
       PROVE  MapOK' /\ StdinOK' /\ TakenOK' /\ StdoutOK' /\ RdOK'
  <2>1. UNCHANGED <<taken, stdout, readerVars>>
    BY <1>10 DEF CallStep, StartNote, NewID, Store, Lock, EnterWrite, WriteText,
       WriteNewline, Write, WriteFails, Unlock, Receive, GiveUp, Cleanup, Expire,
       childVars, pipeVars
  <2>2. MapOK'
    <3>1. CASE Store(c)
      <4>1. c \in Requests /\ myID[c] # 0
        BY <3>1 DEF Store, IdsDistinct, Requests
      <4> QED
        BY <3>1, <4>1, <1>1 DEF MapOK, Store, Belongs
    <3>2. CASE Cleanup(c)
      BY <3>2, <1>1 DEF MapOK, Cleanup, Without
    <3>3. CASE UNCHANGED pending
      BY <3>3, <1>4
    <3> QED
      BY <1>10, <3>1, <3>2, <3>3 DEF CallStep, StartNote, NewID, Lock, EnterWrite,
         WriteText, WriteNewline, Write, WriteFails, Unlock, Receive, GiveUp, Expire
  <2>3. StdinOK'
    <3>1. ASSUME NEW part \in {"text", "newline"}, Write(c, part, part) PROVE StdinOK'
      <4> DEFINE chunk == [part |-> part, id |-> myID[c], of |-> c]
      <4>1. pc[c] # "start" /\ myID[c] \in Nat
        BY <3>1 DEF Write
      <4>2. c \in Requests => Belongs(myID[c], c)
        BY <4>1 DEF IdsDistinct, Belongs
      <4>3. chunk.id = myID[c] /\ chunk.of = c
        OBVIOUS
      <4>4. chunk \in Chunk
        BY <4>1 DEF Chunk
      <4>5. stdin' = Append(stdin, chunk)
        BY <3>1 DEF Write
      <4> HIDE DEF chunk
      <4>6. ChunkBelongs(chunk)
        BY <4>2, <4>3 DEF ChunkBelongs
      <4>7. \A i \in 1..Len(stdin') :
               stdin'[i] = chunk \/ (i \in 1..Len(stdin) /\ stdin'[i] = stdin[i])
        BY <4>4, <4>5
      <4>8. \A i \in 1..Len(stdin) : stdin[i] \in Chunk /\ ChunkBelongs(stdin[i])
        OBVIOUS
      <4>9. \A i \in 1..Len(stdin') : stdin'[i] \in Chunk /\ ChunkBelongs(stdin'[i])
        <5> TAKE i \in 1..Len(stdin')
        <5>1. CASE stdin'[i] = chunk
          BY <5>1, <4>4, <4>6, Zenon
        <5>2. CASE i \in 1..Len(stdin) /\ stdin'[i] = stdin[i]
          BY <5>2, <4>8
        <5> QED
          BY <5>1, <5>2, <4>7
      <4> QED
        BY <4>9, <1>3 DEF StdinOK
    <3>2. CASE UNCHANGED stdin
      BY <3>2, <1>6
    <3> QED
      BY <1>10, <3>1, <3>2 DEF CallStep, StartNote, NewID, Store, Lock, EnterWrite,
         WriteText, WriteNewline, WriteFails, Unlock, Receive, GiveUp, Cleanup, Expire,
         pipeVars
  <2> QED
    BY <2>1, <2>2, <2>3, <1>5, <1>7, <1>8
<1>11. CASE ReaderStep
  <2>1. UNCHANGED <<taken, stdin>>
    BY <1>11 DEF ReaderStep, Scan, ScanEnds, LoadAndDelete, Send, childVars, pipeVars
  <2>2. MapOK'
    BY <1>11, <1>1 DEF MapOK, ReaderStep, Scan, ScanEnds, LoadAndDelete, Send, Without
  <2>3. StdoutOK' /\ RdOK'
    <3>1. CASE Scan
      <4>1. Len(stdout) >= 1
        BY <3>1 DEF Scan
      <4>2. Head(stdout) \in Line
        BY <4>1, PipeTypes
      <4>3. Head(stdout) = stdout[1] /\ 1 \in 1..Len(stdout)
        BY <4>1
      <4>4. LineBelongs(Head(stdout)) /\ Head(stdout).kind \notin {"none", "broken"}
        BY <3>1, <4>3 DEF Scan
      <4>5. \A i \in 1..Len(stdout') : i + 1 \in 1..Len(stdout) /\ stdout'[i] = stdout[i + 1]
        BY <3>1, <4>1 DEF Scan
      <4>6. \A i \in 1..Len(stdout') :
               stdout'[i] \in Line /\ LineBelongs(stdout'[i]) /\ stdout'[i].kind # "none"
        BY <4>5
      <4>7. StdoutOK'
        BY <4>6, <1>2 DEF StdoutOK
      <4>8. RdOK'
        BY <3>1, <4>2, <4>4, <1>2, <1>8 DEF Scan, RdOK, Line, readerVars
      <4> QED
        BY <4>7, <4>8
    <3>2. CASE ScanEnds
      BY <3>2, <1>7, <1>2 DEF ScanEnds, pipeVars, RdOK
    <3>3. CASE LoadAndDelete
      <4>1. LineBelongs(rdLine)'
        BY <3>3, <1>2 DEF LoadAndDelete
      <4>2. reader' = "send" => Belongs(rdLine.id, rdTo)'
        BY <3>3, <1>1 DEF LoadAndDelete
      <4> QED
        BY <3>3, <4>1, <4>2, <1>7 DEF LoadAndDelete, pipeVars, RdOK
    <3>4. CASE Send
      BY <3>4, <1>7, <1>2 DEF Send, pipeVars, RdOK
    <3> QED
      BY <1>11, <3>1, <3>2, <3>3, <3>4 DEF ReaderStep
  <2> QED
    BY <2>1, <2>2, <2>3, <1>5, <1>6
<1>12. CASE ChildTake
  <2>1. Len(stdin) >= 2 /\ UNCHANGED <<pending, stdout, readerVars>>
    BY <1>12 DEF ChildTake
  <2>2. stdin[1] \in Chunk /\ ChunkBelongs(stdin[1])
    BY <2>1
  <2>3. TakenOK'
    <3>1. stdin[1].of \in Requests => Belongs(stdin[1].id, stdin[1].of)
      BY <2>2 DEF ChunkBelongs
    <3>2. stdin[1].of \in Requests =>
            stdin[1].of \in Requests /\ stdin[1].id # 0 /\ myID'[stdin[1].of] = stdin[1].id
      BY <1>12, <3>1 DEF ChildTake, Belongs, callVars
    <3> QED
      BY <1>12, <1>1, <2>2, <3>2 DEF TakenOK, ChildTake, Chunk, Requests, Belongs
  <2>4. \A i \in 1..Len(stdin') : i + 2 \in 1..Len(stdin) /\ stdin'[i] = stdin[i + 2]
    <3>1. stdin \in Seq(Chunk) /\ stdin' = Tail(Tail(stdin))
      BY <1>12 DEF ChildTake
    <3> QED
      BY <2>1, <3>1, PipeShift
  <2>5. \A i \in 1..Len(stdin') : stdin'[i] \in Chunk /\ ChunkBelongs(stdin'[i])
    BY <2>4
  <2>6. StdinOK'
    BY <2>5, <1>3 DEF StdinOK
  <2> QED
    BY <2>1, <2>3, <2>6, <1>4, <1>7, <1>8
<1>13. ASSUME NEW line \in Line, LineBelongs(line), line.kind # "none", Emit(line)
       PROVE  MapOK' /\ StdinOK' /\ TakenOK' /\ StdoutOK' /\ RdOK'
  <2>1. UNCHANGED <<pending, taken, stdin, readerVars>>
    BY <1>13 DEF Emit
  <2>2. \A i \in 1..Len(stdout') :
           stdout'[i] = line \/ (i \in 1..Len(stdout) /\ stdout'[i] = stdout[i])
    BY <1>13 DEF Emit
  <2>3. \A i \in 1..Len(stdout) : stdout[i] \in Line
    OBVIOUS
  <2>4. StdoutOK'
    BY <1>13, <2>2, <2>3, <1>2 DEF StdoutOK
  <2> QED
    BY <2>1, <2>4, <1>4, <1>5, <1>6, <1>8
<1>14. CASE ChildReply \/ ChildSpeaks
  <2>1. CASE ChildReply
    <3>1. PICK r \in taken : Emit([kind |-> "reply", id |-> r.id, of |-> r.to])
      BY <2>1 DEF ChildReply
    <3>2. [kind |-> "reply", id |-> r.id, of |-> r.to] \in Line
      BY DEF Line, Entry
    <3>3. LineBelongs([kind |-> "reply", id |-> r.id, of |-> r.to])
      BY DEF LineBelongs
    <3> QED
      BY <3>1, <3>2, <3>3, <1>13
  <2>2. CASE ChildSpeaks
    <3>1. PICK line \in Line : LineBelongs(line) /\ line.kind # "none" /\ Emit(line)
      BY <2>2 DEF ChildSpeaks, Line, LineBelongs
    <3> QED
      BY <3>1, <1>13
  <2> QED
    BY <1>14, <2>1, <2>2
<1>15. CASE Close \/ ChildExit \/ UNCHANGED vars
  BY <1>15, <1>4, <1>5, <1>6, <1>7, <1>8
     DEF Close, ChildExit, vars, pipeVars, childVars
<1> QED
  BY <1>10, <1>11, <1>12, <1>14, <1>15 DEF Next

\* A line that may stand in the channel of a call may stand there for good.
LEMMA OwnLineStable ==
  ASSUME TypeOK, IdsDistinct, [Next]_vars, NEW line \in Line, NEW c \in Calls,
         OwnLine(line, c)
  PROVE  OwnLine(line, c)'
<1>1. line.id \in Nat
  BY DEF Line
<1> QED
  BY <1>1, BelongsStable DEF OwnLine

\* The reader puts a message only into the channel of the call whose id it carries:
\* an id belongs to one call, so a reply there is that call's own.
LEMMA ChannelStep == RoutingInv /\ [Next]_vars => ChannelsHoldOwnLine'
<1> SUFFICES ASSUME RoutingInv, [Next]_vars PROVE ChannelsHoldOwnLine'
  OBVIOUS
<1> USE DEF RoutingInv, TypeOK
<1>1. \A line \in Line : \A c \in Calls : OwnLine(line, c) => OwnLine(line, c)'
  BY OwnLineStable
<1>2. NoLine \in Line
  BY DEF Line, NoLine
<1> DEFINE Holds(c) == /\ chan[c] # NoLine => OwnLine(chan[c], c)
                       /\ got[c] # NoLine => OwnLine(got[c], c)
                       /\ outcome[c] = "reply" => got[c] # NoLine
<1>3. \A c \in Calls : Holds(c)
  BY DEF ChannelsHoldOwnLine
<1>4. SUFFICES ASSUME NEW c \in Calls PROVE Holds(c)'
  BY DEF ChannelsHoldOwnLine
<1>5. ASSUME UNCHANGED <<chan[c], got[c]>>, outcome'[c] = "reply" => outcome[c] = "reply"
      PROVE  Holds(c)'
  BY <1>1, <1>3, <1>5
<1>6. ASSUME NEW d \in Calls, CallStep(d) PROVE Holds(c)'
  <2>1. CASE d = c /\ Receive(d)
    <3>1. got'[c] = chan[c] /\ chan[c] # NoLine /\ chan'[c] = NoLine
      BY <2>1 DEF Receive
    <3> QED
      BY <3>1, <1>1, <1>3
  <2>2. CASE ~(d = c /\ Receive(d))
    <3>1. /\ UNCHANGED <<chan[c], got[c]>>
          /\ outcome'[c] = "reply" => outcome[c] = "reply"
      BY <1>6, <2>2 DEF CallStep, StartNote, NewID, Store, Lock, EnterWrite, WriteText,
         WriteNewline, Write, WriteFails, Unlock, Receive, GiveUp, Cleanup
    <3> QED
      BY <3>1, <1>5
  <2> QED
    BY <2>1, <2>2
<1>7. CASE Send
  <2>1. UNCHANGED <<got, outcome>>
    BY <1>7 DEF Send
  <2>2. CASE rdTo = c /\ chan[c] = NoLine
    <3>1. chan'[c] = rdLine
      BY <1>7, <2>2 DEF Send
    <3>2. Belongs(rdLine.id, c) /\ rdLine.kind \in {"reply", "request"}
      BY <1>7, <2>2 DEF Send, IdsTravelWithCalls
    <3>3. OwnLine(rdLine, c)
      <4>1. CASE rdLine.kind = "reply"
        <5>1. Belongs(rdLine.id, rdLine.of)
          BY <4>1 DEF IdsTravelWithCalls, LineBelongs
        <5>2. rdLine.of = c
          BY <5>1, <3>2 DEF Belongs, IdsDistinct, Requests
        <5> QED
          BY <4>1, <5>2 DEF OwnLine
      <4>2. CASE rdLine.kind = "request"
        BY <4>2, <3>2 DEF OwnLine, IdsTravelWithCalls, LineBelongs
      <4> QED
        BY <3>2, <4>1, <4>2
    <3> QED
      BY <2>1, <3>1, <3>3, <1>1, <1>3
  <2>3. CASE ~(rdTo = c /\ chan[c] = NoLine)
    <3>1. chan'[c] = chan[c]
      BY <1>7, <2>3 DEF Send
    <3> QED
      BY <2>1, <3>1, <1>5
  <2> QED
    BY <2>2, <2>3
<1>8. CASE UNCHANGED <<chan, got, outcome>>
  BY <1>8, <1>5
<1>9. \/ UNCHANGED <<chan, got, outcome>>
      \/ Send
      \/ \E d \in Calls : CallStep(d)
  BY DEF Next, Expire, ReaderStep, Scan, ScanEnds, LoadAndDelete, Close, ChildTake,
         ChildReply, ChildSpeaks, Emit, ChildExit, vars, callVars
<1> QED
  BY <1>6, <1>7, <1>8, <1>9

\* An id stays with the call it was given to along the whole way - map, stdin, child,
\* stdout, reader - and a channel holds only its own reply or a request of the child's
\* under that very id: the inductive invariant of the demultiplexer (server.go:105-161),
\* whatever ids the child gives to its own requests.
THEOREM RoutingInductive == Spec => []RoutingInv
<1>1. Init => RoutingInv
  <2> SUFFICES ASSUME Init PROVE RoutingInv
    OBVIOUS
  <2>1. TypeOK
    BY DEF Init, TypeOK, Line, NoLine, Entry, PcValues
  <2>2. IdsDistinct /\ IdsTravelWithCalls /\ ChannelsHoldOwnLine
    BY DEF Init, IdsDistinct, IdsTravelWithCalls, LineBelongs, ChannelsHoldOwnLine,
           NoLine, Requests
  <2> QED
    BY <2>1, <2>2 DEF RoutingInv
<1>2. RoutingInv /\ [Next]_vars => RoutingInv'
  BY TypeStep, DistinctStep, TravelStep, ChannelStep DEF RoutingInv
<1> QED
  BY <1>1, <1>2, PTL DEF Spec

\* Ids of calls start at 1: a child whose own requests have no id a call can be given
\* leaves nothing but replies in the channels.
LEMMA OwnLineIsReply ==
  ASSUME ServerIds \subseteq {0}, NEW line, NEW c \in Calls, OwnLine(line, c)
  PROVE  line.kind = "reply" /\ line.of = c
  BY DEF OwnLine, Belongs

\* Whatever the number of concurrent calls and however late, reordered or
\* repeated the replies, a call that returns a message returns the child's reply
\* to its own request (the demultiplexer of server.go:105-161), provided the
\* child numbers none of its own requests with an id a call can be given.
THEOREM RepliesAreRouted ==
  ASSUME ServerIds \subseteq {0}
  PROVE  Spec => []RoutedToCaller
<1>1. RoutingInv => RoutedToCaller
  BY OwnLineIsReply DEF RoutingInv, ChannelsHoldOwnLine, RoutedToCaller
<1> QED
  BY <1>1, RoutingInductive, PTL

-------------------------------------------------------------------------------
(* Ids, writers, the map and the replies.                                  *)

\* Ids stay with their calls, whatever ids the child's own requests carry.
IdsInv == TypeOK /\ IdsDistinct /\ IdsTravelWithCalls

LEMMA IdsInductive == Spec => []IdsInv
<1>1. Init => IdsInv
  <2> SUFFICES ASSUME Init PROVE IdsInv
    OBVIOUS
  <2>1. TypeOK
    BY DEF Init, TypeOK, Line, NoLine, Entry, PcValues
  <2>2. IdsDistinct /\ IdsTravelWithCalls
    BY DEF Init, IdsDistinct, IdsTravelWithCalls, LineBelongs, NoLine, Requests
  <2> QED
    BY <2>1, <2>2 DEF IdsInv
<1>2. IdsInv /\ [Next]_vars => IdsInv'
  BY TypeStep, DistinctStep, TravelStep DEF IdsInv
<1> QED
  BY <1>1, <1>2, PTL DEF Spec

-------------------------------------------------------------------------------
\* A call is between Lock and Unlock exactly while writeMu is its own.
MutexInv ==
  \A c \in Calls : pc[c] \in {"text", "newline", "unlock", "failed"} <=> writeMu = c

\* The pipe to the child holds texts, each followed by its own newline, but for the
\* last: its writer is about to write the newline, or the pipe is dead.
LastChunk == stdin[Len(stdin)]
Dead == ~(childUp /\ stdinOpen)
StdinInv ==
  /\ \A i \in 1..Len(stdin) : stdin[i].part = "newline" => i > 1 /\ stdin[i-1].part = "text"
  /\ \A i \in 1..Len(stdin) - 1 :
       stdin[i].part = "text" => stdin[i+1] = [stdin[i] EXCEPT !.part = "newline"]
  /\ \A c \in Calls : pc[c] = "newline" =>
       Len(stdin) > 0 /\ LastChunk = [part |-> "text", id |-> myID[c], of |-> c]
  /\ Len(stdin) > 0 /\ LastChunk.part = "text" =>
       \/ pc[LastChunk.of] = "newline"
       \/ pc[LastChunk.of] \in {"failed", "cleanup", "done"} /\ Dead

LEMMA MutexStep == TypeOK /\ MutexInv /\ [Next]_vars => MutexInv'
<1> SUFFICES ASSUME TypeOK, MutexInv, [Next]_vars PROVE MutexInv'
  OBVIOUS
<1> USE DEF TypeOK, MutexInv
<1>1. ASSUME NEW c \in Calls, Lock(c) PROVE MutexInv'
  BY <1>1 DEF Lock, EnterWrite, GoTo, Order
<1>2. ASSUME NEW c \in Calls, Unlock(c) PROVE MutexInv'
  BY <1>2 DEF Unlock, GoTo, AfterUnlock, Order
<1>3. ASSUME NEW c \in Calls, CallStep(c), ~Lock(c), ~Unlock(c) PROVE MutexInv'
  BY <1>3 DEF CallStep, StartNote, NewID, Store, WriteText, WriteNewline, Write, WriteFails,
              ReleaseFirst, Receive, GiveUp, Cleanup, GoTo, Order
<1>4. CASE UNCHANGED <<pc, writeMu>>
  BY <1>4
<1>5. \/ UNCHANGED <<pc, writeMu>>
      \/ \E c \in Calls : CallStep(c)
  BY DEF Next, Expire, ReaderStep, Scan, ScanEnds, LoadAndDelete, Send, Close, ChildTake,
         ChildReply, ChildSpeaks, Emit, ChildExit, vars, callVars
<1> QED
  BY <1>1, <1>2, <1>3, <1>4, <1>5

\* A write at the end of the pipe continues what is there.
LEMMA StdinAppended ==
  ASSUME TypeOK, StdinInv, NEW c \in Calls, NEW part \in {"text", "newline"},
         stdin' = Append(stdin, [part |-> part, id |-> myID[c], of |-> c]),
         IF part = "newline" THEN pc[c] = "newline"
                             ELSE Len(stdin) > 0 => LastChunk.part # "text"
  PROVE  /\ \A i \in 1..Len(stdin') :
              stdin'[i].part = "newline" => i > 1 /\ stdin'[i-1].part = "text"
         /\ \A i \in 1..Len(stdin') - 1 :
              stdin'[i].part = "text" => stdin'[i+1] = [stdin'[i] EXCEPT !.part = "newline"]
         /\ Len(stdin') > 0 /\ stdin'[Len(stdin')] = [part |-> part, id |-> myID[c], of |-> c]
<1> DEFINE chunk == [part |-> part, id |-> myID[c], of |-> c]
           n == Len(stdin)
<1>1. chunk \in Chunk /\ stdin \in Seq(Chunk) /\ chunk.part = part
  BY DEF TypeOK, Chunk
<1>2. stdin' = Append(stdin, chunk)
  OBVIOUS
<1>3. part = "newline" => n > 0 /\ stdin[n] = [part |-> "text", id |-> myID[c], of |-> c]
  BY DEF StdinInv, LastChunk
<1>4. part = "newline" => n > 0 /\ stdin[n].part = "text"
                          /\ chunk = [stdin[n] EXCEPT !.part = "newline"]
  BY <1>3
<1>5. part = "text" /\ n > 0 => stdin[n].part # "text"
  BY DEF LastChunk
<1> HIDE DEF chunk
<1>6. Len(stdin') = n + 1 /\ stdin'[n + 1] = chunk /\ \A i \in 1..n : stdin'[i] = stdin[i]
  BY <1>1, <1>2
<1>7. n \in Nat
  BY <1>1
<1>8. \A i \in 1..Len(stdin') :
        stdin'[i].part = "newline" => i > 1 /\ stdin'[i-1].part = "text"
  <2> TAKE i \in 1..Len(stdin')
  <2>1. CASE i = n + 1
    BY <2>1, <1>1, <1>4, <1>6, <1>7
  <2>2. CASE i \in 1..n
    <3>1. stdin[i].part = "newline" => i > 1 /\ stdin[i-1].part = "text"
      BY <2>2 DEF StdinInv
    <3> QED
      BY <2>2, <3>1, <1>6, <1>7
  <2> QED
    BY <2>1, <2>2, <1>6, <1>7
<1>9. \A i \in 1..Len(stdin') - 1 :
        stdin'[i].part = "text" => stdin'[i+1] = [stdin'[i] EXCEPT !.part = "newline"]
  <2> TAKE i \in 1..Len(stdin') - 1
  <2>1. CASE i = n
    <3>1. stdin'[i] = stdin[n] /\ stdin'[i+1] = chunk
      BY <2>1, <1>6, <1>7
    <3> QED
      BY <3>1, <2>1, <1>4, <1>5, <1>6, <1>7
  <2>2. CASE i \in 1..n - 1
    <3>1. stdin[i].part = "text" => stdin[i+1] = [stdin[i] EXCEPT !.part = "newline"]
      BY <2>2 DEF StdinInv
    <3>2. stdin'[i] = stdin[i] /\ stdin'[i+1] = stdin[i+1]
      BY <2>2, <1>6, <1>7
    <3> QED
      BY <3>1, <3>2
  <2> QED
    BY <2>1, <2>2, <1>6, <1>7
<1> QED
  BY <1>6, <1>7, <1>8, <1>9 DEF chunk

\* The child reads a text and its newline: what is left is still in order.
LEMMA StdinTaken ==
  ASSUME TypeOK, StdinInv, ChildTake
  PROVE  StdinInv'
<1> DEFINE n == Len(stdin)
<1>1. stdin \in Seq(Chunk) /\ n \in Nat /\ n >= 2 /\ stdin' = Tail(Tail(stdin))
  BY DEF TypeOK, ChildTake
<1>2. Len(stdin') = n - 2 /\ \A i \in 1..n - 2 : stdin'[i] = stdin[i + 2]
  <2>1. /\ Tail(stdin) \in Seq(Chunk) /\ Len(Tail(stdin)) = n - 1
        /\ \A i \in 1..n - 1 : Tail(stdin)[i] = stdin[i + 1]
    BY <1>1
  <2> DEFINE rest == Tail(stdin)
  <2>2. Len(Tail(rest)) = n - 2 /\ \A i \in 1..n - 2 : Tail(rest)[i] = rest[i + 1]
    <3> HIDE DEF rest
    <3> QED
      BY <1>1, <2>1, SMTT(60) DEF rest
  <2>3. \A i \in 1..n - 2 : rest[i + 1] = stdin[(i + 1) + 1]
    BY <1>1, <2>1
  <2> QED
    BY <1>1, <2>2, <2>3
<1>3. stdin[1].part = "text" /\ stdin[2].part = "newline"
  <2>1. stdin[1] \in Chunk
    BY <1>1
  <2>2. stdin[1].part = "text"
    BY <2>1, <1>1 DEF StdinInv, Chunk
  <2>3. stdin[1 + 1] = [stdin[1] EXCEPT !.part = "newline"]
    <3>1. 1 \in 1..Len(stdin) - 1
      BY <1>1
    <3> QED
      BY <3>1, <2>2 DEF StdinInv
  <2> QED
    BY <2>1, <2>2, <2>3 DEF Chunk
<1>4. \A i \in 1..Len(stdin') :
        stdin'[i].part = "newline" => i > 1 /\ stdin'[i-1].part = "text"
  <2> SUFFICES ASSUME NEW i \in 1..n - 2, stdin[i + 2].part = "newline"
               PROVE  i > 1 /\ stdin'[i-1].part = "text"
    BY <1>1, <1>2
  <2>1. stdin[i + 1].part = "text"
    <3>1. i + 2 \in 1..Len(stdin) /\ (i + 2) - 1 = i + 1
      BY <1>1
    <3>2. stdin[(i + 2) - 1].part = "text"
      BY <3>1 DEF StdinInv
    <3> QED
      BY <3>1, <3>2
  <2>2. i # 1
    BY <2>1, <1>3
  <2> QED
    BY <2>1, <2>2, <1>1, <1>2
<1>5. \A i \in 1..Len(stdin') - 1 :
        stdin'[i].part = "text" => stdin'[i+1] = [stdin'[i] EXCEPT !.part = "newline"]
  <2> TAKE i \in 1..Len(stdin') - 1
  <2>1. i + 2 \in 1..n - 1 /\ stdin'[i] = stdin[i + 2] /\ stdin'[i+1] = stdin[(i + 2) + 1]
    BY <1>1, <1>2
  <2>2. stdin[i+2].part = "text" => stdin[(i+2)+1] = [stdin[i+2] EXCEPT !.part = "newline"]
    BY <2>1 DEF StdinInv
  <2> QED
    BY <2>1, <2>2
<1>6. n > 2 => LastChunk' = LastChunk
  BY <1>1, <1>2 DEF LastChunk
<1>7. UNCHANGED <<pc, myID, childUp, stdinOpen>> /\ childUp
  BY DEF ChildTake, callVars
<1>8. ASSUME NEW c \in Calls, pc[c] = "newline"
      PROVE  Len(stdin') > 0 /\ LastChunk' = [part |-> "text", id |-> myID'[c], of |-> c]
  <2>1. n > 0 /\ LastChunk = [part |-> "text", id |-> myID[c], of |-> c]
    BY <1>8 DEF StdinInv
  <2>2. n # 2
    <3>1. n = 2 => LastChunk = stdin[2]
      BY DEF LastChunk
    <3>2. LastChunk.part = "text"
      BY <2>1
    <3> HIDE DEF n
    <3> QED
      BY <1>3, <3>1, <3>2
  <2>3. n > 2
    <3>1. n \in Nat /\ n >= 2
      BY <1>1
    <3> HIDE DEF n
    <3>2. n = 2 \/ n > 2
      BY <3>1
    <3> QED
      BY <2>2, <3>2
  <2>4. Len(stdin') > 0
    <3>1. Len(stdin') = n - 2 /\ n \in Nat
      BY <1>1, <1>2
    <3> QED
      BY <2>3, <3>1
  <2> QED
    BY <2>1, <2>3, <2>4, <1>6, <1>7
<1>9. Len(stdin') > 0 /\ LastChunk'.part = "text" =>
        \/ pc'[LastChunk'.of] = "newline"
        \/ pc'[LastChunk'.of] \in {"failed", "cleanup", "done"} /\ Dead'
  BY <1>1, <1>2, <1>6, <1>7 DEF StdinInv, Dead
<1> QED
  BY <1>4, <1>5, <1>7, <1>8, <1>9 DEF StdinInv

\* Nobody else writes between a text and its newline.
LEMMA StdinStep == TypeOK /\ MutexInv /\ StdinInv /\ [Next]_vars => StdinInv'
<1> SUFFICES ASSUME TypeOK, MutexInv, StdinInv, [Next]_vars PROVE StdinInv'
  OBVIOUS
<1> USE DEF TypeOK
<1>1. ASSUME NEW c \in Calls, WriteText(c) PROVE StdinInv'
  <2>1. Len(stdin) > 0 => LastChunk.part # "text"
    <3> SUFFICES ASSUME Len(stdin) > 0, LastChunk.part = "text" PROVE FALSE
      OBVIOUS
    <3>1. LastChunk \in Chunk
      BY DEF LastChunk
    <3>2. pc[LastChunk.of] = "newline"
      BY <1>1 DEF StdinInv, WriteText, Write, Dead
    <3>3. writeMu = c /\ writeMu = LastChunk.of
      BY <1>1, <3>1, <3>2 DEF MutexInv, WriteText, Write, Chunk
    <3> QED
      BY <3>2, <3>3, <1>1 DEF WriteText, Write
  <2>2. stdin' = Append(stdin, [part |-> "text", id |-> myID[c], of |-> c])
    BY <1>1 DEF WriteText, Write
  <2> DEFINE chunk == [part |-> "text", id |-> myID[c], of |-> c]
  <2>3. /\ \A i \in 1..Len(stdin') :
              stdin'[i].part = "newline" => i > 1 /\ stdin'[i-1].part = "text"
        /\ \A i \in 1..Len(stdin') - 1 :
              stdin'[i].part = "text" => stdin'[i+1] = [stdin'[i] EXCEPT !.part = "newline"]
        /\ Len(stdin') > 0 /\ LastChunk' = chunk
    BY <2>1, <2>2, StdinAppended DEF LastChunk
  <2>4. chunk.part = "text" /\ chunk.of = c
    OBVIOUS
  <2>5. pc' = [pc EXCEPT ![c] = "newline"] /\ myID' = myID
    BY <1>1 DEF WriteText, Write, GoTo, Order
  <2>6. \A d \in Calls : pc'[d] = "newline" => d = c
    BY <1>1, <2>5 DEF MutexInv, WriteText, Write
  <2>7. \A d \in Calls : pc'[d] = "newline" =>
          Len(stdin') > 0 /\ LastChunk' = [part |-> "text", id |-> myID'[d], of |-> d]
    BY <2>3, <2>5, <2>6
  <2>8. pc'[LastChunk'.of] = "newline"
    BY <2>3, <2>4, <2>5
  <2> QED
    BY <2>3, <2>7, <2>8 DEF StdinInv
<1>2. ASSUME NEW c \in Calls, WriteNewline(c) PROVE StdinInv'
  <2>1. stdin' = Append(stdin, [part |-> "newline", id |-> myID[c], of |-> c])
        /\ pc[c] = "newline"
    BY <1>2 DEF WriteNewline, Write
  <2> DEFINE chunk == [part |-> "newline", id |-> myID[c], of |-> c]
  <2>2. /\ \A i \in 1..Len(stdin') :
              stdin'[i].part = "newline" => i > 1 /\ stdin'[i-1].part = "text"
        /\ \A i \in 1..Len(stdin') - 1 :
              stdin'[i].part = "text" => stdin'[i+1] = [stdin'[i] EXCEPT !.part = "newline"]
        /\ Len(stdin') > 0 /\ LastChunk' = chunk
    BY <2>1, StdinAppended DEF LastChunk
  <2>3. chunk.part # "text"
    OBVIOUS
  <2>4. \A d \in Calls : pc'[d] # "newline"
    BY <1>2 DEF MutexInv, WriteNewline, Write, GoTo, Order
  <2> QED
    BY <2>2, <2>3, <2>4 DEF StdinInv
<1>3. ASSUME NEW c \in Calls, WriteFails(c) PROVE StdinInv'
  <2>1. pc' = [pc EXCEPT ![c] = "failed"] /\ UNCHANGED <<myID, stdin, childUp, stdinOpen>> /\ Dead
    BY <1>3 DEF WriteFails, ReleaseFirst, GoTo, childVars, pipeVars, Dead
  <2>2. LastChunk' = LastChunk
    BY <2>1 DEF LastChunk
  <2>3. \A d \in Calls : pc'[d] = "newline" => pc[d] = "newline"
    BY <2>1
  <2>4. \A d : pc[d] = "newline" \/ pc[d] \in {"failed", "cleanup", "done"} =>
              pc'[d] = "newline" \/ pc'[d] \in {"failed", "cleanup", "done"}
    BY <2>1
  <2> QED
    BY <2>1, <2>2, <2>3, <2>4 DEF StdinInv, Dead
<1>4. ASSUME NEW c \in Calls, CallStep(c), ~WriteText(c), ~WriteNewline(c), ~WriteFails(c)
      PROVE  StdinInv'
  <2>1. UNCHANGED <<stdin, childUp, stdinOpen>>
    BY <1>4 DEF CallStep, StartNote, NewID, Store, Lock, EnterWrite, Unlock, Receive, GiveUp,
                Cleanup, childVars, pipeVars
  <2>2. \A d \in Calls : /\ pc'[d] = "newline" => pc[d] = "newline" /\ myID'[d] = myID[d]
                         /\ pc[d] = "newline" => pc'[d] = "newline"
                         /\ pc[d] \in {"failed", "cleanup", "done"} =>
                              pc'[d] \in {"failed", "cleanup", "done"}
    BY <1>4 DEF CallStep, StartNote, NewID, Store, Lock, EnterWrite, Unlock, Receive, GiveUp,
                Cleanup, GoTo, Order, AfterUnlock
  <2>3. Len(stdin) > 0 => LastChunk \in Chunk
    BY DEF LastChunk
  <2>4. Len(stdin) > 0 => LastChunk.of \in Calls
    BY <2>3 DEF Chunk
  <2> QED
    BY <2>1, <2>2, <2>4 DEF StdinInv, Dead, LastChunk
<1>5. CASE ChildTake
  BY <1>5, StdinTaken
<1>6. CASE UNCHANGED <<pc, myID, stdin>> /\ (Dead => Dead')
  BY <1>6 DEF StdinInv, LastChunk
<1>7. \/ UNCHANGED <<pc, myID, stdin>> /\ (Dead => Dead')
      \/ ChildTake
      \/ \E c \in Calls : CallStep(c)
  BY DEF Next, Expire, ReaderStep, Scan, ScanEnds, LoadAndDelete, Send, Close, ChildReply,
         ChildSpeaks, Emit, ChildExit, vars, callVars, childVars, pipeVars, Dead
<1> QED
  BY <1>1, <1>2, <1>3, <1>4, <1>5, <1>6, <1>7

\* However many handlers write at once, and whether the child dies or is closed in
\* the middle of a message, what it finds on its stdin are whole lines (writeMu and
\* WriteRaw, server.go:137-142).
THEOREM LinesAreWhole == Spec => []LinesIntact
<1>1. Init => MutexInv /\ StdinInv
  BY DEF Init, MutexInv, StdinInv
<1>2. TypeOK /\ MutexInv /\ StdinInv /\ [Next]_vars => MutexInv' /\ StdinInv'
  BY MutexStep, StdinStep
<1>3. TypeOK /\ StdinInv => LinesIntact
  <2> SUFFICES ASSUME TypeOK, StdinInv, NEW i \in 1..Len(stdin)
               PROVE  /\ stdin[i].part = "text" =>
                           IF i = Len(stdin)
                           THEN pc[stdin[i].of] \in {"newline", "failed", "cleanup", "done"}
                           ELSE stdin[i+1] = [stdin[i] EXCEPT !.part = "newline"]
                      /\ stdin[i].part = "newline" => i > 1 /\ stdin[i-1].part = "text"
    BY DEF LinesIntact
  <2>1. Len(stdin) \in Nat
    BY DEF TypeOK
  <2>2. CASE i = Len(stdin)
    BY <2>1, <2>2 DEF StdinInv, LastChunk
  <2>3. CASE i \in 1..Len(stdin) - 1
    <3>1. stdin[i].part = "text" => stdin[i+1] = [stdin[i] EXCEPT !.part = "newline"]
      BY <2>3 DEF StdinInv
    <3> QED
      BY <2>1, <2>3, <3>1 DEF StdinInv
  <2> QED
    BY <2>1, <2>2, <2>3
<1> QED
  BY <1>1, <1>2, <1>3, TypeCorrect, PTL DEF Spec

-------------------------------------------------------------------------------
\* A call in the map has registered and not returned, and its channel is empty; so
\* is the one the reader has taken out of the map, where the call is not any more.
MapInv ==
  /\ \A e \in pending : pc[e.to] \notin {"start", "store", "done"} /\ chan[e.to] = NoLine
  /\ reader = "send" => /\ chan[rdTo] = NoLine /\ pc[rdTo] \notin {"start", "store"}
                        /\ \A e \in pending : e.to # rdTo
  /\ \A c \in Calls : pc[c] \in {"start", "store"} => chan[c] = NoLine

LEMMA MapStep == IdsInv /\ MapInv /\ [Next]_vars => MapInv'
<1> SUFFICES ASSUME IdsInv, MapInv, [Next]_vars PROVE MapInv'
  OBVIOUS
<1> USE DEF IdsInv, TypeOK
<1>1. \A e \in pending : e.to \in Requests /\ e.id # 0 /\ myID[e.to] = e.id
  BY DEF IdsTravelWithCalls, Belongs
<1>2. reader = "send" => rdTo \in Requests /\ myID[rdTo] = rdLine.id /\ rdLine.id # 0
  BY DEF IdsTravelWithCalls, Belongs
<1>3. ASSUME NEW c \in Calls, Store(c) PROVE MapInv'
  <2>1. reader = "send" => rdTo # c
    BY <1>3 DEF Store, MapInv
  <2> QED
    BY <1>3, <2>1 DEF Store, GoTo, Order, MapInv, readerVars
<1>4. ASSUME NEW c \in Calls, Cleanup(c) PROVE MapInv'
  <2>1. \A e \in pending' : e \in pending /\ e.to # c
    BY <1>4, <1>1 DEF Cleanup, Without
  <2> QED
    BY <1>4, <2>1 DEF Cleanup, GoTo, MapInv, readerVars
<1>5. ASSUME NEW c \in Calls, Receive(c) PROVE MapInv'
  BY <1>5 DEF Receive, GoTo, MapInv, readerVars
<1>6. ASSUME NEW c \in Calls, Unlock(c) PROVE MapInv'
  <2>1. \A e \in pending : e.to = c => pc'[c] # "done"
    BY <1>6, <1>1 DEF Unlock, GoTo, AfterUnlock, Order, Requests
  <2> QED
    BY <1>6, <2>1 DEF Unlock, GoTo, AfterUnlock, Order, MapInv, readerVars
<1>7. ASSUME NEW c \in Calls, CallStep(c), ~Store(c), ~Cleanup(c), ~Receive(c), ~Unlock(c)
      PROVE  MapInv'
  <2>1. UNCHANGED <<pending, chan, reader, rdTo>>
    BY <1>7 DEF CallStep, StartNote, NewID, Lock, EnterWrite, WriteText, WriteNewline, Write,
                WriteFails, GiveUp, readerVars
  <2>2. \A d \in Calls : /\ pc[d] \notin {"start", "store", "done"} =>
                              pc'[d] \notin {"start", "store", "done"}
                         /\ pc[d] \notin {"start", "store"} => pc'[d] \notin {"start", "store"}
                         /\ pc'[d] \in {"start", "store"} => pc[d] \in {"start", "store"}
    BY <1>7 DEF CallStep, StartNote, NewID, Lock, EnterWrite, WriteText, WriteNewline, Write,
                WriteFails, ReleaseFirst, GiveUp, GoTo, Order
  <2>3. \A e \in pending : e.to \in Calls
    BY DEF Entry
  <2>4. reader = "send" => rdTo \in Calls
    BY <1>2 DEF Requests
  <2> QED
    BY <2>1, <2>2, <2>3, <2>4 DEF MapInv
<1>8. CASE LoadAndDelete
  <2>1. ASSUME NEW e \in pending, e.id = rdLine.id, pending' = Without(rdLine.id),
               rdTo' = e.to, reader' = "send"
        PROVE  MapInv'
    <3>1. \A f \in pending' : f \in pending /\ f.to # e.to
      BY <1>1, <2>1 DEF Without
    <3>2. UNCHANGED <<pc, chan>>
      BY <1>8 DEF LoadAndDelete, callVars
    <3> QED
      BY <2>1, <3>1, <3>2 DEF MapInv
  <2>2. CASE UNCHANGED pending /\ reader' = "scan"
    BY <1>8, <2>2 DEF LoadAndDelete, MapInv, callVars
  <2> QED
    BY <1>8, <2>1, <2>2 DEF LoadAndDelete
<1>9. CASE Send
  <2>1. rdTo \in Calls
    BY <1>9, <1>2 DEF Send, Requests
  <2> QED
    BY <1>9, <2>1 DEF Send, MapInv
<1>10. CASE UNCHANGED <<pc, pending, chan>> /\ reader # "send" /\ reader' # "send"
  BY <1>10 DEF MapInv
<1>11. CASE UNCHANGED <<pc, pending, chan, reader, rdTo>>
  BY <1>11 DEF MapInv
<1>12. \/ \E c \in Calls : CallStep(c)
       \/ LoadAndDelete \/ Send
       \/ UNCHANGED <<pc, pending, chan>> /\ reader # "send" /\ reader' # "send"
       \/ UNCHANGED <<pc, pending, chan, reader, rdTo>>
  BY DEF Next, Expire, ReaderStep, Scan, ScanEnds, Close, ChildTake, ChildReply, ChildSpeaks,
         Emit, ChildExit, vars, callVars, readerVars
<1> QED
  BY <1>3, <1>4, <1>5, <1>6, <1>7, <1>8, <1>9, <1>10, <1>11, <1>12

LEMMA MapInductive == Spec => []MapInv
<1>1. Init => MapInv
  BY DEF Init, MapInv
<1> QED
  BY <1>1, MapStep, IdsInductive, PTL DEF Spec

\* Nothing leaks: the map holds only calls that wait for their reply, each under
\* one id and each id for one call, on every path through Call (server.go:126-161).
THEOREM MapHoldsLiveCalls == Spec => []EntriesAreLive
<1>1. IdsInv /\ MapInv => EntriesAreLive
  <2> SUFFICES ASSUME IdsInv, MapInv PROVE EntriesAreLive
    OBVIOUS
  <2>1. \A e \in pending : e.to \in Requests /\ e.id # 0 /\ myID[e.to] = e.id
    BY DEF IdsInv, IdsTravelWithCalls, Belongs
  <2>2. \A e, f \in pending : e.id = f.id => e = f
    <3> SUFFICES ASSUME NEW e \in pending, NEW f \in pending, e.id = f.id PROVE e = f
      OBVIOUS
    <3>1. e.to = f.to
      BY <2>1 DEF IdsInv, IdsDistinct, Requests
    <3>2. e \in Entry /\ f \in Entry
      BY DEF IdsInv, TypeOK
    <3> QED
      BY <3>1, <3>2 DEF Entry
  <2> QED
    BY <2>1, <2>2 DEF EntriesAreLive, MapInv
<1> QED
  BY <1>1, IdsInductive, MapInductive, PTL

\* The reader never finds the channel full, so the default branch of its send is
\* never taken, and its goroutine never blocks (server.go:118-123).
THEOREM ReaderFindsRoom == Spec => []SendFindsRoom
<1>1. MapInv => SendFindsRoom
  BY DEF MapInv, SendFindsRoom
<1> QED
  BY <1>1, MapInductive, PTL

-------------------------------------------------------------------------------
\* Whatever the child reads, or the gateway has of its replies, is of a call that
\* has registered; and whose reply there is has been answered.
Begun(c) == pc[c] \notin {"start", "store"}
ReplyKnown(line) == line.kind = "reply" => Begun(line.of) /\ line.of \in answered

HeardInv ==
  /\ \A i \in 1..Len(stdin) : Begun(stdin[i].of)
  /\ \A e \in taken : Begun(e.to)
  /\ \A i \in 1..Len(stdout) : ReplyKnown(stdout[i])
  /\ ReplyKnown(rdLine)
  /\ \A c \in Calls : ReplyKnown(chan[c])

LEMMA BegunStable ==
  ASSUME TypeOK, [Next]_vars
  PROVE  /\ \A c \in Calls : Begun(c) => Begun(c)'
         /\ answered \subseteq answered'
<1> USE DEF TypeOK, Begun
<1>1. ASSUME NEW d \in Calls, CallStep(d) PROVE \A c \in Calls : Begun(c) => Begun(c)'
  BY <1>1 DEF CallStep, StartNote, NewID, Store, Lock, EnterWrite, WriteText, WriteNewline,
     Write, WriteFails, ReleaseFirst, Unlock, AfterUnlock, Receive, GiveUp, Cleanup, GoTo, Order
<1>2. UNCHANGED pc \/ \E d \in Calls : CallStep(d)
  BY DEF Next, Expire, ReaderStep, Scan, ScanEnds, LoadAndDelete, Send, Close, ChildTake,
         ChildReply, ChildSpeaks, Emit, ChildExit, vars, callVars
<1>3. answered \subseteq answered'
  BY DEF Next, CallStep, StartNote, NewID, Store, Lock, EnterWrite, WriteText, WriteNewline,
     Write, WriteFails, Unlock, Receive, GiveUp, Cleanup, Expire, ReaderStep, Scan, ScanEnds,
     LoadAndDelete, Send, Close, ChildTake, ChildReply, ChildSpeaks, ChildExit, vars, childVars
<1> QED
  BY <1>1, <1>2, <1>3

LEMMA HeardStep == IdsInv /\ HeardInv /\ [Next]_vars => HeardInv'
<1> SUFFICES ASSUME IdsInv, HeardInv, [Next]_vars PROVE HeardInv'
  OBVIOUS
<1> USE DEF IdsInv, TypeOK
<1>1. \A c \in Calls : Begun(c) => Begun(c)'
  BY BegunStable
<1>2. \A line \in Line : ReplyKnown(line) /\ LineBelongs(line) => ReplyKnown(line)'
  <2> SUFFICES ASSUME NEW line \in Line, ReplyKnown(line), LineBelongs(line), line.kind = "reply"
               PROVE  Begun(line.of)' /\ line.of \in answered'
    BY DEF ReplyKnown
  <2>1. line.of \in Calls
    BY DEF LineBelongs, Belongs, Requests
  <2> QED
    BY <2>1, BegunStable DEF ReplyKnown
<1> DEFINE StdinOK == \A i \in 1..Len(stdin) : Begun(stdin[i].of)
           TakenOK == \A e \in taken : Begun(e.to)
           StdoutOK == \A i \in 1..Len(stdout) : ReplyKnown(stdout[i])
           RdOK == ReplyKnown(rdLine)
           ChanOK == \A c \in Calls : ReplyKnown(chan[c])
<1>3. UNCHANGED stdin => StdinOK'
  <2> SUFFICES ASSUME UNCHANGED stdin, NEW i \in 1..Len(stdin) PROVE Begun(stdin[i].of)'
    OBVIOUS
  <2>1. stdin[i] \in Chunk
    OBVIOUS
  <2>2. stdin[i].of \in Calls /\ Begun(stdin[i].of)
    BY <2>1 DEF Chunk, HeardInv
  <2> QED
    BY <1>1, <2>2
<1>4. UNCHANGED taken => TakenOK'
  BY <1>1 DEF HeardInv, Entry
<1>5. \A i \in 1..Len(stdout) : stdout[i] \in Line /\ LineBelongs(stdout[i]) /\ ReplyKnown(stdout[i])
  BY DEF IdsTravelWithCalls, HeardInv
<1>6. UNCHANGED stdout => StdoutOK'
  BY <1>2, <1>5
<1>7. UNCHANGED rdLine => RdOK'
  BY <1>2 DEF IdsTravelWithCalls, HeardInv
<1>8. \A c \in Calls : ReplyKnown(chan[c])'
                     \/ (chan'[c] # chan[c] /\ chan'[c] # NoLine)
  <2> SUFFICES ASSUME NEW c \in Calls, chan'[c] = chan[c] \/ chan'[c] = NoLine
               PROVE  ReplyKnown(chan[c])'
    OBVIOUS
  <2>1. CASE chan'[c] = NoLine
    BY <2>1 DEF ReplyKnown, NoLine
  <2>2. CASE chan'[c] = chan[c]
    <3>1. ReplyKnown(chan[c]) /\ chan[c] \in Line
      BY DEF HeardInv
    <3>2. chan[c].kind = "reply" => chan[c].of \in Calls
      BY <3>1, BegunStable DEF ReplyKnown
    <3> QED
      BY <2>2, <3>1, <3>2, BegunStable DEF ReplyKnown
  <2> QED
    BY <2>1, <2>2
<1>9. UNCHANGED chan => ChanOK'
  BY <1>8
<1> HIDE DEF StdinOK, TakenOK, StdoutOK, RdOK, ChanOK
<1>10. SUFFICES StdinOK' /\ TakenOK' /\ StdoutOK' /\ RdOK' /\ ChanOK'
  BY DEF StdinOK, TakenOK, StdoutOK, RdOK, ChanOK, HeardInv
<1>11. ASSUME NEW c \in Calls, NEW part \in {"text", "newline"}, Write(c, part, part)
       PROVE  StdinOK' /\ UNCHANGED <<taken, stdout, rdLine, chan>>
  <2>1. Begun(c)
    BY <1>11 DEF Write, Begun
  <2> DEFINE chunk == [part |-> part, id |-> myID[c], of |-> c]
  <2>2. chunk \in Chunk /\ stdin \in Seq(Chunk) /\ chunk.of = c
    BY DEF Chunk
  <2>3. stdin' = Append(stdin, chunk)
    BY <1>11 DEF Write
  <2> HIDE DEF chunk
  <2>4. \A i \in 1..Len(stdin') :
          stdin'[i] = chunk \/ (i \in 1..Len(stdin) /\ stdin'[i] = stdin[i])
    <3>1. /\ Len(stdin') = Len(stdin) + 1 /\ stdin'[Len(stdin) + 1] = chunk /\ Len(stdin) \in Nat
          /\ \A i \in 1..Len(stdin) : stdin'[i] = stdin[i]
      BY <2>2, <2>3
    <3> QED
      BY <3>1
  <2>5. \A i \in 1..Len(stdin) : stdin[i].of \in Calls /\ Begun(stdin[i].of)
    <3> TAKE i \in 1..Len(stdin)
    <3>1. stdin[i] \in Chunk
      BY <2>2
    <3> QED
      BY <3>1 DEF Chunk, HeardInv
  <2>6. \A i \in 1..Len(stdin') : stdin'[i].of \in Calls /\ Begun(stdin'[i].of)
    <3> TAKE i \in 1..Len(stdin')
    <3>1. CASE stdin'[i] = chunk
      BY <3>1, <2>1, <2>2
    <3>2. CASE i \in 1..Len(stdin) /\ stdin'[i] = stdin[i]
      BY <3>2, <2>5
    <3> QED
      BY <3>1, <3>2, <2>4
  <2> QED
    BY <1>11, <2>6, <1>1 DEF StdinOK, Write, readerVars, childVars
<1>12. CASE Scan
  <2>1. Len(stdout) >= 1
    BY <1>12 DEF Scan
  <2>2. Head(stdout) = stdout[1] /\ 1 \in 1..Len(stdout)
    BY <2>1
  <2>3. Head(stdout) \in Line /\ LineBelongs(Head(stdout)) /\ ReplyKnown(Head(stdout))
    BY <2>2, <1>5
  <2>4. RdOK'
    <3>1. rdLine' = Head(stdout) \/ UNCHANGED rdLine
      BY <1>12 DEF Scan, readerVars
    <3> QED
      BY <3>1, <2>3, <1>2, <1>7 DEF RdOK
  <2>5. \A i \in 1..Len(stdout') : i + 1 \in 1..Len(stdout) /\ stdout'[i] = stdout[i + 1]
    BY <1>12, <2>1 DEF Scan
  <2>6. StdoutOK'
    BY <2>5, <1>2, <1>5 DEF StdoutOK
  <2> QED
    BY <1>12, <2>4, <2>6, <1>3, <1>4, <1>9 DEF Scan, callVars, childVars
<1>13. CASE Send
  <2>1. ChanOK'
    <3>1. rdLine \in Line /\ LineBelongs(rdLine) /\ ReplyKnown(rdLine)
      BY DEF IdsTravelWithCalls, HeardInv
    <3>2. \A c \in Calls : chan'[c] = chan[c] \/ chan'[c] = rdLine
      BY <1>13 DEF Send
    <3>3. \A c \in Calls : chan'[c] = rdLine => ReplyKnown(chan[c])'
      BY <3>1, <1>2
    <3> QED
      BY <3>2, <3>3, <1>8 DEF ChanOK
  <2> QED
    BY <1>13, <2>1, <1>3, <1>4, <1>6, <1>7 DEF Send, childVars, pipeVars
<1>14. CASE ChildTake
  <2>1. Len(stdin) >= 2
    BY <1>14 DEF ChildTake
  <2>2. \A i \in 1..Len(stdin) : stdin[i].of \in Calls /\ Begun(stdin[i].of)
    <3> TAKE i \in 1..Len(stdin)
    <3>1. stdin[i] \in Chunk
      OBVIOUS
    <3> QED
      BY <3>1 DEF Chunk, HeardInv
  <2>3. \A i \in 1..Len(stdin') : i + 2 \in 1..Len(stdin) /\ stdin'[i] = stdin[i + 2]
    BY <1>14, <2>1 DEF ChildTake
  <2>4. StdinOK'
    BY <2>2, <2>3, <1>1 DEF StdinOK
  <2>5. \A e \in taken' : e \in taken \/ e.to = stdin[1].of
    BY <1>14 DEF ChildTake
  <2>6. \A e \in taken' : e.to \in Calls /\ Begun(e.to)
    <3>1. stdin[1].of \in Calls /\ Begun(stdin[1].of)
      BY <2>1, <2>2
    <3>2. \A e \in taken : e.to \in Calls /\ Begun(e.to)
      BY DEF HeardInv, Entry
    <3> QED
      BY <2>5, <3>1, <3>2
  <2>7. TakenOK'
    BY <2>6, <1>1 DEF TakenOK
  <2> QED
    BY <1>14, <2>4, <2>7, <1>6, <1>7, <1>9 DEF ChildTake, callVars, readerVars
<1>15. ASSUME NEW line \in Line, ReplyKnown(line)', Emit(line)
       PROVE  StdinOK' /\ TakenOK' /\ StdoutOK' /\ RdOK' /\ ChanOK'
  <2>1. \A i \in 1..Len(stdout') :
          stdout'[i] = line \/ (i \in 1..Len(stdout) /\ stdout'[i] = stdout[i])
    BY <1>15 DEF Emit
  <2>2. StdoutOK'
    BY <1>15, <2>1, <1>2, <1>5 DEF StdoutOK
  <2> QED
    BY <1>15, <2>2, <1>3, <1>4, <1>7, <1>9 DEF Emit, callVars, readerVars
<1>16. CASE ChildReply
  <2>1. PICK r \in taken : /\ Emit([kind |-> "reply", id |-> r.id, of |-> r.to])
                           /\ answered' = answered \cup {r.to}
    BY <1>16 DEF ChildReply
  <2>2. [kind |-> "reply", id |-> r.id, of |-> r.to] \in Line
    BY DEF Line, Entry
  <2>3. ReplyKnown([kind |-> "reply", id |-> r.id, of |-> r.to])'
    BY <2>1, <1>1 DEF ReplyKnown, HeardInv, Entry
  <2> QED
    BY <2>1, <2>2, <2>3, <1>15
<1>17. CASE ChildSpeaks
  <2>1. PICK line \in Line : line.kind # "reply" /\ Emit(line)
    BY <1>17 DEF ChildSpeaks, Line
  <2>2. ReplyKnown(line)'
    BY <2>1 DEF ReplyKnown
  <2> QED
    BY <2>1, <2>2, <1>15
<1>18. ASSUME NEW c \in Calls, Receive(c) PROVE ChanOK'
  BY <1>18, <1>8 DEF Receive, ChanOK
<1>19. \/ Scan \/ Send \/ ChildTake \/ ChildReply \/ ChildSpeaks
       \/ \E c \in Calls : WriteText(c) \/ WriteNewline(c) \/ Receive(c)
       \/ UNCHANGED <<stdin, taken, stdout, rdLine, chan>>
  BY DEF Next, CallStep, StartNote, NewID, Store, Lock, EnterWrite, WriteFails, Unlock, GiveUp,
         Cleanup, Expire, ReaderStep, ScanEnds, LoadAndDelete, Close, ChildExit, vars,
         callVars, readerVars, childVars, pipeVars
<1>20. ASSUME NEW c \in Calls, Receive(c)
       PROVE  StdinOK' /\ TakenOK' /\ StdoutOK' /\ RdOK' /\ ChanOK'
  BY <1>20, <1>18, <1>3, <1>4, <1>6, <1>7 DEF Receive, readerVars, childVars, pipeVars
<1>21. ASSUME NEW c \in Calls, WriteText(c) \/ WriteNewline(c)
       PROVE  StdinOK' /\ TakenOK' /\ StdoutOK' /\ RdOK' /\ ChanOK'
  BY <1>21, <1>11, <1>4, <1>6, <1>7, <1>9 DEF WriteText, WriteNewline
<1> QED
  BY <1>3, <1>4, <1>6, <1>7, <1>9, <1>12, <1>13, <1>14, <1>16, <1>17, <1>19, <1>20, <1>21

LEMMA HeardInductive == Spec => []HeardInv
<1>1. Init => HeardInv
  BY DEF Init, HeardInv, ReplyKnown, NoLine
<1> QED
  BY <1>1, HeardStep, IdsInductive, PTL DEF Spec

-------------------------------------------------------------------------------
\* A request that has registered is in the map until it has a reply or returns.
EntryOf(c) == [id |-> myID[c], to |-> c]
Waits(c) == \/ pc[c] = "done" \/ EntryOf(c) \in pending
            \/ chan[c] # NoLine \/ got[c] # NoLine
            \/ reader = "send" /\ rdTo = c
PresentInv == \A c \in Requests : Begun(c) => Waits(c)

LEMMA PresentStep == IdsInv /\ PresentInv /\ [Next]_vars => PresentInv'
<1> SUFFICES ASSUME IdsInv, PresentInv, [Next]_vars, NEW c \in Requests, Begun(c)'
             PROVE  Waits(c)'
  BY DEF PresentInv
<1> USE DEF IdsInv, TypeOK
<1>1. c \in Calls
  BY DEF Requests
<1>2. CASE Store(c)
  BY <1>1, <1>2 DEF Store, Waits, EntryOf
<1>3. Begun(c) \/ Store(c)
  <2> SUFFICES ASSUME ~Begun(c), ~Store(c) PROVE FALSE
    BY Zenon
  <2>1. pc[c] \in {"start", "store"} /\ pc'[c] \notin {"start", "store"}
    BY DEF Begun
  <2>2. pc' # pc
    BY <2>1
  <2>3. \E d \in Calls : CallStep(d)
    BY <2>2 DEF Next, Expire, ReaderStep, Scan, ScanEnds, LoadAndDelete, Send, Close, ChildTake,
           ChildReply, ChildSpeaks, Emit, ChildExit, vars, callVars
  <2>4. ASSUME NEW d \in Calls, CallStep(d), d # c PROVE pc'[c] = pc[c]
    BY <2>4, <1>1 DEF CallStep, StartNote, NewID, Store, Lock, EnterWrite, WriteText,
       WriteNewline, Write, WriteFails, Unlock, Receive, GiveUp, Cleanup, GoTo
  <2>5. CASE CallStep(c)
    BY <2>1, <2>5, <1>1 DEF CallStep, StartNote, NewID, Store, Lock, EnterWrite, WriteText,
       WriteNewline, Write, WriteFails, Unlock, Receive, GiveUp, Cleanup, GoTo, Order, Requests
  <2> QED
    BY <2>1, <2>3, <2>4, <2>5
<1> SUFFICES ASSUME Begun(c) PROVE Waits(c)'
  BY <1>2, <1>3
<1>4. Waits(c)
  BY DEF PresentInv
<1>5. myID[c] # 0 /\ myID'[c] = myID[c]
  <2>1. Belongs(myID[c], c)
    BY <1>1 DEF Belongs, Begun, IdsDistinct
  <2>2. \A i \in Nat : Belongs(i, c) => Belongs(i, c)'
    BY <1>1, BelongsStable
  <2> QED
    BY <2>1, <2>2, <1>1 DEF Belongs
<1>6. EntryOf(c)' = EntryOf(c)
  BY <1>5 DEF EntryOf
<1>7. \A d \in Calls : d # c => myID[d] # myID[c]
  BY <1>1, <1>5 DEF IdsDistinct
<1>8. ASSUME NEW d \in Calls, CallStep(d) PROVE Waits(c)'
  <2>1. UNCHANGED readerVars
    BY <1>8 DEF CallStep, StartNote, NewID, Store, Lock, EnterWrite, WriteText, WriteNewline,
       Write, WriteFails, Unlock, Receive, GiveUp, Cleanup
  <2>2. CASE Cleanup(d)
    <3>1. CASE d = c
      BY <2>2, <3>1, <1>1 DEF Cleanup, GoTo, Waits
    <3>2. CASE d # c
      <4>1. EntryOf(c) \in pending => EntryOf(c) \in pending'
        BY <2>2, <3>2, <1>7 DEF Cleanup, Without, EntryOf
      <4>2. pc'[c] = pc[c] /\ UNCHANGED <<chan, got>>
        BY <2>2, <3>2, <1>1 DEF Cleanup, GoTo
      <4> QED
        BY <4>1, <4>2, <2>1, <1>4, <1>6 DEF Waits, readerVars
    <3> QED
      BY <3>1, <3>2
  <2>3. CASE Receive(d)
    <3>1. UNCHANGED pending /\ (pc[c] = "done" => pc'[c] = "done")
      BY <2>3, <1>1 DEF Receive, GoTo
    <3>2. chan[c] # NoLine \/ got[c] # NoLine => chan'[c] # NoLine \/ got'[c] # NoLine
      BY <2>3, <1>1 DEF Receive
    <3> QED
      BY <3>1, <3>2, <2>1, <1>4, <1>6 DEF Waits, readerVars
  <2>4. CASE ~Cleanup(d) /\ ~Receive(d)
    <3>1. pending \subseteq pending' /\ UNCHANGED <<chan, got>>
      BY <1>8, <2>4 DEF CallStep, StartNote, NewID, Store, Lock, EnterWrite, WriteText,
         WriteNewline, Write, WriteFails, Unlock, GiveUp
    <3>2. pc[c] = "done" => pc'[c] = "done"
      BY <1>8, <2>4, <1>1 DEF CallStep, StartNote, NewID, Store, Lock, EnterWrite, WriteText,
         WriteNewline, Write, WriteFails, Unlock, GiveUp, GoTo
    <3> QED
      BY <3>1, <3>2, <2>1, <1>4, <1>6 DEF Waits, readerVars
  <2> QED
    BY <2>2, <2>3, <2>4
<1>9. CASE LoadAndDelete
  <2>1. UNCHANGED <<pc, chan, got>> /\ reader # "send"
    BY <1>9 DEF LoadAndDelete, callVars
  <2>2. EntryOf(c) \in pending =>
          EntryOf(c) \in pending' \/ (reader' = "send" /\ rdTo' = c)
    <3>1. ASSUME NEW e \in pending, e.id = rdLine.id, pending' = Without(rdLine.id),
                 rdTo' = e.to, reader' = "send", EntryOf(c) \in pending
          PROVE  EntryOf(c) \in pending' \/ (reader' = "send" /\ rdTo' = c)
      <4>1. CASE e.id = myID[c]
        <5>1. e.to \in Calls /\ myID[e.to] = e.id
          BY <3>1 DEF IdsTravelWithCalls, Belongs, Requests
        <5> QED
          BY <3>1, <4>1, <5>1, <1>7
      <4>2. CASE e.id # myID[c]
        BY <3>1, <4>2 DEF EntryOf, Without
      <4> QED
        BY <4>1, <4>2
    <3> QED
      BY <1>9, <3>1 DEF LoadAndDelete
  <2> QED
    BY <2>1, <2>2, <1>4, <1>6 DEF Waits
<1>10. CASE Send
  <2>1. rdLine # NoLine
    BY <1>10 DEF Send, IdsTravelWithCalls, NoLine
  <2>2. chan[c] # NoLine \/ rdTo = c => chan'[c] # NoLine
    BY <1>10, <2>1, <1>1 DEF Send
  <2> QED
    BY <1>10, <2>2, <1>4, <1>6 DEF Send, Waits
<1>11. CASE UNCHANGED <<pc, pending, chan, got>> /\ (reader = "send" => UNCHANGED <<reader, rdTo>>)
  BY <1>11, <1>4, <1>6 DEF Waits
<1>12. \/ \E d \in Calls : CallStep(d)
       \/ LoadAndDelete \/ Send
       \/ UNCHANGED <<pc, pending, chan, got>> /\ (reader = "send" => UNCHANGED <<reader, rdTo>>)
  BY DEF Next, Expire, ReaderStep, Scan, ScanEnds, Close, ChildTake, ChildReply, ChildSpeaks,
         Emit, ChildExit, vars, callVars, readerVars
<1> QED
  BY <1>8, <1>9, <1>10, <1>11, <1>12

\* A reply that the lookup throws away is a second one, or late: its call has
\* returned or has a reply already (server.go:117-119, 129-131, 143-145).
THEOREM NoReplyIsLost == Spec => NoReplyLost
<1>1. Init => PresentInv
  BY DEF Init, PresentInv, Begun, Requests
<1>2. Spec => []PresentInv
  BY <1>1, PresentStep, IdsInductive, PTL DEF Spec
<1> DEFINE Lost == (reader = "lookup" /\ reader' = "scan" /\ rdLine.kind = "reply") =>
                     \/ pc[rdLine.of] = "done"
                     \/ chan[rdLine.of] # NoLine
                     \/ got[rdLine.of] # NoLine
<1>3. IdsInv /\ HeardInv /\ PresentInv /\ [Next]_vars => [Lost]_vars
  <2> SUFFICES ASSUME IdsInv, HeardInv, PresentInv, Next,
                      reader = "lookup", reader' = "scan", rdLine.kind = "reply"
               PROVE  \/ pc[rdLine.of] = "done" \/ chan[rdLine.of] # NoLine
                      \/ got[rdLine.of] # NoLine
    BY DEF vars, readerVars
  <2>1. LoadAndDelete
    BY DEF Next, CallStep, StartNote, NewID, Store, Lock, EnterWrite, WriteText, WriteNewline,
       Write, WriteFails, Unlock, Receive, GiveUp, Cleanup, Expire, ReaderStep, Scan, ScanEnds,
       Send, Close, ChildTake, ChildReply, ChildSpeaks, Emit, ChildExit, readerVars
  <2>2. \A e \in pending : e.id # rdLine.id
    BY <2>1 DEF LoadAndDelete
  <2>3. rdLine.of \in Requests /\ myID[rdLine.of] = rdLine.id
    BY DEF IdsInv, IdsTravelWithCalls, LineBelongs, Belongs
  <2>4. EntryOf(rdLine.of) \notin pending
    BY <2>2, <2>3 DEF EntryOf
  <2>5. Begun(rdLine.of)
    BY DEF HeardInv, ReplyKnown
  <2> QED
    BY <2>3, <2>4, <2>5 DEF PresentInv, Waits
<1> QED
  BY <1>2, <1>3, IdsInductive, HeardInductive, PTL DEF Spec, NoReplyLost

-------------------------------------------------------------------------------
\* A call returns once: it has no outcome before its cleanup.
OpenInv == \A c \in Calls : pc[c] \notin {"cleanup", "done"} => outcome[c] = "none"

LEMMA OpenStep == TypeOK /\ OpenInv /\ [Next]_vars => OpenInv'
<1> SUFFICES ASSUME TypeOK, OpenInv, [Next]_vars PROVE OpenInv'
  OBVIOUS
<1> USE DEF TypeOK, OpenInv
<1>1. ASSUME NEW c \in Calls, CallStep(c) PROVE OpenInv'
  <2>1. CASE Unlock(c)
    <3>1. pc[c] = "failed" \/ c \in Notes => pc'[c] \in {"cleanup", "done"}
      BY <2>1 DEF Unlock, GoTo, AfterUnlock
    <3>2. ~(pc[c] = "failed" \/ c \in Notes) => outcome' = outcome
      BY <2>1 DEF Unlock
    <3>3. \A d \in Calls : d # c => pc'[d] = pc[d] /\ outcome'[d] = outcome[d]
      BY <2>1 DEF Unlock, GoTo
    <3>4. pc[c] \in {"unlock", "failed"}
      BY <2>1 DEF Unlock
    <3> QED
      BY <3>1, <3>2, <3>3, <3>4
  <2>2. CASE ~Unlock(c)
    BY <1>1, <2>2 DEF CallStep, StartNote, NewID, Store, Lock, EnterWrite, WriteText,
       WriteNewline, Write, WriteFails, ReleaseFirst, Receive, GiveUp, Cleanup, GoTo, Order
  <2> QED
    BY <2>1, <2>2
<1>2. UNCHANGED <<pc, outcome>> \/ \E c \in Calls : CallStep(c)
  BY DEF Next, Expire, ReaderStep, Scan, ScanEnds, LoadAndDelete, Send, Close, ChildTake,
         ChildReply, ChildSpeaks, Emit, ChildExit, vars, callVars
<1> QED
  BY <1>1, <1>2

\* What the steps of the backend do to the state of RemoteCall.
LEMMA PromiseStep ==
  ASSUME ServerIds \subseteq {0}, RoutingInv, OpenInv, HeardInv, [Next]_vars
  PROVE  [Promise!Next]_(Promise!vars)
<1> USE DEF RoutingInv, TypeOK
<1> DEFINE asked == {e.to : e \in taken}
           reply == [c \in Calls |-> got[c].of]
<1>1. ASSUME NEW c \in Calls, Receive(c) PROVE Promise!Return(c)
  <2>1. chan[c].kind = "reply" /\ chan[c].of = c
    BY <1>1, OwnLineIsReply DEF Receive, ChannelsHoldOwnLine
  <2>2. c \in answered /\ outcome[c] = "none"
    BY <1>1, <2>1 DEF Receive, HeardInv, ReplyKnown, OpenInv
  <2>3. reply' = [reply EXCEPT ![c] = c]
    BY <1>1, <2>1 DEF Receive
  <2> QED
    BY <1>1, <2>2, <2>3 DEF Receive, Promise!Return, childVars
<1>2. ASSUME NEW c \in Calls, GiveUp(c) PROVE Promise!ReturnNothing(c)
  BY <1>2 DEF GiveUp, OpenInv, Promise!ReturnNothing, childVars
<1>3. ASSUME NEW c \in Calls, Unlock(c)
      PROVE  Promise!ReturnNothing(c) \/ UNCHANGED (Promise!vars)
  <2>1. UNCHANGED <<taken, answered, got>> /\ outcome[c] = "none"
    BY <1>3 DEF Unlock, OpenInv, childVars
  <2>2. CASE pc[c] = "failed"
    <3>1. outcome' = [outcome EXCEPT ![c] = "error"]
      BY <1>3, <2>2 DEF Unlock
    <3> QED
      BY <2>1, <3>1 DEF Promise!ReturnNothing
  <2>3. CASE pc[c] # "failed" /\ c \in Notes
    <3>1. outcome' = [outcome EXCEPT ![c] = "sent"]
      BY <1>3, <2>3 DEF Unlock
    <3> QED
      BY <2>1, <3>1 DEF Promise!ReturnNothing
  <2>4. CASE pc[c] # "failed" /\ c \notin Notes
    <3>1. outcome' = outcome
      BY <1>3, <2>4 DEF Unlock
    <3> QED
      BY <2>1, <3>1 DEF Promise!vars
  <2> QED
    BY <2>2, <2>3, <2>4
<1>4. CASE ChildTake
  <2>1. UNCHANGED <<answered, outcome, got>>
    BY <1>4 DEF ChildTake, callVars
  <2>2. CASE taken' = taken
    BY <2>1, <2>2 DEF Promise!vars
  <2>3. CASE taken' = taken \cup {[id |-> stdin[1].id, to |-> stdin[1].of]}
    <3>1. stdin[1].of \in Calls
      <4>1. Len(stdin) >= 2 /\ stdin \in Seq(Chunk)
        BY <1>4 DEF ChildTake
      <4>2. stdin[1] \in Chunk
        BY <4>1
      <4> QED
        BY <4>2 DEF Chunk
    <3>2. PICK c \in Calls : c = stdin[1].of
      BY <3>1
    <3>3. asked' = asked \cup {c}
      <4> DEFINE new == [id |-> stdin[1].id, to |-> stdin[1].of]
      <4>1. new.to = c /\ taken' = taken \cup {new}
        BY <2>3, <3>2
      <4> HIDE DEF new
      <4>2. \A e : e \in taken' <=> e \in taken \/ e = new
        BY <4>1
      <4> QED
        BY <4>1, <4>2
    <3>4. Promise!Ask(c)
      BY <2>1, <3>3 DEF Promise!Ask
    <3> QED
      BY <3>4 DEF Promise!Next
  <2> QED
    BY <1>4, <2>2, <2>3 DEF ChildTake
<1>5. CASE ChildReply
  <2>1. PICK r \in taken : /\ Emit([kind |-> "reply", id |-> r.id, of |-> r.to])
                           /\ answered' = answered \cup {r.to}
    BY <1>5 DEF ChildReply
  <2>2. r.to \in asked /\ r.to \in Calls
    BY DEF Entry
  <2>3. Promise!Answer(r.to)
    BY <2>1, <2>2 DEF Promise!Answer, Emit, callVars
  <2> QED
    BY <2>2, <2>3 DEF Promise!Next
<1>6. CASE UNCHANGED <<taken, answered, outcome, got>>
  BY <1>6 DEF Promise!vars
<1>7. \/ \E c \in Calls : Receive(c) \/ GiveUp(c) \/ Unlock(c)
      \/ ChildTake \/ ChildReply
      \/ UNCHANGED <<taken, answered, outcome, got>>
  BY DEF Next, CallStep, StartNote, NewID, Store, Lock, EnterWrite, WriteText, WriteNewline,
     Write, WriteFails, Cleanup, Expire, ReaderStep, Scan, ScanEnds, LoadAndDelete, Send, Close,
     ChildSpeaks, Emit, ChildExit, vars, callVars, childVars
<1> QED
  BY <1>1, <1>2, <1>3, <1>4, <1>5, <1>6, <1>7 DEF Promise!Next

\* The backend is a RemoteCall: behind all its ids, pipes, locks and goroutines, a
\* call returns once, and only with the answer to its own request, provided the child
\* numbers none of its own requests with an id a call can be given.
THEOREM BackendIsRemoteCall ==
  ASSUME ServerIds \subseteq {0}
  PROVE  Spec => IsRemoteCall
<1>1. Init => OpenInv /\ Promise!Init
  BY DEF Init, OpenInv, Promise!Init, NoLine
<1>2. Spec => []OpenInv
  BY <1>1, OpenStep, TypeCorrect, PTL DEF Spec
<1> QED
  BY <1>1, <1>2, PromiseStep, RoutingInductive, HeardInductive, PTL
     DEF Spec, IsRemoteCall, Promise!Spec
===============================================================================
