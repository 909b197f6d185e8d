--------------------------- MODULE StdioRelay_proofs ---------------------------
(***************************************************************************)
(* Proofs about StdioRelay, for any sets of messages of the client and the *)
(* child, any verdicts, pipes of any size, lines that are not JSON-RPC on  *)
(* either side, and a child that may die at any moment: what was decided,  *)
(* what is in the log and what has left agree for each message, each is    *)
(* decided and logged once and leaves as decided, and the two relays never *)
(* mix what they write to the client.                                      *)
(***************************************************************************)
EXTENDS StdioRelay, TLAPS

USE NamesAssumption, MayBreakAssumption, MayCrashAssumption, PipeCapAssumption

-------------------------------------------------------------------------------
\* What the steps on a pipe or a log do to the set of its elements.

Distinct(s) == \A i, j \in 1..Len(s) : s[i] = s[j] => i = j

LEMMA ElementsAppend ==
  ASSUME NEW S, NEW s \in Seq(S), NEW x \in S
  PROVE  /\ Elements(Append(s, x)) = Elements(s) \cup {x}
         /\ Distinct(s) /\ x \notin Elements(s) => Distinct(Append(s, x))
<1>1. /\ Len(Append(s, x)) = Len(s) + 1 /\ Append(s, x)[Len(s) + 1] = x /\ Len(s) \in Nat
      /\ \A i \in 1..Len(s) : Append(s, x)[i] = s[i]
  OBVIOUS
<1>2. Elements(Append(s, x)) = Elements(s) \cup {x}
  BY <1>1 DEF Elements
<1>3. ASSUME Distinct(s), x \notin Elements(s) PROVE Distinct(Append(s, x))
  BY <1>1, <1>3 DEF Elements, Distinct
<1> QED
  BY <1>2, <1>3

LEMMA ElementsTail ==
  ASSUME NEW S, NEW s \in Seq(S), s # << >>
  PROVE  /\ Head(s) \in S /\ Tail(s) \in Seq(S)
         /\ Elements(s) = Elements(Tail(s)) \cup {Head(s)}
         /\ Distinct(s) => Distinct(Tail(s)) /\ Head(s) \notin Elements(Tail(s))
<1>1. /\ Head(s) = s[1] /\ Len(s) \in Nat \ {0} /\ Len(Tail(s)) = Len(s) - 1
      /\ \A i \in 1..Len(s) - 1 : Tail(s)[i] = s[i + 1]
  OBVIOUS
<1>2. Head(s) \in S /\ Tail(s) \in Seq(S)
  OBVIOUS
<1>3. \A i \in 1..Len(s) : i = 1 \/ (i - 1 \in 1..Len(s) - 1 /\ s[i] = Tail(s)[i - 1])
  BY <1>1
<1>4. Elements(s) = Elements(Tail(s)) \cup {Head(s)}
  BY <1>1, <1>3, SMTT(60) DEF Elements
<1>5. Distinct(s) => Distinct(Tail(s)) /\ Head(s) \notin Elements(Tail(s))
  BY <1>1 DEF Elements, Distinct
<1> QED
  BY <1>2, <1>4, <1>5

LEMMA ElementsConcat ==
  ASSUME NEW S, NEW s \in Seq(S), NEW t \in Seq(S)
  PROVE  Elements(s \o t) = Elements(s) \cup Elements(t)
<1>1. /\ Len(s \o t) = Len(s) + Len(t) /\ Len(s) \in Nat /\ Len(t) \in Nat
      /\ \A i \in 1..Len(s) : (s \o t)[i] = s[i]
  OBVIOUS
<1>2. \A i \in 1..Len(t) : (s \o t)[Len(s) + i] = t[i] /\ Len(s) + i \in 1..Len(s \o t)
  BY <1>1
<1>3. \A i \in 1..Len(s \o t) : i \in 1..Len(s) \/ (\E j \in 1..Len(t) : i = Len(s) + j)
  <2> SUFFICES ASSUME NEW i \in 1..Len(s \o t), i \notin 1..Len(s)
               PROVE  \E j \in 1..Len(t) : i = Len(s) + j
    OBVIOUS
  <2>1. i - Len(s) \in 1..Len(t) /\ i = Len(s) + (i - Len(s))
    BY <1>1
  <2> QED
    BY <2>1
<1>4. Elements(s \o t) \subseteq Elements(s) \cup Elements(t)
  BY <1>1, <1>2, <1>3 DEF Elements
<1>5. Elements(s) \subseteq Elements(s \o t)
  BY <1>1 DEF Elements
<1>6. Elements(t) \subseteq Elements(s \o t)
  BY <1>2 DEF Elements
<1> QED
  BY <1>4, <1>5, <1>6

LEMMA ElementsOfEmpty == Elements(<< >>) = {} /\ Distinct(<< >>)
  BY DEF Elements, Distinct

-------------------------------------------------------------------------------
NamesOf(d) == IF d = "in" THEN InNames ELSE OutNames
Busy(d) == at[d] \notin {"scan", "end"}

\* What a relay has in hand comes from its own side, and where the relay is on its way
\* says what was decided: only what was not denied is forwarded, only a denied request
\* is answered.
HeldInv ==
  \A d \in Dirs :
    /\ Busy(d) => held[d] \in NamesOf(d)
    /\ at[d] = "write" => d = "in" /\ verdict[d] # "deny"
    /\ at[d] \in {"mutex", "text", "newline", "unsent", "cut"} =>
         IF d = "in" THEN Refuses(d, held[d], verdict[d]) ELSE verdict[d] # "deny"

LEMMA ChunkType ==
  ASSUME TypeOK, HeldInv, NEW d \in Dirs, Busy(d)
  PROVE  /\ held[d] \in Names /\ FormOf(held[d], verdict[d]) \in Forms
         /\ \A part \in {"text", "newline"} : ClientChunk(d, part) \in Chunk
<1>1. held[d] \in Names /\ FormOf(held[d], verdict[d]) \in Forms
  BY DEF HeldInv, NamesOf, Names, FormOf, Forms
<1> QED
  BY <1>1 DEF ClientChunk, Chunk

\* Each step of the relays, of RunStdio, of the client and of the child keeps the types.
LEMMA TypeStep == TypeOK /\ HeldInv /\ [Next]_vars => TypeOK'
<1> SUFFICES ASSUME TypeOK, HeldInv, [Next]_vars PROVE TypeOK'
  OBVIOUS
<1> USE DEF TypeOK, Dirs, Places, Ended, clientVars, childVars, relayVars, GoTo
<1>1. ASSUME NEW d \in Dirs, Scan(d) PROVE TypeOK'
  <2>1. CASE d = "in"
    <3>1. /\ stdin' = Tail(stdin) /\ UNCHANGED childOut /\ Head(stdin) # Broken
          /\ held' = [held EXCEPT !["in"] = Head(stdin)] /\ stdin # << >>
      BY <1>1, <2>1 DEF Scan, Source, Decodes
    <3>2. stdin' \in Seq(InNames \cup {Broken}) /\ Head(stdin) \in InNames
      BY <3>1, ElementsTail
    <3> QED
      BY <1>1, <3>1, <3>2 DEF Scan, FirstPlace, Names
  <2>2. CASE d = "out"
    <3>1. /\ childOut' = Tail(childOut) /\ UNCHANGED stdin /\ Head(childOut) # Broken
          /\ held' = [held EXCEPT !["out"] = Head(childOut)] /\ childOut # << >>
      BY <1>1, <2>2 DEF Scan, Source, Decodes
    <3>2. childOut' \in Seq(OutNames \cup {Broken}) /\ Head(childOut) \in OutNames
      BY <3>1, ElementsTail
    <3> QED
      BY <1>1, <3>1, <3>2 DEF Scan, FirstPlace, Names
  <2> QED
    BY <2>1, <2>2
<1>2. ASSUME NEW d \in Dirs, ScanEnds(d) PROVE TypeOK'
  BY <1>2 DEF ScanEnds, EndRelay, DeferredClose
<1>3. ASSUME NEW d \in Dirs, Busy(d) PROVE held[d] \in Names /\ FormOf(held[d], verdict[d]) \in Forms
  BY <1>3, ChunkType
<1>4. ASSUME NEW d \in Dirs, LogEvent(d) PROVE TypeOK'
  <2>1. audit' \in Seq(Event)
    BY <1>3, <1>4 DEF LogEvent, Event, Busy
  <2> QED
    BY <1>4, <2>1 DEF LogEvent, AfterLog
<1>5. ASSUME NEW d \in Dirs, LockClient(d) PROVE TypeOK'
  BY <1>5 DEF LockClient, EnterClientWrite
<1>6. ASSUME NEW d \in Dirs, Busy(d), NEW part \in {"text", "newline"}
      PROVE  Append(clientOut, ClientChunk(d, part)) \in Seq(Chunk)
  <2>1. ClientChunk(d, part) \in Chunk
    BY <1>6, ChunkType
  <2> QED
    BY <2>1
<1>7. ASSUME NEW d \in Dirs, WriteText(d) PROVE TypeOK'
  BY <1>6, <1>7 DEF WriteText, Busy
<1>8. ASSUME NEW d \in Dirs, WriteNewline(d) PROVE TypeOK'
  BY <1>6, <1>8 DEF WriteNewline, Busy, AfterNewline
<1>9. CASE Forward
  <2>1. [name |-> held["in"], form |-> FormOf(held["in"], verdict["in"])] \in Copy
    BY <1>3, <1>9 DEF Forward, Copy, Busy
  <2>2. childIn' \in Seq(Copy)
    BY <1>9, <2>1 DEF Forward
  <2> QED
    BY <1>9, <2>2 DEF Forward
<1>10. ASSUME NEW d \in Dirs, ForwardFails \/ ClientWriteFails(d) PROVE TypeOK'
  BY <1>10 DEF ForwardFails, ClientWriteFails, EndRelay, DeferredClose
<1>11. CASE WaitReturns
  BY <1>11 DEF WaitReturns
<1>12. CASE Join
  BY <1>12 DEF Join
<1>13. CASE ClientSend
  <2>1. PICK m \in InNames \cup {Broken} : sent' = Append(sent, m) /\ stdin' = Append(stdin, m)
    BY <1>13 DEF ClientSend
  <2> QED
    BY <1>13, <2>1 DEF ClientSend
<1>14. CASE ClientCloses \/ ClientEnds
  BY <1>14 DEF ClientCloses, ClientEnds
<1>15. CASE ChildTake
  BY <1>15, ElementsTail DEF ChildTake
<1>16. ASSUME NEW m \in OutNames \cup {Broken}, ChildSays(m) PROVE TypeOK'
  BY <1>16 DEF ChildSays
<1>17. CASE ChildReplies \/ ChildSpeaks
  BY <1>16, <1>17 DEF ChildReplies, ChildSpeaks, Asked, OutNames
<1>18. CASE ChildGone
  BY <1>18 DEF ChildGone
<1>19. CASE UNCHANGED vars
  BY <1>19 DEF vars
<1> QED
  BY <1>1, <1>2, <1>4, <1>5, <1>7, <1>8, <1>9, <1>10, <1>11, <1>12, <1>13, <1>14, <1>15,
     <1>17, <1>18, <1>19 DEF Next, RelayStep, ChildExits, ChildCrashes

LEMMA HeldStep == TypeOK /\ HeldInv /\ [Next]_vars => HeldInv'
<1> SUFFICES ASSUME TypeOK, HeldInv, [Next]_vars PROVE HeldInv'
  OBVIOUS
<1> USE DEF TypeOK, HeldInv, GoTo, Busy, Refuses
<1>1. ASSUME NEW d \in Dirs, Scan(d) PROVE HeldInv'
  <2>1. Head(Source(d)) \in NamesOf(d)
    BY <1>1, ElementsTail DEF Scan, Source, Decodes, NamesOf, Dirs
  <2> QED
    BY <1>1, <2>1 DEF Scan, FirstPlace
<1>2. ASSUME NEW d \in Dirs, LogEvent(d) PROVE HeldInv'
  BY <1>2 DEF LogEvent, AfterLog, Dirs
<1>3. ASSUME NEW d \in Dirs,
             LockClient(d) \/ WriteText(d) \/ WriteNewline(d) \/ ClientWriteFails(d) \/ ScanEnds(d)
      PROVE  HeldInv'
  BY <1>3 DEF LockClient, EnterClientWrite, WriteText, WriteNewline, AfterNewline, ScanEnds,
     ClientWriteFails, EndRelay
<1>4. CASE Forward \/ ForwardFails
  BY <1>4 DEF Forward, ForwardFails, ClientWriteFails, EndRelay, Dirs
<1>5. CASE UNCHANGED relayVars
  BY <1>5 DEF relayVars
<1> QED
  BY <1>1, <1>2, <1>3, <1>4, <1>5 DEF Next, RelayStep, WaitReturns, Join, ClientSend,
     ClientCloses, ClientEnds, ChildTake, ChildReplies, ChildSpeaks, ChildSays, ChildExits,
     ChildCrashes,
     ChildGone, vars

\* The types of the relays, the pipes, the log and the client's stdout hold in every
\* behaviour, whatever messages there are and whatever is decided about them.
THEOREM TypeCorrect == Spec => [](TypeOK /\ HeldInv)
<1>1. Init => TypeOK /\ HeldInv
  BY DEF Init, TypeOK, HeldInv, Busy, Dirs, Places, Ended, Actions, Names
<1> QED
  BY <1>1, TypeStep, HeldStep, PTL DEF Spec

-------------------------------------------------------------------------------
\* clientMu is held over both writes of a line, by the relay that writes it.
MutexInv ==
  \A d \in Dirs : at[d] \in {"text", "newline"} <=> clientMu = d

\* A relay that could not write has a client that is gone.
GoneInv == \A d \in Dirs : at[d] \in {"unsent", "cut"} => ~clientReads

\* A text that is not followed by anything yet is the one that is being written, or whose
\* newline could not be.
TailInv ==
  LET last == clientOut[Len(clientOut)]
  IN  clientOut # << >> =>
        IF last.part = "newline" THEN \A d \in Dirs : at[d] # "newline"
        ELSE \E d \in Dirs : at[d] \in {"newline", "cut"} /\ last = ClientChunk(d, "text")

WholeInv == MutexInv /\ GoneInv /\ TailInv /\ ClientLinesIntact

LEMMA GoneStep == TypeOK /\ GoneInv /\ [Next]_vars => GoneInv'
<1> SUFFICES ASSUME TypeOK, GoneInv, [Next]_vars PROVE GoneInv'
  OBVIOUS
<1> USE DEF TypeOK, GoneInv, GoTo, clientVars
<1>1. ASSUME NEW d \in Dirs, Scan(d) \/ LogEvent(d) \/ ScanEnds(d) PROVE GoneInv'
  BY <1>1 DEF Scan, FirstPlace, LogEvent, AfterLog, ScanEnds, EndRelay
<1>2. ASSUME NEW d \in Dirs, LockClient(d) \/ WriteText(d) \/ WriteNewline(d) PROVE GoneInv'
  BY <1>2 DEF LockClient, EnterClientWrite, WriteText, WriteNewline, AfterNewline
<1>3. CASE Forward \/ ForwardFails
  BY <1>3 DEF Forward, ForwardFails, EndRelay
<1>4. ASSUME NEW d \in Dirs, ClientWriteFails(d) PROVE GoneInv'
  BY <1>4 DEF ClientWriteFails, EndRelay
<1>5. CASE UNCHANGED at /\ (clientReads' => clientReads)
  BY <1>5
<1> QED
  BY <1>1, <1>2, <1>3, <1>4, <1>5 DEF Next, RelayStep, WaitReturns, Join, ClientSend,
     ClientCloses, ClientEnds, ChildTake, ChildReplies, ChildSpeaks, ChildSays, ChildExits,
     ChildCrashes, ChildGone, relayVars, vars

\* The steps that write nothing to the client: where there is a lock, a line or a text
\* in progress, they leave it alone.
LEMMA SilentStep ==
  ASSUME TypeOK, MutexInv, [Next]_vars,
         \A d \in Dirs : ~WriteText(d) /\ ~WriteNewline(d) /\ ~LockClient(d) /\ ~ClientWriteFails(d)
  PROVE  /\ UNCHANGED <<clientOut, clientMu>>
         /\ \A d \in Dirs :
              /\ at'[d] \in {"text", "newline"} <=> at[d] \in {"text", "newline"}
              /\ at'[d] = "newline" <=> at[d] = "newline"
              /\ at[d] = "cut" => at'[d] = "cut"
              /\ at[d] \in {"newline", "cut"} => held'[d] = held[d] /\ verdict'[d] = verdict[d]
<1> USE DEF TypeOK, GoTo, MutexInv
<1>1. CASE \E d \in Dirs : Scan(d)
  BY <1>1 DEF Scan, FirstPlace, Refuses
<1>2. CASE \E d \in Dirs : LogEvent(d)
  BY <1>2 DEF LogEvent, AfterLog
<1>3. CASE (\E d \in Dirs : ScanEnds(d)) \/ Forward \/ ForwardFails
  BY <1>3 DEF ScanEnds, EndRelay, Forward, ForwardFails, ClientWriteFails
<1>4. CASE UNCHANGED <<relayVars, clientOut, clientMu>>
  BY <1>4 DEF relayVars
<1> QED
  BY <1>1, <1>2, <1>3, <1>4 DEF Next, RelayStep, WaitReturns, Join, ClientSend, ClientCloses,
     ClientEnds,
     ChildTake, ChildReplies, ChildSpeaks, ChildSays, ChildExits, ChildCrashes, ChildGone, vars

\* A chunk at the end of whole lines leaves them whole, if it closes an open text.
LEMMA WholeAppend ==
  ASSUME NEW s \in Seq(Chunk), NEW x \in Chunk,
         \A i \in 1..Len(s) - 1 : s[i].part = "text" => s[i+1] = [s[i] EXCEPT !.part = "newline"],
         Len(s) > 0 /\ s[Len(s)].part = "text" => x = [s[Len(s)] EXCEPT !.part = "newline"],
         NEW t, t = Append(s, x)
  PROVE  \A i \in 1..Len(t) - 1 : t[i].part = "text" => t[i+1] = [t[i] EXCEPT !.part = "newline"]
<1> SUFFICES ASSUME NEW i \in 1..Len(Append(s, x)) - 1, Append(s, x)[i].part = "text"
             PROVE  Append(s, x)[i+1] = [Append(s, x)[i] EXCEPT !.part = "newline"]
  OBVIOUS
<1>1. /\ Len(Append(s, x)) = Len(s) + 1 /\ Len(s) \in Nat /\ i \in 1..Len(s)
      /\ Append(s, x)[i] = s[i] /\ Append(s, x)[Len(s) + 1] = x
  OBVIOUS
<1>2. CASE i = Len(s)
  BY <1>1, <1>2
<1>3. CASE i # Len(s)
  <2>1. i \in 1..Len(s) - 1 /\ Append(s, x)[i+1] = s[i+1]
    BY <1>1, <1>3
  <2> QED
    BY <1>1, <2>1
<1> QED
  BY <1>2, <1>3

LEMMA WholeWrite ==
  ASSUME TypeOK, ClientLinesIntact, NEW x \in Chunk, clientOut' = Append(clientOut, x),
         LET last == clientOut[Len(clientOut)]
         IN  Len(clientOut) > 0 /\ last.part = "text" => x = [last EXCEPT !.part = "newline"]
  PROVE  ClientLinesIntact'
<1>1. clientOut \in Seq(Chunk)
  BY DEF TypeOK
<1>2. \A i \in 1..Len(clientOut) - 1 :
        clientOut[i].part = "text" => clientOut[i+1] = [clientOut[i] EXCEPT !.part = "newline"]
  BY DEF ClientLinesIntact
<1>3. \A i \in 1..Len(clientOut') - 1 :
        clientOut'[i].part = "text" => clientOut'[i+1] = [clientOut'[i] EXCEPT !.part = "newline"]
  BY <1>1, <1>2, WholeAppend
<1> QED
  BY <1>3 DEF ClientLinesIntact

LEMMA WholeStep == TypeOK /\ HeldInv /\ WholeInv /\ [Next]_vars => WholeInv'
<1> SUFFICES ASSUME TypeOK, HeldInv, WholeInv, [Next]_vars PROVE WholeInv'
  OBVIOUS
<1> USE DEF WholeInv
<1>1. GoneInv'
  BY GoneStep
<1>2. ASSUME NEW d \in Dirs, LockClient(d) PROVE WholeInv'
  <2>1. /\ UNCHANGED <<clientOut, held, verdict>> /\ at' = [at EXCEPT ![d] = "text"]
        /\ clientMu = "free" /\ clientMu' = d /\ at[d] = "mutex"
    BY <1>2 DEF LockClient, EnterClientWrite, GoTo
  <2>2. MutexInv'
    BY <2>1 DEF MutexInv, Dirs, TypeOK
  <2>3. \A e \in Dirs : /\ at'[e] = "newline" <=> at[e] = "newline"
                       /\ at'[e] = "cut" <=> at[e] = "cut"
    BY <2>1 DEF TypeOK
  <2>4. TailInv'
    BY <2>1, <2>3 DEF TailInv, ClientChunk
  <2> QED
    BY <1>1, <2>1, <2>2, <2>4 DEF ClientLinesIntact
<1>3. ASSUME NEW d \in Dirs, WriteText(d) PROVE WholeInv'
  <2> DEFINE new == ClientChunk(d, "text")
  <2>1. /\ UNCHANGED <<clientMu, held, verdict>> /\ at' = [at EXCEPT ![d] = "newline"]
        /\ clientOut' = Append(clientOut, new) /\ at[d] = "text" /\ clientReads
    BY <1>3 DEF WriteText, GoTo
  <2>2. new.part = "text" /\ new' = new
    BY <2>1 DEF ClientChunk
  <2>3. MutexInv'
    BY <2>1 DEF MutexInv, TypeOK
  <2>4. \A e \in Dirs : at[e] \notin {"newline", "cut"}
    BY <2>1 DEF MutexInv, GoneInv
  <2>5. Len(clientOut) > 0 => clientOut[Len(clientOut)].part = "newline"
    BY <2>4 DEF TailInv, TypeOK
  <2>6. ClientLinesIntact'
    <3>1. new \in Chunk
      BY <2>1, ChunkType DEF Busy
    <3> HIDE DEF new
    <3> QED
      BY <2>1, <2>5, <3>1, WholeWrite
  <2> HIDE DEF new
  <2>7. TailInv'
    <3>1. clientOut'[Len(clientOut')] = new' /\ at'[d] = "newline" /\ new'.part = "text"
      BY <2>1, <2>2 DEF TypeOK
    <3> QED
      BY <3>1 DEF TailInv, new
  <2> QED
    BY <1>1, <2>3, <2>6, <2>7
<1>4. ASSUME NEW d \in Dirs, WriteNewline(d) PROVE WholeInv'
  <2> DEFINE new == ClientChunk(d, "newline")
  <2>1. /\ UNCHANGED <<held, verdict>> /\ at' = [at EXCEPT ![d] = AfterNewline(d)]
        /\ clientMu' = "free" /\ clientOut' = Append(clientOut, new) /\ at[d] = "newline"
        /\ clientReads
    BY <1>4 DEF WriteNewline, GoTo
  <2>2. new.part = "newline" /\ AfterNewline(d) \notin {"text", "newline"}
        /\ new = [ClientChunk(d, "text") EXCEPT !.part = "newline"]
    BY DEF ClientChunk, AfterNewline
  <2>3. MutexInv' /\ \A e \in Dirs : at'[e] # "newline" /\ (at[e] \in {"newline", "cut"} => e = d)
    BY <2>1, <2>2 DEF MutexInv, GoneInv, TypeOK, Dirs
  <2>4. Len(clientOut) > 0 => clientOut[Len(clientOut)] = ClientChunk(d, "text")
    BY <2>1, <2>3 DEF TailInv, TypeOK
  <2>5. ClientLinesIntact'
    <3>1. new \in Chunk
      BY <2>1, ChunkType DEF Busy
    <3> HIDE DEF new
    <3> QED
      BY <2>1, <2>2, <2>4, <3>1, WholeWrite
  <2> HIDE DEF new
  <2>6. TailInv'
    BY <2>1, <2>2, <2>3 DEF TailInv, TypeOK
  <2> QED
    BY <1>1, <2>3, <2>5, <2>6
<1>5. ASSUME \A d \in Dirs : ~WriteText(d) /\ ~WriteNewline(d) /\ ~LockClient(d)
                              /\ ~ClientWriteFails(d)
      PROVE  WholeInv'
  <2>1. MutexInv'
    BY <1>5, SilentStep DEF MutexInv
  <2>2. TailInv'
    <3>1. /\ clientOut' = clientOut
          /\ \A d \in Dirs : at'[d] = "newline" <=> at[d] = "newline"
      BY <1>5, SilentStep
    <3>2. \A d \in Dirs : at[d] \in {"newline", "cut"} =>
            /\ at'[d] \in {"newline", "cut"}
            /\ ClientChunk(d, "text")' = ClientChunk(d, "text")
      BY <1>5, SilentStep DEF ClientChunk
    <3> QED
      BY <3>1, <3>2 DEF TailInv
  <2> QED
    BY <1>5, <1>1, <2>1, <2>2, SilentStep DEF ClientLinesIntact
<1>6. ASSUME NEW d \in Dirs, ClientWriteFails(d) PROVE WholeInv'
  <2>1. PICK how \in {"unsent", "cut"} :
          /\ at' = [at EXCEPT ![d] = how] /\ at[d] = IF how = "cut" THEN "newline" ELSE "text"
          /\ clientMu' = (IF clientMu = d THEN "free" ELSE clientMu)
          /\ UNCHANGED <<clientOut, held, verdict>>
    BY <1>6 DEF ClientWriteFails, EndRelay, GoTo
  <2>2. MutexInv'
    BY <2>1 DEF MutexInv, TypeOK, Dirs
  <2>3. \A e \in Dirs : /\ at'[e] = "newline" => at[e] = "newline"
                       /\ at[e] \in {"newline", "cut"} => at'[e] \in {"newline", "cut"}
    BY <2>1 DEF TypeOK
  <2>4. TailInv'
    BY <2>1, <2>3 DEF TailInv, ClientChunk
  <2> QED
    BY <1>1, <2>1, <2>2, <2>4 DEF ClientLinesIntact
<1> QED
  BY <1>2, <1>3, <1>4, <1>5, <1>6

\* A refusal by the "in" relay and a reply by the "out" relay never mix on the client's
\* stdout: each line is written whole, whatever the two relays do meanwhile.
THEOREM ClientLinesAreWhole == Spec => []ClientLinesIntact
<1>1. Init => WholeInv
  BY DEF Init, WholeInv, GoneInv, MutexInv, TailInv, ClientLinesIntact, Dirs
<1>2. WholeInv => ClientLinesIntact
  BY DEF WholeInv
<1> QED
  BY <1>1, <1>2, WholeStep, TypeCorrect, PTL DEF Spec

-------------------------------------------------------------------------------
\* What a relay has just decided about a message, as an event and as what may leave.
EventFor(m, a) == [dir |-> m[1], name |-> m[2], action |-> a, form |-> FormOf(m[2], a)]
Allowed(m, a) ==
  IF a # "deny" THEN {FormOf(m[2], a)}
  ELSE IF Refuses(m[1], m[2], a) THEN {"refusal"} ELSE {}

LEMMA MessageParts ==
  ASSUME NEW m \in Messages
  PROVE  m[1] \in Dirs /\ m[2] \in NamesOf(m[1]) /\ m = <<m[1], m[2]>>
  BY DEF Messages, Dirs, NamesOf

-------------------------------------------------------------------------------
\* What each step adds to the events and the copies of a message.

LEMMA EventsLogged ==
  ASSUME TypeOK, HeldInv, NEW d \in Dirs, LogEvent(d), NEW m \in Messages
  PROVE  EventsOf(m)' = IF m = <<d, held[d]>> THEN EventsOf(m) \cup {EventFor(m, verdict[d])}
                        ELSE EventsOf(m)
<1> DEFINE new == [dir |-> d, name |-> held[d], action |-> verdict[d],
                   form |-> FormOf(held[d], verdict[d])]
<1>1. audit' = Append(audit, new) /\ audit \in Seq(Event)
  BY DEF LogEvent, TypeOK
<1>2. new \in Event
  BY ChunkType DEF LogEvent, Busy, Event, TypeOK
<1>3. Elements(audit') = Elements(audit) \cup {new}
  <2> HIDE DEF new
  <2> QED
    BY <1>1, <1>2, ElementsAppend
<1>4. CASE m = <<d, held[d]>>
  <2>1. new = EventFor(m, verdict[d]) /\ new.dir = m[1] /\ new.name = m[2]
    BY <1>4 DEF EventFor
  <2> HIDE DEF new
  <2> QED
    BY <1>3, <1>4, <2>1 DEF EventsOf
<1>5. CASE m # <<d, held[d]>>
  <2>1. ~(new.dir = m[1] /\ new.name = m[2])
    BY <1>5, MessageParts
  <2> HIDE DEF new
  <2> QED
    BY <1>3, <1>5, <2>1 DEF EventsOf
<1> QED
  BY <1>4, <1>5

LEMMA EventsKept ==
  ASSUME UNCHANGED audit, NEW m \in Messages
  PROVE  EventsOf(m)' = EventsOf(m)
  BY DEF EventsOf

\* The copies for the child, and the texts for the client, of one name.
ToChild == Elements(childIn \o childGot)
FormsTo(set, n) == {c.form : c \in {k \in set : k.name = n}}
TextsOf(set, n, what) == {k \in set : k.part = "text" /\ k.name = n /\ k.what = what}

LEMMA CopiesAre ==
  ASSUME NEW m \in Messages
  PROVE  /\ m[1] = "in" => Copies(m) = FormsTo(ToChild, m[2]) \cup
              {"refusal" : k \in TextsOf(Elements(clientOut), m[2], "refusal")}
         /\ m[1] = "out" => Copies(m) =
              {k.form : k \in TextsOf(Elements(clientOut), m[2], "message")}
<1>1. \A what : TextsOf(Elements(clientOut), m[2], what) =
        {t \in {k \in Elements(clientOut) : k.part = "text" /\ k.name = m[2]} : t.what = what}
  BY DEF TextsOf
<1> QED
  BY <1>1 DEF Copies, FormsTo, ToChild

LEMMA FormsGrow ==
  ASSUME NEW set, NEW x, NEW n
  PROVE  FormsTo(set \cup {x}, n) =
           IF x.name = n THEN FormsTo(set, n) \cup {x.form} ELSE FormsTo(set, n)
  BY DEF FormsTo

LEMMA CopiesConcat ==
  \A s, t \in Seq(Copy) : Elements(s \o t) = Elements(s) \cup Elements(t)
  BY ElementsConcat

LEMMA CopiesForwarded ==
  ASSUME TypeOK, HeldInv, Forward, NEW m \in Messages
  PROVE  Copies(m)' = IF m = <<"in", held["in"]>>
                      THEN Copies(m) \cup {FormOf(m[2], verdict["in"])} ELSE Copies(m)
<1> DEFINE new == [name |-> held["in"], form |-> FormOf(held["in"], verdict["in"])]
<1>1. /\ childIn' = Append(childIn, new) /\ UNCHANGED <<childGot, clientOut>>
      /\ childIn \in Seq(Copy) /\ childGot \in Seq(Copy)
  BY DEF Forward, childVars, TypeOK
<1>2. new \in Copy
  BY ChunkType DEF Forward, Busy, Copy, Dirs
<1>3. ToChild' = ToChild \cup {new}
  <2> HIDE DEF new
  <2>1. Elements(childIn') = Elements(childIn) \cup {new} /\ childIn' \in Seq(Copy)
    BY <1>1, <1>2, ElementsAppend
  <2>2. /\ Elements(childIn \o childGot) = Elements(childIn) \cup Elements(childGot)
        /\ Elements(childIn' \o childGot) = Elements(childIn') \cup Elements(childGot)
    BY <1>1, <2>1, CopiesConcat
  <2>3. childGot' = childGot
    BY <1>1
  <2> QED
    BY <2>1, <2>2, <2>3 DEF ToChild
<1>4. /\ FormsTo(ToChild', m[2]) = IF new.name = m[2] THEN FormsTo(ToChild, m[2]) \cup {new.form}
                                   ELSE FormsTo(ToChild, m[2])
  <2>1. FormsTo(ToChild \cup {new}, m[2]) =
          IF new.name = m[2] THEN FormsTo(ToChild, m[2]) \cup {new.form} ELSE FormsTo(ToChild, m[2])
    <3> HIDE DEF new
    <3> QED
      BY FormsGrow, ZenonT(60)
  <2> HIDE DEF new
  <2> QED
    BY <1>3, <2>1
<1>5. m[1] \in Dirs /\ m = <<m[1], m[2]>>
  BY MessageParts
<1>6. /\ m[1] = "in" => Copies(m)' = FormsTo(ToChild', m[2]) \cup
              {"refusal" : k \in TextsOf(Elements(clientOut), m[2], "refusal")}
      /\ m[1] = "out" => Copies(m)' = Copies(m)
  BY <1>1, CopiesAre DEF Copies, TextsOf, FormsTo, ToChild
<1>7. CASE m[1] = "out"
  BY <1>5, <1>6, <1>7
<1>8. CASE m[1] = "in"
  <2>1. new.name = m[2] <=> m = <<"in", held["in"]>>
    BY <1>5, <1>8
  <2>2. new.name = m[2] => new.form = FormOf(m[2], verdict["in"])
    OBVIOUS
  <2> HIDE DEF new
  <2> QED
    BY <1>4, <1>6, <1>8, <2>1, <2>2, CopiesAre
<1> QED
  BY <1>5, <1>7, <1>8 DEF Dirs

LEMMA CopiesTaken ==
  ASSUME TypeOK, ChildTake, NEW m \in Messages
  PROVE  /\ Copies(m)' = Copies(m)
         /\ Elements(childGot') = Elements(childGot) \cup {Head(childIn)}
         /\ Head(childIn) \in Copy
<1>1. /\ childIn' = Tail(childIn) /\ childGot' = Append(childGot, Head(childIn))
      /\ childIn # << >> /\ childIn \in Seq(Copy) /\ childGot \in Seq(Copy)
      /\ UNCHANGED clientOut
  BY DEF ChildTake, TypeOK
<1>2. /\ Head(childIn) \in Copy /\ Tail(childIn) \in Seq(Copy)
      /\ Elements(childIn) = Elements(childIn') \cup {Head(childIn)}
  BY <1>1, ElementsTail
<1>3. Elements(childGot') = Elements(childGot) \cup {Head(childIn)} /\ childGot' \in Seq(Copy)
  BY <1>1, <1>2, ElementsAppend
<1>4. ToChild' = ToChild
  <2>1. ToChild = Elements(childIn) \cup Elements(childGot)
    BY <1>1, CopiesConcat DEF ToChild
  <2>2. ToChild' = Elements(childIn') \cup Elements(childGot')
    BY <1>1, <1>2, <1>3, CopiesConcat DEF ToChild
  <2> QED
    BY <1>2, <1>3, <2>1, <2>2
<1> QED
  BY <1>1, <1>2, <1>3, <1>4 DEF Copies, ToChild

\* A chunk that goes to the client counts if it is a text.
LEMMA CopiesWritten ==
  ASSUME TypeOK, HeldInv, NEW d \in Dirs, Busy(d), NEW part \in {"text", "newline"},
         clientOut' = Append(clientOut, ClientChunk(d, part)), UNCHANGED <<childIn, childGot>>,
         NEW m \in Messages
  PROVE  Copies(m)' = IF part = "text" /\ m = <<d, held[d]>>
                      THEN Copies(m) \cup {IF d = "in" THEN "refusal" ELSE FormOf(m[2], verdict[d])}
                      ELSE Copies(m)
<1> DEFINE new == ClientChunk(d, part)
           kind == IF m[1] = "in" THEN "refusal" ELSE "message"
           Texts(set) == TextsOf(set, m[2], kind)
<1>1. new \in Chunk /\ clientOut \in Seq(Chunk)
  BY ChunkType DEF TypeOK
<1>2. Elements(clientOut') = Elements(clientOut) \cup {new}
  <2> HIDE DEF new
  <2> QED
    BY <1>1, ElementsAppend DEF new
<1>3. m[1] \in Dirs /\ m = <<m[1], m[2]>>
  BY MessageParts
<1>4. (new.part = "text" /\ new.name = m[2] /\ new.what = kind)
        <=> (part = "text" /\ m = <<d, held[d]>>)
  BY <1>3 DEF ClientChunk, Dirs
<1>5. new.form = FormOf(held[d], verdict[d])
  BY DEF ClientChunk
<1>6. Texts(Elements(clientOut')) = IF part = "text" /\ m = <<d, held[d]>>
                                    THEN Texts(Elements(clientOut)) \cup {new}
                                    ELSE Texts(Elements(clientOut))
  <2> HIDE DEF new, kind
  <2>1. \A k : k \in Elements(clientOut') <=> k \in Elements(clientOut) \/ k = new
    BY <1>2
  <2>2. CASE part = "text" /\ m = <<d, held[d]>>
    BY <1>4, <2>1, <2>2 DEF TextsOf
  <2>3. CASE ~(part = "text" /\ m = <<d, held[d]>>)
    BY <1>4, <2>1, <2>3 DEF TextsOf
  <2> QED
    BY <2>2, <2>3
<1>7. ToChild' = ToChild
  BY DEF ToChild
<1>8. CASE m[1] = "in"
  <2>1. Copies(m) = FormsTo(ToChild, m[2]) \cup {"refusal" : k \in Texts(Elements(clientOut))}
    BY <1>8, CopiesAre
  <2>2. Copies(m)' = FormsTo(ToChild, m[2]) \cup {"refusal" : k \in Texts(Elements(clientOut'))}
    BY <1>7, <1>8, CopiesAre DEF Copies, TextsOf, FormsTo, ToChild
  <2>3. m = <<d, held[d]>> => d = "in"
    BY <1>8
  <2> HIDE DEF new, Texts
  <2> QED
    BY <1>6, <2>1, <2>2, <2>3
<1>9. CASE m[1] = "out"
  <2>1. Copies(m) = {k.form : k \in Texts(Elements(clientOut))}
    BY <1>9, CopiesAre
  <2>2. Copies(m)' = {k.form : k \in Texts(Elements(clientOut'))}
    BY <1>9, CopiesAre DEF Copies, TextsOf
  <2>3. m = <<d, held[d]>> => d = "out" /\ m[2] = held[d]
    BY <1>3, <1>9
  <2> HIDE DEF new, Texts
  <2> QED
    BY <1>5, <1>6, <2>1, <2>2, <2>3
<1> QED
  BY <1>3, <1>8, <1>9 DEF Dirs

LEMMA CopiesKept ==
  ASSUME UNCHANGED <<childIn, childGot, clientOut>>, NEW m \in Messages
  PROVE  Copies(m)' = Copies(m)
  BY DEF Copies

-------------------------------------------------------------------------------
\* The lines of a side that no relay has taken yet are the last of what was said there.
Said(d) == IF d = "in" THEN sent ELSE said

PipesInv ==
  \A d \in Dirs : Distinct(Source(d)) /\ Elements(Source(d)) \subseteq Elements(Said(d))

\* A message leaves no trace before its relay has taken it from the pipe.
FreshInv ==
  \A m \in Messages :
    m[2] \in Elements(Source(m[1])) \/ m[2] \notin Elements(Said(m[1])) =>
      EventsOf(m) = {} /\ Copies(m) = {} /\ ~InHand(m)

\* While a relay has it in hand, what is logged and what has left is given by where the
\* relay is: a refusal goes out and then to the log, anything else the other way round.
Logged(m) == IF at[m[1]] = "log" \/ (m[1] = "in" /\ at["in"] # "write") THEN {}
             ELSE {EventFor(m, verdict[m[1]])}
HasLeft(m) ==
  IF at[m[1]] \in {"newline", "cut"} \/ (at[m[1]] = "log" /\ Refuses(m[1], m[2], verdict[m[1]]))
  THEN Allowed(m, verdict[m[1]]) ELSE {}

InHandInv ==
  \A m \in Messages : InHand(m) => EventsOf(m) = Logged(m) /\ Copies(m) = HasLeft(m)

\* Afterwards there is one event and what that allows, or nothing at all.
DoneInv ==
  \A m \in Messages :
    ~InHand(m) =>
      \/ EventsOf(m) = {} /\ Copies(m) = {}
      \/ \E a \in Actions : EventsOf(m) = {EventFor(m, a)} /\ Copies(m) \in {{}, Allowed(m, a)}

MessagesInv == PipesInv /\ FreshInv /\ InHandInv /\ DoneInv

\* What is taken from a pipe was said, and is not in it any more.
LEMMA PipesStep ==
  ASSUME TypeOK, PipesInv, [Next]_vars
  PROVE  /\ PipesInv'
         /\ \A d \in Dirs : Elements(Said(d)) \subseteq Elements(Said(d)')
         /\ \A d \in Dirs : Elements(Source(d)') \subseteq
              Elements(Source(d)) \cup (Elements(Said(d)') \ Elements(Said(d)))
         /\ \A d \in Dirs : Scan(d) => /\ Head(Source(d)) \in Elements(Source(d))
                                       /\ Head(Source(d)) \notin Elements(Source(d)')
<1> USE DEF Dirs, Source, Said, PipesInv, TypeOK
<1>1. ASSUME NEW d \in Dirs, Scan(d)
      PROVE  /\ UNCHANGED <<sent, said>> /\ Source(d)' = Tail(Source(d)) /\ Source(d) # << >>
             /\ \A e \in Dirs : e # d => Source(e)' = Source(e)
  BY <1>1 DEF Scan, clientVars, childVars
<1>2. ASSUME NEW d \in Dirs, Scan(d)
      PROVE  /\ Distinct(Source(d)')
             /\ Elements(Source(d)) = Elements(Source(d)') \cup {Head(Source(d))}
             /\ Head(Source(d)) \notin Elements(Source(d)')
  <2>1. ASSUME NEW S, Source(d) \in Seq(S) PROVE Elements(Source(d)) =
              Elements(Tail(Source(d))) \cup {Head(Source(d))}
           /\ Distinct(Tail(Source(d))) /\ Head(Source(d)) \notin Elements(Tail(Source(d)))
    BY <1>1, <1>2, <2>1, ElementsTail
  <2>2. Source(d) \in Seq(InNames \cup {Broken}) \/ Source(d) \in Seq(OutNames \cup {Broken})
    OBVIOUS
  <2> QED
    BY <1>1, <1>2, <2>1, <2>2
<1>3. CASE \E d \in Dirs : Scan(d)
  BY <1>1, <1>2, <1>3
<1>4. CASE ClientSend
  <2>1. PICK m \in InNames \cup {Broken} :
          m \notin Elements(sent) /\ sent' = Append(sent, m) /\ stdin' = Append(stdin, m)
    BY <1>4 DEF ClientSend
  <2>2. /\ Elements(sent') = Elements(sent) \cup {m}
        /\ Elements(stdin') = Elements(stdin) \cup {m}
        /\ Distinct(stdin) /\ m \notin Elements(stdin) => Distinct(stdin')
    BY <2>1, ElementsAppend
  <2>3. UNCHANGED <<said, childOut>> /\ \A d \in Dirs : ~Scan(d)
    BY <1>4 DEF ClientSend, childVars, Scan, clientVars
  <2> QED
    BY <2>1, <2>2, <2>3
<1>5. CASE \E m \in OutNames \cup {Broken} : ChildSays(m)
  <2>1. PICK m \in OutNames \cup {Broken} :
          m \notin Elements(said) /\ said' = Append(said, m) /\ childOut' = Append(childOut, m)
    BY <1>5 DEF ChildSays
  <2>2. /\ Elements(said') = Elements(said) \cup {m}
        /\ Elements(childOut') = Elements(childOut) \cup {m}
        /\ Distinct(childOut) /\ m \notin Elements(childOut) => Distinct(childOut')
    BY <2>1, ElementsAppend
  <2>3. UNCHANGED <<sent, stdin>> /\ \A d \in Dirs : ~Scan(d)
    BY <1>5 DEF ChildSays, childVars, Scan, clientVars
  <2> QED
    BY <2>1, <2>2, <2>3
<1>6. CASE UNCHANGED <<sent, said, stdin, childOut>>
  BY <1>6 DEF Scan
<1> QED
  BY <1>3, <1>4, <1>5, <1>6 DEF Next, RelayStep, ScanEnds, EndRelay, LogEvent, LockClient,
     EnterClientWrite, WriteText, WriteNewline, Forward, ForwardFails, ClientWriteFails,
     WaitReturns, Join,
     ClientCloses, ClientEnds, ChildTake, ChildReplies, ChildSpeaks, ChildExits, ChildCrashes,
     ChildGone,
     Asked, OutNames, vars, clientVars, childVars

\* A message that no relay has in hand stays as it is, unless it is taken from its pipe.
LEMMA Elsewhere ==
  ASSUME TypeOK, HeldInv, [Next]_vars, NEW m \in Messages, ~InHand(m)
  PROVE  /\ EventsOf(m)' = EventsOf(m) /\ Copies(m)' = Copies(m)
         /\ InHand(m)' => /\ Scan(m[1]) /\ m[2] = Head(Source(m[1]))
                          /\ at'[m[1]] = FirstPlace(m[1], m[2], verdict'[m[1]])
<1> USE DEF Busy
<1>1. m[1] \in Dirs /\ m = <<m[1], m[2]>>
  BY MessageParts
<1>2. ASSUME NEW d \in Dirs, Busy(d) PROVE m # <<d, held[d]>>
  BY <1>1, <1>2 DEF InHand
<1>3. EventsOf(m)' = EventsOf(m)
  <2>1. CASE \E d \in Dirs : LogEvent(d)
    <3>1. PICK d \in Dirs : LogEvent(d)
      BY <2>1
    <3>2. Busy(d)
      BY <3>1 DEF LogEvent
    <3> QED
      BY <1>2, <3>1, <3>2, EventsLogged
  <2>2. CASE UNCHANGED audit
    BY <2>2, EventsKept
  <2> QED
    BY <2>1, <2>2 DEF Next, RelayStep, Scan, ScanEnds, EndRelay, LockClient, EnterClientWrite,
       WriteText, WriteNewline, Forward, ForwardFails, ClientWriteFails, WaitReturns, Join,
       ClientSend,
       ClientCloses, ClientEnds, ChildTake, ChildReplies, ChildSpeaks, ChildSays, ChildExits,
       ChildCrashes,
       ChildGone, vars
<1>4. Copies(m)' = Copies(m)
  <2>1. CASE \E d \in Dirs : WriteText(d)
    <3>1. PICK d \in Dirs : WriteText(d)
      BY <2>1
    <3>2. Busy(d) /\ clientOut' = Append(clientOut, ClientChunk(d, "text"))
          /\ UNCHANGED <<childIn, childGot>>
      BY <3>1 DEF WriteText, childVars
    <3> QED
      BY <1>2, <3>2, CopiesWritten
  <2>2. CASE \E d \in Dirs : WriteNewline(d)
    <3>1. PICK d \in Dirs : WriteNewline(d)
      BY <2>2
    <3>2. Busy(d) /\ clientOut' = Append(clientOut, ClientChunk(d, "newline"))
          /\ UNCHANGED <<childIn, childGot>>
      BY <3>1 DEF WriteNewline, childVars
    <3> QED
      BY <1>2, <3>2, CopiesWritten
  <2>3. CASE Forward
    <3>1. Busy("in") /\ "in" \in Dirs
      BY <2>3 DEF Forward, Dirs
    <3> QED
      BY <1>2, <2>3, <3>1, CopiesForwarded
  <2>4. CASE ChildTake
    BY <2>4, CopiesTaken
  <2>5. CASE UNCHANGED <<childIn, childGot, clientOut>>
    BY <2>5, CopiesKept
  <2> QED
    BY <2>1, <2>2, <2>3, <2>4, <2>5 DEF Next, RelayStep, Scan, ScanEnds, EndRelay, LogEvent,
       LockClient, EnterClientWrite, ForwardFails, ClientWriteFails, WaitReturns, Join,
       ClientSend, ClientCloses, ClientEnds,
       ChildReplies, ChildSpeaks, ChildSays, ChildExits, ChildCrashes, ChildGone, vars, childVars
<1>5. ASSUME InHand(m)' PROVE /\ Scan(m[1]) /\ m[2] = Head(Source(m[1]))
                              /\ at'[m[1]] = FirstPlace(m[1], m[2], verdict'[m[1]])
  <2>1. at'[m[1]] \notin {"scan", "end"} /\ held'[m[1]] = m[2]
    BY <1>5 DEF InHand
  <2>2. ASSUME NEW d \in Dirs, Scan(d)
        PROVE  d = m[1] /\ m[2] = Head(Source(m[1]))
               /\ at'[m[1]] = FirstPlace(m[1], m[2], verdict'[m[1]])
    <3>1. PICK a \in Actions : /\ held' = [held EXCEPT ![d] = Head(Source(d))]
                               /\ verdict' = [verdict EXCEPT ![d] = a]
                               /\ at' = [at EXCEPT ![d] = FirstPlace(d, Head(Source(d)), a)]
      BY <2>2 DEF Scan, GoTo
    <3>2. d = m[1]
      BY <1>1, <2>1, <3>1 DEF InHand, TypeOK
    <3> QED
      BY <1>1, <2>1, <3>1, <3>2 DEF TypeOK
  <2>3. CASE \E d \in Dirs : Scan(d)
    BY <2>2, <2>3
  <2>4. ASSUME NEW d \in Dirs,
               ScanEnds(d) \/ LogEvent(d) \/ LockClient(d) \/ WriteText(d) \/ WriteNewline(d)
               \/ ClientWriteFails(d) \/ (d = "in" /\ (Forward \/ ForwardFails))
        PROVE  FALSE
    <3>1. held' = held /\ \A e \in Dirs : at'[e] \notin {"scan", "end"} => at[e] \notin {"scan", "end"}
      BY <2>4 DEF ScanEnds, EndRelay, LogEvent, LockClient, EnterClientWrite, WriteText,
         WriteNewline, Forward, ForwardFails, ClientWriteFails, GoTo, TypeOK
    <3> QED
      BY <1>1, <2>1, <3>1 DEF InHand
  <2>5. CASE UNCHANGED relayVars
    BY <2>1, <2>5 DEF InHand, relayVars
  <2> QED
    BY <2>3, <2>4, <2>5 DEF Next, RelayStep, WaitReturns, Join, ClientSend, ClientCloses,
       ClientEnds,
       ChildTake, ChildReplies, ChildSpeaks, ChildSays, ChildExits, ChildCrashes, ChildGone, vars
<1> QED
  BY <1>3, <1>4, <1>5

LEMMA FreshStep ==
  ASSUME TypeOK, HeldInv, PipesInv, FreshInv, [Next]_vars PROVE FreshInv'
<1> SUFFICES ASSUME NEW m \in Messages,
                    m[2] \in Elements(Source(m[1])') \/ m[2] \notin Elements(Said(m[1])')
             PROVE  EventsOf(m)' = {} /\ Copies(m)' = {} /\ ~InHand(m)'
  BY MessageParts DEF FreshInv, Source, Said
<1>1. m[1] \in Dirs
  BY MessageParts
<1>2. m[2] \in Elements(Source(m[1])) \/ m[2] \notin Elements(Said(m[1]))
  BY <1>1, PipesStep
<1>3. EventsOf(m) = {} /\ Copies(m) = {} /\ ~InHand(m)
  BY <1>2 DEF FreshInv
<1>4. ~InHand(m)'
  <2> SUFFICES ASSUME InHand(m)' PROVE FALSE
    OBVIOUS
  <2>1. Scan(m[1]) /\ m[2] = Head(Source(m[1]))
    BY <1>3, Elsewhere
  <2>2. /\ m[2] \in Elements(Source(m[1])) /\ m[2] \notin Elements(Source(m[1])')
        /\ Elements(Source(m[1])) \subseteq Elements(Said(m[1]))
        /\ Elements(Said(m[1])) \subseteq Elements(Said(m[1])')
    BY <1>1, <2>1, PipesStep DEF PipesInv
  <2> QED
    BY <2>2
<1> QED
  BY <1>3, <1>4, Elsewhere

\* A message that is not in hand is taken with nothing to its name, or stays as it is.
LEMMA AsideStep ==
  ASSUME TypeOK, HeldInv, PipesInv, FreshInv, DoneInv, [Next]_vars,
         NEW m \in Messages, ~InHand(m)
  PROVE  /\ InHand(m)' => EventsOf(m)' = Logged(m)' /\ Copies(m)' = HasLeft(m)'
         /\ ~InHand(m)' =>
              \/ EventsOf(m)' = {} /\ Copies(m)' = {}
              \/ \E a \in Actions : EventsOf(m)' = {EventFor(m, a)} /\ Copies(m)' \in {{}, Allowed(m, a)}
<1>1. EventsOf(m)' = EventsOf(m) /\ Copies(m)' = Copies(m)
  BY Elsewhere
<1>2. ASSUME InHand(m)' PROVE EventsOf(m)' = Logged(m)' /\ Copies(m)' = HasLeft(m)'
  <2>1. /\ Scan(m[1]) /\ m[2] = Head(Source(m[1]))
        /\ at'[m[1]] = FirstPlace(m[1], m[2], verdict'[m[1]])
    BY <1>2, Elsewhere
  <2>2. m[1] \in Dirs
    BY MessageParts
  <2>3. EventsOf(m) = {} /\ Copies(m) = {}
    BY <2>1, <2>2, PipesStep DEF FreshInv
  <2>4. Logged(m)' = {} /\ HasLeft(m)' = {}
    BY <2>1, <2>2 DEF Logged, HasLeft, FirstPlace, Refuses, Dirs
  <2> QED
    BY <1>1, <2>3, <2>4
<1> QED
  BY <1>1, <1>2 DEF DoneInv

\* The steps of the relay that has a message in hand.
LEMMA InHandStep ==
  ASSUME TypeOK, HeldInv, InHandInv, [Next]_vars, NEW m \in Messages, InHand(m)
  PROVE  /\ InHand(m)' => EventsOf(m)' = Logged(m)' /\ Copies(m)' = HasLeft(m)'
         /\ ~InHand(m)' =>
              \E a \in Actions : EventsOf(m)' = {EventFor(m, a)} /\ Copies(m)' \in {{}, Allowed(m, a)}
<1> DEFINE d == m[1]
           a == verdict[m[1]]
<1>1. /\ d \in Dirs /\ m[2] = held[d] /\ m = <<d, held[d]>> /\ Busy(d) /\ a \in Actions
      /\ at[d] \in {"log", "mutex", "text", "newline", "write", "unsent", "cut"}
  BY MessageParts DEF InHand, Busy, TypeOK, Places, Ended
<1>2. EventsOf(m) = Logged(m) /\ Copies(m) = HasLeft(m)
  BY DEF InHandInv
<1>3. /\ at[d] = "write" => d = "in" /\ a # "deny"
      /\ at[d] \in {"mutex", "text", "newline", "unsent", "cut"} =>
           IF d = "in" THEN Refuses(d, m[2], a) ELSE a # "deny"
  BY <1>1 DEF HeldInv
<1>4. CASE LogEvent(d)
  <2>1. /\ EventsOf(m)' = {EventFor(m, a)} /\ Copies(m)' = Copies(m)
        /\ UNCHANGED <<held, verdict>> /\ at' = [at EXCEPT ![d] = AfterLog(d)] /\ at[d] = "log"
    BY <1>1, <1>2, <1>4, EventsLogged, CopiesKept DEF LogEvent, GoTo, Logged, childVars
  <2>2. Copies(m) \in {{}, Allowed(m, a)} /\ (a # "deny" => Copies(m) = {})
    BY <1>2, <2>1 DEF HasLeft, Refuses
  <2>3. CASE a = "deny"
    <3>1. ~InHand(m)'
      BY <1>1, <2>1, <2>3 DEF InHand, AfterLog, TypeOK
    <3> QED
      BY <1>1, <2>1, <2>2, <3>1
  <2>4. CASE a # "deny"
    <3>1. at'[d] = (IF d = "out" THEN "mutex" ELSE "write") /\ verdict'[d] = a
      BY <1>1, <2>1, <2>4 DEF AfterLog, TypeOK
    <3>2. Logged(m)' = {EventFor(m, a)} /\ HasLeft(m)' = {}
      BY <1>1, <3>1 DEF Logged, HasLeft, Dirs
    <3>3. InHand(m)'
      BY <1>1, <2>1, <3>1 DEF InHand
    <3> QED
      BY <2>1, <2>2, <2>4, <3>2, <3>3
  <2> QED
    BY <2>3, <2>4
<1>5. CASE LockClient(d)
  <2>1. /\ UNCHANGED <<held, verdict>> /\ at' = [at EXCEPT ![d] = "text"] /\ at[d] = "mutex"
        /\ EventsOf(m)' = EventsOf(m) /\ Copies(m)' = Copies(m)
    BY <1>1, <1>5, EventsKept, CopiesKept DEF LockClient, EnterClientWrite, GoTo, childVars
  <2>2. at'[d] = "text"
    BY <1>1, <2>1 DEF TypeOK
  <2>3. Logged(m)' = Logged(m) /\ HasLeft(m)' = HasLeft(m) /\ InHand(m)'
    BY <1>1, <2>1, <2>2 DEF Logged, HasLeft, InHand, Dirs
  <2> QED
    BY <1>2, <2>1, <2>3
<1>6. CASE WriteText(d)
  <2>1. /\ UNCHANGED <<held, verdict>> /\ at' = [at EXCEPT ![d] = "newline"] /\ at[d] = "text"
        /\ EventsOf(m)' = EventsOf(m)
        /\ clientOut' = Append(clientOut, ClientChunk(d, "text")) /\ UNCHANGED <<childIn, childGot>>
    BY <1>1, <1>6, EventsKept DEF WriteText, GoTo, childVars
  <2>2. at'[d] = "newline"
    BY <1>1, <2>1 DEF TypeOK
  <2>3. Copies(m)' = Copies(m) \cup {IF d = "in" THEN "refusal" ELSE FormOf(m[2], a)}
    BY <1>1, <2>1, CopiesWritten
  <2>4. Copies(m) = {}
    BY <1>2, <2>1 DEF HasLeft
  <2>5. Allowed(m, a) = {IF d = "in" THEN "refusal" ELSE FormOf(m[2], a)}
    BY <1>1, <1>3, <2>1 DEF Allowed, Refuses, Dirs
  <2>6. Logged(m)' = Logged(m) /\ HasLeft(m)' = Allowed(m, a) /\ InHand(m)'
    BY <1>1, <2>1, <2>2 DEF Logged, HasLeft, InHand, Dirs
  <2> QED
    BY <1>2, <2>1, <2>3, <2>4, <2>5, <2>6
<1>7. CASE WriteNewline(d)
  <2>1. /\ UNCHANGED <<held, verdict>> /\ at' = [at EXCEPT ![d] = AfterNewline(d)]
        /\ at[d] = "newline" /\ EventsOf(m)' = EventsOf(m)
        /\ clientOut' = Append(clientOut, ClientChunk(d, "newline"))
        /\ UNCHANGED <<childIn, childGot>>
    BY <1>1, <1>7, EventsKept DEF WriteNewline, GoTo, childVars
  <2>2. Copies(m)' = Copies(m)
    BY <1>1, <2>1, CopiesWritten
  <2>3. Copies(m) = Allowed(m, a)
    BY <1>2, <2>1 DEF HasLeft
  <2>4. CASE d = "in"
    <3>1. at'[d] = "log"
      BY <1>1, <2>1, <2>4 DEF TypeOK, AfterNewline
    <3>2. Logged(m)' = {} /\ HasLeft(m)' = Allowed(m, a) /\ InHand(m)' /\ Logged(m) = {}
      BY <1>1, <1>3, <2>1, <2>4, <3>1 DEF Logged, HasLeft, InHand
    <3> QED
      BY <1>2, <2>1, <2>2, <2>3, <3>2
  <2>5. CASE d = "out"
    <3>1. at'[d] = "scan"
      BY <1>1, <2>1, <2>5 DEF TypeOK, AfterNewline
    <3>2. ~InHand(m)' /\ Logged(m) = {EventFor(m, a)}
      BY <1>1, <2>1, <2>5, <3>1 DEF InHand, Logged
    <3> QED
      BY <1>1, <1>2, <2>1, <2>2, <2>3, <3>2
  <2> QED
    BY <1>1, <2>4, <2>5 DEF Dirs
<1>8. CASE Forward /\ d = "in"
  <2>1. /\ at["in"] = "write" /\ at' = [at EXCEPT !["in"] = "scan"] /\ EventsOf(m)' = EventsOf(m)
        /\ Copies(m)' = Copies(m) \cup {FormOf(m[2], a)}
    BY <1>1, <1>8, EventsKept, CopiesForwarded DEF Forward, GoTo
  <2>2. Copies(m) = {} /\ Logged(m) = {EventFor(m, a)} /\ Allowed(m, a) = {FormOf(m[2], a)}
    BY <1>2, <1>3, <1>8, <2>1 DEF HasLeft, Logged, Allowed
  <2>3. ~InHand(m)'
    BY <1>1, <1>8, <2>1 DEF InHand, TypeOK
  <2> QED
    BY <1>1, <1>2, <2>1, <2>2, <2>3
<1>9. CASE ForwardFails /\ d = "in"
  <2>1. /\ at["in"] = "write" /\ at' = [at EXCEPT !["in"] = "end"]
        /\ EventsOf(m)' = EventsOf(m) /\ Copies(m)' = Copies(m)
    BY <1>9, EventsKept, CopiesKept DEF ForwardFails, ClientWriteFails, EndRelay, GoTo, childVars
  <2>2. Copies(m) = {} /\ Logged(m) = {EventFor(m, a)}
    BY <1>2, <1>9, <2>1 DEF HasLeft, Logged
  <2>3. ~InHand(m)'
    BY <1>1, <1>9, <2>1 DEF InHand, TypeOK
  <2> QED
    BY <1>1, <1>2, <2>1, <2>2, <2>3
<1>10. ASSUME EventsOf(m)' = EventsOf(m), Copies(m)' = Copies(m),
              at'[d] = at[d], held'[d] = held[d], verdict'[d] = verdict[d]
       PROVE  InHand(m)' /\ EventsOf(m)' = Logged(m)' /\ Copies(m)' = HasLeft(m)'
  <2>1. InHand(m)' /\ Logged(m)' = Logged(m) /\ HasLeft(m)' = HasLeft(m)
    BY <1>1, <1>10 DEF InHand, Logged, HasLeft, Dirs
  <2> QED
    BY <1>2, <1>10, <2>1
<1>11. ASSUME NEW e \in Dirs, e # d, RelayStep(e)
       PROVE  /\ EventsOf(m)' = EventsOf(m) /\ Copies(m)' = Copies(m)
              /\ at'[d] = at[d] /\ held'[d] = held[d] /\ verdict'[d] = verdict[d]
  <2>1. m # <<e, held[e]>>
    BY <1>1, <1>11
  <2>2. /\ at'[d] = at[d] /\ held'[d] = held[d] /\ verdict'[d] = verdict[d]
    BY <1>1, <1>11 DEF RelayStep, Scan, ScanEnds, EndRelay, LogEvent, LockClient,
       EnterClientWrite, WriteText, WriteNewline, Forward, ForwardFails, ClientWriteFails, GoTo,
       TypeOK
  <2>3. EventsOf(m)' = EventsOf(m)
    <3>1. CASE LogEvent(e)
      BY <2>1, <3>1, EventsLogged
    <3>2. CASE ~LogEvent(e)
      <4>1. UNCHANGED audit
        BY <1>11, <3>2 DEF RelayStep, Scan, ScanEnds, EndRelay, LockClient, EnterClientWrite,
           WriteText, WriteNewline, Forward, ForwardFails, ClientWriteFails
      <4> QED
        BY <4>1, EventsKept
    <3> QED
      BY <3>1, <3>2
  <2>4. Copies(m)' = Copies(m)
    <3>1. CASE WriteText(e)
      <4>1. Busy(e) /\ clientOut' = Append(clientOut, ClientChunk(e, "text"))
            /\ UNCHANGED <<childIn, childGot>>
        BY <3>1 DEF WriteText, childVars, Busy
      <4> QED
        BY <2>1, <4>1, CopiesWritten
    <3>2. CASE WriteNewline(e)
      <4>1. Busy(e) /\ clientOut' = Append(clientOut, ClientChunk(e, "newline"))
            /\ UNCHANGED <<childIn, childGot>>
        BY <3>2 DEF WriteNewline, childVars, Busy
      <4> QED
        BY <2>1, <4>1, CopiesWritten
    <3>3. CASE e = "in" /\ Forward
      BY <2>1, <3>3, CopiesForwarded
    <3>4. CASE UNCHANGED <<childIn, childGot, clientOut>>
      BY <3>4, CopiesKept
    <3> QED
      BY <1>11, <3>1, <3>2, <3>3, <3>4 DEF RelayStep, Scan, ScanEnds, EndRelay, LogEvent,
         LockClient, EnterClientWrite, ForwardFails, ClientWriteFails, childVars
  <2> QED
    BY <2>2, <2>3, <2>4
<1>15. CASE ClientWriteFails(d)
  <2>1. PICK how \in {"unsent", "cut"} :
          /\ at' = [at EXCEPT ![d] = how] /\ at[d] = IF how = "cut" THEN "newline" ELSE "text"
          /\ UNCHANGED <<held, verdict, audit, childIn, childGot, clientOut>>
    BY <1>15 DEF ClientWriteFails, EndRelay, GoTo, childVars
  <2>2. EventsOf(m)' = EventsOf(m) /\ Copies(m)' = Copies(m)
    BY <2>1, EventsKept, CopiesKept
  <2>3. at'[d] = how
    BY <1>1, <2>1 DEF TypeOK
  <2>4. Logged(m)' = Logged(m) /\ HasLeft(m)' = HasLeft(m) /\ InHand(m)'
    BY <1>1, <2>1, <2>3 DEF Logged, HasLeft, InHand, Dirs
  <2> QED
    BY <1>2, <2>2, <2>4
<1>12. CASE RelayStep(d)
  <2>1. ~Scan(d) /\ ~ScanEnds(d)
    BY <1>1 DEF Scan, ScanEnds
  <2> QED
    BY <1>4, <1>5, <1>6, <1>7, <1>8, <1>9, <1>12, <1>15, <2>1 DEF RelayStep
<1>13. CASE ChildTake
  <2>1. EventsOf(m)' = EventsOf(m) /\ Copies(m)' = Copies(m) /\ UNCHANGED relayVars
    BY <1>13, EventsKept, CopiesTaken DEF ChildTake
  <2> QED
    BY <1>10, <2>1 DEF relayVars
<1>14. CASE UNCHANGED <<relayVars, audit, childIn, childGot, clientOut>>
  <2>1. EventsOf(m)' = EventsOf(m) /\ Copies(m)' = Copies(m)
    BY <1>14, EventsKept, CopiesKept
  <2> QED
    BY <1>10, <1>14, <2>1 DEF relayVars
<1> QED
  <2>1. CASE \E e \in Dirs : RelayStep(e)
    BY <1>10, <1>11, <1>12, <2>1
  <2>2. CASE ~\E e \in Dirs : RelayStep(e)
    <3>1. ChildTake \/ UNCHANGED <<relayVars, audit, childIn, childGot, clientOut>>
      BY <2>2 DEF Next, WaitReturns, Join, ClientSend, ClientCloses, ClientEnds, ChildReplies,
         ChildSpeaks,
         ChildSays, ChildExits, ChildCrashes, ChildGone, vars, childVars
    <3> QED
      BY <1>13, <1>14, <3>1
  <2> QED
    BY <2>1, <2>2

LEMMA MessagesStep == TypeOK /\ HeldInv /\ MessagesInv /\ [Next]_vars => MessagesInv'
<1> SUFFICES ASSUME TypeOK, HeldInv, MessagesInv, [Next]_vars PROVE MessagesInv'
  OBVIOUS
<1> USE DEF MessagesInv
<1>1. PipesInv' /\ FreshInv'
  BY PipesStep, FreshStep
<1>2. InHandInv'
  BY AsideStep, InHandStep DEF InHandInv
<1>3. DoneInv'
  BY AsideStep, InHandStep DEF DoneInv
<1> QED
  BY <1>1, <1>2, <1>3

LEMMA MessagesInit == Init => MessagesInv
<1> SUFFICES ASSUME Init PROVE MessagesInv
  OBVIOUS
<1>1. \A m \in Messages : EventsOf(m) = {} /\ Copies(m) = {} /\ ~InHand(m)
  <2> TAKE m \in Messages
  <2>1. m[1] \in Dirs
    BY MessageParts
  <2>2. EventsOf(m) = {}
    BY ElementsOfEmpty DEF Init, EventsOf
  <2>3. ~InHand(m)
    BY <2>1 DEF Init, InHand
  <2>4. Elements(clientOut) = {} /\ ToChild = {}
    <3>1. << >> \o << >> = << >>
      OBVIOUS
    <3> QED
      BY <3>1, ElementsOfEmpty DEF Init, ToChild
  <2>5. Copies(m) = {}
    BY <2>1, <2>4, CopiesAre DEF TextsOf, FormsTo, Dirs
  <2> QED
    BY <2>2, <2>3, <2>5
<1>2. PipesInv
  BY ElementsOfEmpty DEF Init, PipesInv, Source, Said
<1> QED
  BY <1>1, <1>2 DEF MessagesInv, FreshInv, InHandInv, DoneInv

\* What is said, decided, logged and forwarded agree for every message at every step,
\* wherever the relays are (relay of stdio.go:140-204).
THEOREM MessagesAgree == Spec => []MessagesInv
  BY MessagesInit, MessagesStep, TypeCorrect, PTL DEF Spec

-------------------------------------------------------------------------------
\* The log.
KeysInv ==
  \A i, j \in 1..Len(audit) :
    audit[i].dir = audit[j].dir /\ audit[i].name = audit[j].name => i = j

LEMMA KeysStep == TypeOK /\ HeldInv /\ MessagesInv /\ KeysInv /\ [Next]_vars => KeysInv'
<1> SUFFICES ASSUME TypeOK, HeldInv, MessagesInv, KeysInv, [Next]_vars PROVE KeysInv'
  OBVIOUS
<1>1. CASE UNCHANGED audit
  BY <1>1 DEF KeysInv
<1>2. ASSUME NEW d \in Dirs, LogEvent(d) PROVE KeysInv'
  <2> DEFINE m == <<d, held[d]>>
             new == EventFor(m, verdict[d])
  <2>1. audit' = Append(audit, new) /\ audit \in Seq(Event) /\ at[d] = "log"
    BY <1>2 DEF LogEvent, EventFor, TypeOK
  <2>2. m \in Messages /\ InHand(m) /\ m[1] = d /\ m[2] = held[d]
    BY <2>1 DEF HeldInv, Busy, NamesOf, Messages, InHand, Dirs
  <2>3. EventsOf(m) = {}
    BY <2>1, <2>2 DEF MessagesInv, InHandInv, Logged
  <2>4. \A i \in 1..Len(audit) : ~(audit[i].dir = new.dir /\ audit[i].name = new.name)
    BY <2>2, <2>3 DEF EventsOf, Elements, EventFor
  <2>5. /\ Len(audit') = Len(audit) + 1 /\ Len(audit) \in Nat /\ audit'[Len(audit) + 1] = new
        /\ \A i \in 1..Len(audit) : audit'[i] = audit[i]
    BY <2>1
  <2> HIDE DEF new, m
  <2> QED
    BY <2>4, <2>5 DEF KeysInv
<1> QED
  BY <1>1, <1>2 DEF Next, RelayStep, Scan, ScanEnds, EndRelay, LockClient, EnterClientWrite,
     WriteText, WriteNewline, Forward, ForwardFails, ClientWriteFails, WaitReturns, Join,
     ClientSend, ClientCloses, ClientEnds,
     ChildTake, ChildReplies, ChildSpeaks, ChildSays, ChildExits, ChildCrashes, ChildGone, vars

LEMMA LeftAsLogged ==
  ASSUME HeldInv, MessagesInv, NEW m \in Messages, NEW f \in Copies(m)
  PROVE  /\ Copies(m) = {f}
         /\ IF f = "refusal" THEN InHand(m) \/ \E e \in EventsOf(m) : e.action = "deny"
            ELSE \E e \in EventsOf(m) : e.action # "deny" /\ e.form = f
<1> USE DEF MessagesInv
<1>1. \A a : FormOf(m[2], a) # "refusal"
  BY DEF FormOf
<1>2. \A a : Copies(m) = Allowed(m, a) => Copies(m) = {f}
  BY DEF Allowed
<1>3. \A a : Copies(m) = Allowed(m, a) /\ f = "refusal" => a = "deny"
  BY <1>1 DEF Allowed
<1>4. \A a : Copies(m) = Allowed(m, a) /\ f # "refusal" => a # "deny" /\ f = FormOf(m[2], a)
  BY DEF Allowed
<1>5. \A a : EventFor(m, a).action = a /\ EventFor(m, a).form = FormOf(m[2], a)
  BY DEF EventFor
<1>6. CASE InHand(m)
  <2>1. EventsOf(m) = Logged(m) /\ Copies(m) = HasLeft(m)
    BY <1>6 DEF InHandInv
  <2>2. Copies(m) = Allowed(m, verdict[m[1]])
    BY <2>1 DEF HasLeft
  <2>3. CASE f = "refusal"
    BY <1>2, <1>6, <2>2, <2>3
  <2>4. CASE f # "refusal"
    <3>1. verdict[m[1]] # "deny" /\ f = FormOf(m[2], verdict[m[1]])
      BY <1>4, <2>2, <2>4
    <3>2. at[m[1]] \in {"newline", "cut"} /\ m[1] = "out"
      <4>1. at[m[1]] \in {"newline", "cut"}
        BY <2>1, <3>1 DEF HasLeft, Refuses
      <4> QED
        BY <3>1, <4>1, MessageParts DEF HeldInv, Refuses, Dirs
    <3>3. EventsOf(m) = {EventFor(m, verdict[m[1]])}
      BY <2>1, <3>2 DEF Logged
    <3> QED
      BY <1>2, <1>5, <2>2, <2>4, <3>1, <3>3
  <2> QED
    BY <2>3, <2>4
<1>7. CASE ~InHand(m)
  <2>1. PICK a \in Actions : EventsOf(m) = {EventFor(m, a)} /\ Copies(m) = Allowed(m, a)
    BY <1>7 DEF DoneInv
  <2> QED
    BY <1>2, <1>3, <1>4, <1>5, <2>1
<1> QED
  BY <1>6, <1>7

\* Every message has at most one event and one outcome; what was forwarded is in the log
\* before it leaves, in the form in which it leaves (stdio.go:152-204).
THEOREM AuditTrailHolds == Spec => []AuditTrail
<1>1. Init => KeysInv
  BY DEF Init, KeysInv
<1>2. Spec => []KeysInv
  BY <1>1, KeysStep, MessagesAgree, TypeCorrect, PTL DEF Spec
<1>3. KeysInv /\ MessagesInv /\ HeldInv => AuditTrail
  BY LeftAsLogged DEF KeysInv, AuditTrail
<1> QED
  BY <1>2, <1>3, MessagesAgree, TypeCorrect, PTL

-------------------------------------------------------------------------------
\* The child answers only what it has been asked, and only requests are refused.
AskedInv == Requests \cap Elements(said) \subseteq Asked
RefusedInv ==
  \A k \in Elements(clientOut) : k.what = "refusal" => k.name \in Requests

LEMMA AskedStep == TypeOK /\ AskedInv /\ [Next]_vars => AskedInv'
<1> SUFFICES ASSUME TypeOK, AskedInv, [Next]_vars PROVE AskedInv'
  OBVIOUS
<1> USE DEF AskedInv
<1>1. CASE ChildTake
  <2>1. Elements(childGot') = Elements(childGot) \cup {Head(childIn)} /\ UNCHANGED said
    <3>1. /\ childIn # << >> /\ childIn \in Seq(Copy) /\ childGot \in Seq(Copy)
          /\ childGot' = Append(childGot, Head(childIn)) /\ UNCHANGED said
      BY <1>1 DEF ChildTake, TypeOK
    <3>2. Head(childIn) \in Copy
      BY <3>1, ElementsTail
    <3> QED
      BY <3>1, <3>2, ElementsAppend
  <2> QED
    BY <2>1 DEF Asked
<1>2. ASSUME NEW m, ChildSays(m), m \in Asked \/ m \in ServerNotes \cup {Broken} PROVE AskedInv'
  <2>1. m \in OutNames \cup {Broken}
    BY <1>2 DEF Asked, OutNames
  <2>2. Elements(said') = Elements(said) \cup {m}
    <3>1. said' = Append(said, m) /\ said \in Seq(OutNames \cup {Broken})
      BY <1>2 DEF ChildSays, TypeOK
    <3> QED
      BY <2>1, <3>1, ElementsAppend
  <2>3. Asked' = Asked
    BY <1>2 DEF ChildSays, Asked
  <2>4. m \in Requests => m \in Asked
    BY <1>2, NamesAssumption
  <2> QED
    BY <2>2, <2>3, <2>4
<1>3. CASE UNCHANGED <<said, childGot>>
  BY <1>3 DEF Asked
<1> QED
  BY <1>1, <1>2, <1>3 DEF Next, RelayStep, Scan, ScanEnds, EndRelay, LogEvent, LockClient,
     EnterClientWrite, WriteText, WriteNewline, Forward, ForwardFails, ClientWriteFails,
     WaitReturns, Join,
     ClientSend, ClientCloses, ClientEnds, ChildReplies, ChildSpeaks, ChildExits, ChildCrashes,
     ChildGone,
     vars, childVars

LEMMA ClientOutStep ==
  ASSUME TypeOK, HeldInv, [Next]_vars, clientOut' # clientOut
  PROVE  \E d \in Dirs, part \in {"text", "newline"} :
           /\ at[d] = part /\ ClientChunk(d, part) \in Chunk
           /\ clientOut' = Append(clientOut, ClientChunk(d, part))
           /\ Elements(clientOut') = Elements(clientOut) \cup {ClientChunk(d, part)}
<1>1. PICK d \in Dirs : WriteText(d) \/ WriteNewline(d)
  BY DEF Next, RelayStep, Scan, ScanEnds, EndRelay, LogEvent, LockClient, EnterClientWrite,
     Forward, ForwardFails, ClientWriteFails, WaitReturns, Join, ClientSend, ClientCloses,
     ClientEnds, ChildTake, ChildReplies,
     ChildSpeaks, ChildSays, ChildExits, ChildCrashes, ChildGone, vars
<1>2. PICK part \in {"text", "newline"} :
        at[d] = part /\ clientOut' = Append(clientOut, ClientChunk(d, part))
  BY <1>1 DEF WriteText, WriteNewline
<1>3. ClientChunk(d, part) \in Chunk /\ clientOut \in Seq(Chunk)
  BY <1>2, ChunkType DEF Busy, TypeOK
<1> QED
  BY <1>2, <1>3, ElementsAppend

LEMMA RefusedStep == TypeOK /\ HeldInv /\ RefusedInv /\ [Next]_vars => RefusedInv'
<1> SUFFICES ASSUME TypeOK, HeldInv, RefusedInv, [Next]_vars, clientOut' # clientOut
             PROVE RefusedInv'
  BY DEF RefusedInv
<1>1. PICK d \in Dirs, part \in {"text", "newline"} :
        /\ at[d] = part
        /\ Elements(clientOut') = Elements(clientOut) \cup {ClientChunk(d, part)}
  BY ClientOutStep
<1>2. ClientChunk(d, part).what = "refusal" => ClientChunk(d, part).name \in Requests
  BY <1>1 DEF ClientChunk, HeldInv, Refuses
<1> QED
  BY <1>1, <1>2 DEF RefusedInv

\* A text with the name of the message a relay is about to write is not there yet.
LEMMA NothingWritten ==
  ASSUME TypeOK, HeldInv, MessagesInv, AskedInv, RefusedInv,
         NEW d \in Dirs, at[d] = "text", NEW k \in Elements(clientOut), k.part = "text"
  PROVE  k.name # held[d]
<1> SUFFICES ASSUME k.name = held[d] PROVE FALSE
  OBVIOUS
<1> DEFINE n == held[d]
<1> USE DEF MessagesInv
<1>1. n \in NamesOf(d) /\ <<d, n>> \in Messages /\ InHand(<<d, n>>) /\ Copies(<<d, n>>) = {}
  <2>1. n \in NamesOf(d) /\ <<d, n>> \in Messages /\ InHand(<<d, n>>)
    BY DEF HeldInv, Busy, NamesOf, Messages, InHand, Dirs
  <2> QED
    BY <2>1 DEF InHandInv, HasLeft
<1>2. k.what \in {"refusal", "message"}
  <2>1. clientOut \in Seq(Chunk)
    BY DEF TypeOK
  <2>2. k \in Chunk
    BY <2>1 DEF Elements
  <2> QED
    BY <2>2 DEF Chunk
<1>3. k.what = "refusal" => n \in Requests /\ "refusal" \in Copies(<<"in", n>>)
  <2>1. k.what = "refusal" => n \in Requests /\ <<"in", n>> \in Messages
                              /\ k \in TextsOf(Elements(clientOut), n, "refusal")
    BY DEF RefusedInv, TextsOf, Messages, InNames
  <2> QED
    BY <2>1, CopiesAre
<1>4. k.what = "message" /\ n \in OutNames => k.form \in Copies(<<"out", n>>)
  <2>1. n \in OutNames => <<"out", n>> \in Messages
    BY DEF Messages
  <2>2. k.what = "message" => k \in TextsOf(Elements(clientOut), n, "message")
    BY DEF TextsOf
  <2> QED
    BY <2>1, <2>2, CopiesAre
\* What the child has said in answer to a request has reached it, and so was not refused.
<1>5. n \in Requests /\ n \in Elements(said) => \E f \in Forms : f \in Copies(<<"in", n>>)
  <2> SUFFICES ASSUME n \in Requests, n \in Elements(said)
               PROVE  \E f \in Forms : f \in Copies(<<"in", n>>)
    OBVIOUS
  <2>1. PICK c \in Elements(childGot) : c.name = n
    BY DEF AskedInv, Asked
  <2>2. c \in ToChild /\ c.form \in Forms
    <3>1. childIn \in Seq(Copy) /\ childGot \in Seq(Copy)
      BY DEF TypeOK
    <3>2. c \in Copy
      BY <2>1, <3>1 DEF Elements
    <3>3. ToChild = Elements(childIn) \cup Elements(childGot)
      BY <3>1, CopiesConcat DEF ToChild
    <3> QED
      BY <2>1, <3>2, <3>3 DEF Copy
  <2>3. c.form \in FormsTo(ToChild, n)
    BY <2>1, <2>2 DEF FormsTo
  <2>4. <<"in", n>> \in Messages
    BY DEF Messages, InNames
  <2> QED
    BY <2>2, <2>3, <2>4, CopiesAre
<1>6. CASE d = "in"
  <2>1. n \in Requests /\ n \in OutNames
    BY <1>6 DEF HeldInv, Refuses, OutNames
  <2>2. Copies(<<"in", n>>) = {}
    BY <1>1, <1>6
  <2>3. k.form \in Copies(<<"out", n>>)
    BY <1>2, <1>3, <1>4, <2>1, <2>2
  <2>4. <<"out", n>> \in Messages
    BY <2>1 DEF Messages
  <2>5. n \in Elements(said)
    BY <2>3, <2>4 DEF FreshInv, Said
  <2> QED
    BY <1>5, <2>1, <2>2, <2>5
<1>7. CASE d = "out"
  <2>1. n \in OutNames /\ Copies(<<"out", n>>) = {} /\ n \in Elements(said)
    BY <1>1, <1>7 DEF NamesOf, FreshInv, Said
  <2>2. n \in Requests /\ "refusal" \in Copies(<<"in", n>>)
    BY <1>2, <1>3, <1>4, <2>1
  <2>3. PICK f \in Forms : f \in Copies(<<"in", n>>)
    BY <1>5, <2>1, <2>2
  <2>4. <<"in", n>> \in Messages
    BY <2>2 DEF Messages, InNames
  <2>5. Copies(<<"in", n>>) = {"refusal"}
    BY <2>2, <2>4, LeftAsLogged
  <2> QED
    BY <2>3, <2>5 DEF Forms
<1> QED
  BY <1>6, <1>7 DEF Dirs

LEMMA AnsweredStep ==
  ASSUME TypeOK, HeldInv, MessagesInv, AskedInv, RefusedInv, AnsweredOnce, [Next]_vars
  PROVE  AnsweredOnce'
<1> SUFFICES ASSUME clientOut' # clientOut PROVE AnsweredOnce'
  BY DEF AnsweredOnce
<1>1. PICK d \in Dirs, part \in {"text", "newline"} :
        at[d] = part /\ clientOut' = Append(clientOut, ClientChunk(d, part))
  BY ClientOutStep
<1> DEFINE new == ClientChunk(d, part)
<1>2. new.part = part /\ new.name = held[d]
  BY DEF ClientChunk
<1>3. \A i \in 1..Len(clientOut) :
        ~(clientOut[i].part = "text" /\ new.part = "text" /\ clientOut[i].name = new.name)
  BY <1>1, <1>2, NothingWritten DEF Elements
<1>4. /\ Len(clientOut') = Len(clientOut) + 1 /\ Len(clientOut) \in Nat
      /\ clientOut'[Len(clientOut) + 1] = new
      /\ \A i \in 1..Len(clientOut) : clientOut'[i] = clientOut[i]
  BY <1>1 DEF TypeOK
<1> HIDE DEF new
<1> QED
  BY <1>3, <1>4 DEF AnsweredOnce

\* A request of the client is answered once: what one relay refuses, no reply of the
\* child can follow through the other (stdio.go:163-169, 200).
THEOREM ClientIsAnsweredOnce == Spec => []AnsweredOnce
<1>1. Init => AskedInv /\ RefusedInv /\ AnsweredOnce
  BY ElementsOfEmpty DEF Init, AskedInv, RefusedInv, AnsweredOnce
<1> QED
  BY <1>1, AskedStep, RefusedStep, AnsweredStep, MessagesAgree, TypeCorrect, PTL DEF Spec

-------------------------------------------------------------------------------
\* The way of the client's messages: each is still in the pipe, in hand, or in the log.
SentInv ==
  \A n \in InNames \cap Elements(sent) :
    n \in Elements(stdin) \/ InHand(<<"in", n>>) \/ EventsOf(<<"in", n>>) # {}

\* While the child runs, the "in" relay ends only at the end of what the client sends.
EndInv ==
  /\ childUp => main = "wait"
  /\ childUp /\ at["in"] \notin Ended => childInOpen
  /\ at["in"] = "end" /\ childUp /\ Broken \notin Elements(sent) => stdin = << >> /\ ~stdinOpen

LEMMA SentStep ==
  ASSUME TypeOK, HeldInv, MessagesInv, SentInv, [Next]_vars PROVE SentInv'
<1> SUFFICES ASSUME NEW n \in InNames, n \in Elements(sent')
             PROVE  n \in Elements(stdin') \/ InHand(<<"in", n>>)' \/ EventsOf(<<"in", n>>)' # {}
  BY DEF SentInv, InNames
<1> DEFINE m == <<"in", n>>
<1>1. m \in Messages /\ m[1] = "in" /\ m[2] = n
  BY DEF Messages
<1>2. \/ UNCHANGED <<sent, stdin>>
      \/ UNCHANGED sent /\ Scan("in")
      \/ \E x \in InNames \cup {Broken} : sent' = Append(sent, x) /\ stdin' = Append(stdin, x)
  BY DEF Next, RelayStep, Scan, ScanEnds, EndRelay, LogEvent, LockClient, EnterClientWrite,
     WriteText, WriteNewline, Forward, ForwardFails, ClientWriteFails, WaitReturns, Join,
     ClientSend, ClientCloses, ClientEnds,
     ChildTake, ChildReplies, ChildSpeaks, ChildSays, ChildExits, ChildCrashes, ChildGone, vars,
     clientVars, Dirs
<1>3. CASE n \notin Elements(sent) \/ (n \in Elements(stdin) /\ ~Scan("in"))
  <2>1. CASE \E x \in InNames \cup {Broken} : sent' = Append(sent, x) /\ stdin' = Append(stdin, x)
    <3>1. PICK x \in InNames \cup {Broken} : sent' = Append(sent, x) /\ stdin' = Append(stdin, x)
      BY <2>1
    <3>2. /\ Elements(sent') = Elements(sent) \cup {x}
          /\ Elements(stdin') = Elements(stdin) \cup {x}
      <4>1. sent \in Seq(InNames \cup {Broken}) /\ stdin \in Seq(InNames \cup {Broken})
        BY DEF TypeOK
      <4>2. Elements(Append(sent, x)) = Elements(sent) \cup {x}
        BY <4>1, ElementsAppend
      <4>3. Elements(Append(stdin, x)) = Elements(stdin) \cup {x}
        BY <4>1, ElementsAppend
      <4> QED
        BY <3>1, <4>2, <4>3
    <3> QED
      BY <1>3, <3>2
  <2>2. CASE UNCHANGED <<sent, stdin>>
    BY <1>3, <2>2
  <2> QED
    BY <1>2, <1>3, <2>1, <2>2
<1>4. CASE n \in Elements(stdin) /\ Scan("in")
  <2>1. /\ stdin # << >> /\ stdin' = Tail(stdin)
        /\ held' = [held EXCEPT !["in"] = Head(stdin)]
        /\ \E a \in Actions : at' = [at EXCEPT !["in"] = FirstPlace("in", Head(stdin), a)]
    BY <1>4 DEF Scan, Source, GoTo
  <2>2. Elements(stdin) = Elements(stdin') \cup {Head(stdin)}
    BY <2>1, ElementsTail DEF TypeOK
  <2>3. n = Head(stdin) => InHand(m)'
    BY <1>1, <2>1 DEF InHand, FirstPlace, TypeOK, Dirs
  <2> QED
    BY <1>4, <2>2, <2>3
<1>5. CASE n \in Elements(sent) /\ n \notin Elements(stdin) /\ InHand(m)
  BY <1>1, <1>5, InHandStep DEF MessagesInv
<1>6. CASE n \in Elements(sent) /\ n \notin Elements(stdin) /\ ~InHand(m)
  <2>1. EventsOf(m) # {}
    BY <1>6 DEF SentInv
  <2> QED
    BY <1>1, <1>6, <2>1, Elsewhere
<1> QED
  BY <1>3, <1>4, <1>5, <1>6

LEMMA EndStep ==
  ASSUME TypeOK, PipesInv, EndInv, [Next]_vars PROVE EndInv'
<1> USE DEF EndInv, TypeOK, Dirs, Ended, GoTo
<1>1. Elements(sent) \subseteq Elements(sent')
  BY PipesStep DEF Said
<1>2. CASE ScanEnds("in")
  <2>1. at' = [at EXCEPT !["in"] = "end"] /\ UNCHANGED <<childUp, main, stdin, stdinOpen, sent>>
    BY <1>2 DEF ScanEnds, EndRelay, childVars, clientVars
  <2>2. CASE AtEOF("in")
    BY <2>1, <2>2 DEF AtEOF
  <2>3. CASE stdin # << >> /\ Head(stdin) = Broken
    <3>1. Broken \in Elements(stdin)
      BY <2>3, ElementsTail
    <3>2. Broken \in Elements(sent')
      BY <1>1, <3>1 DEF PipesInv, Source, Said
    <3> QED
      BY <2>1, <3>2
  <2> QED
    BY <1>2, <2>2, <2>3 DEF ScanEnds, Source, Decodes
<1>3. ASSUME NEW d \in Dirs, ForwardFails \/ ClientWriteFails(d) PROVE EndInv'
  BY <1>3 DEF DeferredClose, clientVars, ForwardFails, ClientWriteFails, EndRelay, childVars
<1>4. CASE ScanEnds("out")
  BY <1>4 DEF ScanEnds, EndRelay, DeferredClose, childVars, clientVars
<1>5. ASSUME NEW d \in Dirs, Scan(d) PROVE EndInv'
  BY <1>5 DEF Scan, FirstPlace, childVars, clientVars
<1>6. ASSUME NEW d \in Dirs, LogEvent(d) \/ LockClient(d) \/ WriteText(d) \/ WriteNewline(d)
      PROVE  EndInv'
  BY <1>6 DEF LogEvent, AfterLog, LockClient, EnterClientWrite, WriteText, WriteNewline,
     AfterNewline, childVars, clientVars
<1>7. CASE Forward
  BY <1>7 DEF Forward, childVars, clientVars
<1>8. CASE WaitReturns \/ Join
  BY <1>8 DEF WaitReturns, Join, childVars, clientVars, relayVars
<1>9. CASE ClientSend \/ ClientCloses \/ ClientEnds
  BY <1>1, <1>9 DEF ClientSend, ClientCloses, ClientEnds, childVars, relayVars
<1>10. CASE ChildTake \/ ChildReplies \/ ChildSpeaks \/ ChildExits \/ ChildCrashes
  BY <1>10 DEF ChildTake, ChildReplies, ChildSpeaks, ChildSays, ChildExits, ChildCrashes,
     ChildGone, clientVars, relayVars
<1>11. CASE UNCHANGED vars
  BY <1>11 DEF vars, childVars, clientVars, relayVars
<1> QED
  BY <1>2, <1>3, <1>4, <1>5, <1>6, <1>7, <1>8, <1>9, <1>10, <1>11 DEF Next, RelayStep

\* Nothing that a client sends to a running child gets past the log: when the "in" relay
\* has come to the end, each message has its event (stdio.go:143-204).
THEOREM ClientIsFullyAudited == Spec => []ClientFullyAudited
<1>1. Init => SentInv /\ EndInv
  BY ElementsOfEmpty DEF Init, SentInv, EndInv, Dirs, Ended
<1>2. Spec => [](SentInv /\ EndInv)
  BY <1>1, SentStep, EndStep, MessagesAgree, TypeCorrect, PTL DEF Spec, MessagesInv
<1>3. TypeOK /\ SentInv /\ EndInv => ClientFullyAudited
  <2> SUFFICES ASSUME TypeOK, SentInv, EndInv, at["in"] = "end", ~stdinOpen, childUp,
                      Broken \notin Elements(sent), NEW i \in 1..Len(sent)
               PROVE  EventsOf(<<"in", sent[i]>>) # {}
    BY DEF ClientFullyAudited
  <2>1. sent[i] \in InNames \cap Elements(sent)
    BY DEF Elements, TypeOK
  <2>2. stdin = << >>
    BY DEF EndInv
  <2>3. ~InHand(<<"in", sent[i]>>)
    BY DEF InHand
  <2> QED
    BY <2>1, <2>2, <2>3, ElementsOfEmpty DEF SentInv
<1> QED
  BY <1>2, <1>3, TypeCorrect, PTL

-------------------------------------------------------------------------------
\* The relays as an Enforcement: the three values the refinement gives a message.
Decision(events, hand, action) ==
  TheOnly({e.action : e \in events}, IF hand THEN action ELSE "none")
LogOf(events) == TheOnly({e.action : e \in events}, "none")
LeftOf(copies) == TheOnly(copies, "none")

LEMMA OnlyValues ==
  /\ \A x : TheOnly({}, x) = x
  /\ \A x, y : TheOnly({y}, x) = y
  BY DEF TheOnly

LEMMA ValuesOf ==
  /\ \A h, a : Decision({}, h, a) = IF h THEN a ELSE "none"
  /\ LogOf({}) = "none" /\ LeftOf({}) = "none"
  /\ \A m, h, v, a : Decision({EventFor(m, a)}, h, v) = a /\ LogOf({EventFor(m, a)}) = a
  /\ \A o : LeftOf({o}) = o
<1>1. {e.action : e \in {}} = {}
  OBVIOUS
<1>2. \A m, a : {e.action : e \in {EventFor(m, a)}} = {a}
  BY DEF EventFor
<1>3. /\ \A h, a : Decision({}, h, a) = IF h THEN a ELSE "none"
      /\ LogOf({}) = "none" /\ LeftOf({}) = "none"
  BY <1>1, OnlyValues DEF Decision, LogOf, LeftOf
<1>4. ASSUME NEW m, NEW h, NEW v, NEW a
      PROVE  Decision({EventFor(m, a)}, h, v) = a /\ LogOf({EventFor(m, a)}) = a
  <2>1. {e.action : e \in {EventFor(m, a)}} = {a}
    BY <1>2
  <2> QED
    BY <2>1, OnlyValues DEF Decision, LogOf
<1>5. \A o : LeftOf({o}) = o
  BY OnlyValues DEF LeftOf
<1> QED
  BY <1>3, <1>4, <1>5

decidedOf(m) == Decision(EventsOf(m), InHand(m), verdict[m[1]])

LEMMA DecidedIs ==
  ASSUME NEW m
  PROVE  /\ EventsOf(m) = {} => decidedOf(m) = IF InHand(m) THEN verdict[m[1]] ELSE "none"
         /\ EventsOf(m)' = {} => decidedOf(m)' = IF InHand(m)' THEN verdict'[m[1]] ELSE "none"
         /\ \A a : EventsOf(m) = {EventFor(m, a)} => decidedOf(m) = a
         /\ \A a : EventsOf(m)' = {EventFor(m, a)} => decidedOf(m)' = a
<1>1. \A a : {e.action : e \in {EventFor(m, a)}} = {a}
  BY DEF EventFor
<1>2. {e.action : e \in {}} = {}
  OBVIOUS
<1>3. EventsOf(m) = {} => decidedOf(m) = IF InHand(m) THEN verdict[m[1]] ELSE "none"
  BY <1>2, OnlyValues DEF decidedOf, Decision
<1>4. EventsOf(m)' = {} => decidedOf(m)' = IF InHand(m)' THEN verdict'[m[1]] ELSE "none"
  BY <1>2, OnlyValues DEF decidedOf, Decision
<1>5. ASSUME NEW a, EventsOf(m) = {EventFor(m, a)} PROVE decidedOf(m) = a
  <2>1. {e.action : e \in EventsOf(m)} = {a}
    BY <1>1, <1>5
  <2>2. \A x : TheOnly({e.action : e \in EventsOf(m)}, x) = a
    BY <2>1, OnlyValues
  <2> QED
    BY <2>2 DEF decidedOf, Decision
<1>6. ASSUME NEW a, EventsOf(m)' = {EventFor(m, a)} PROVE decidedOf(m)' = a
  <2>1. {e.action : e \in EventsOf(m)'} = {a}
    BY <1>1, <1>6
  <2>2. \A x : TheOnly({e.action : e \in EventsOf(m)'}, x) = a
    BY <2>1, OnlyValues
  <2> QED
    BY <2>2 DEF decidedOf, Decision
<1> QED
  BY <1>3, <1>4, <1>5, <1>6

\* Where a step leaves a message's events and copies alone, and decides nothing about
\* it, it leaves its three values alone.
Same(m) == /\ EventsOf(m)' = EventsOf(m) /\ Copies(m)' = Copies(m)
           /\ decidedOf(m)' = decidedOf(m)

LEMMA DecisionKept ==
  ASSUME TypeOK, HeldInv, MessagesInv, [Next]_vars, NEW m \in Messages,
         EventsOf(m)' = EventsOf(m), Copies(m)' = Copies(m),
         ~(Scan(m[1]) /\ m[2] = Head(Source(m[1])))
  PROVE  Same(m)
<1>1. m[1] \in Dirs
  BY MessageParts
<1>2. CASE ~InHand(m)
  <2>1. ~InHand(m)'
    BY <1>2, Elsewhere
  <2> QED
    BY <1>2, <2>1 DEF Same, decidedOf, Decision
<1>3. CASE InHand(m) /\ EventsOf(m) # {}
  <2>1. PICK a : EventsOf(m) = {EventFor(m, a)}
    BY <1>3 DEF MessagesInv, InHandInv, Logged
  <2> QED
    BY <2>1, ValuesOf DEF Same, decidedOf
<1>4. CASE InHand(m) /\ EventsOf(m) = {}
  <2>1. InHand(m)'
    BY <1>4, InHandStep DEF MessagesInv
  <2>2. verdict'[m[1]] = verdict[m[1]]
    <3>1. at[m[1]] # "scan"
      BY <1>4 DEF InHand
    <3>2. CASE \E d \in Dirs : Scan(d)
      BY <1>1, <3>1, <3>2 DEF Scan, TypeOK
    <3>3. CASE ~\E d \in Dirs : Scan(d)
      BY <3>3 DEF Next, RelayStep, ScanEnds, EndRelay, LogEvent, LockClient, EnterClientWrite,
         WriteText, WriteNewline, Forward, ForwardFails, ClientWriteFails, WaitReturns, Join,
         ClientSend,
         ClientCloses, ClientEnds, ChildTake, ChildReplies, ChildSpeaks, ChildSays, ChildExits,
         ChildCrashes,
         ChildGone, vars, relayVars
    <3> QED
      BY <3>2, <3>3
  <2> QED
    BY <1>4, <2>1, <2>2 DEF Same, decidedOf
<1> QED
  BY <1>2, <1>3, <1>4

LEMMA ScanIsOne ==
  ASSUME TypeOK, NEW d \in Dirs, Scan(d)
  PROVE  /\ at[d] = "scan" /\ at'[d] # "scan"
         /\ \A e \in Dirs : e # d => at'[e] = at[e]
         /\ \A e \in Dirs : Scan(e) => e = d
<1>1. ASSUME NEW e \in Dirs, Scan(e)
      PROVE  at[e] = "scan" /\ at'[e] # "scan" /\ \A f \in Dirs : f # e => at'[f] = at[f]
  BY <1>1 DEF Scan, GoTo, FirstPlace, TypeOK
<1> QED
  BY <1>1

LEMMA PromiseStep ==
  ASSUME TypeOK, HeldInv, MessagesInv, [Next]_vars
  PROVE  [Promise!Next]_(Promise!vars)
<1> DEFINE decided == [m \in Messages |-> decidedOf(m)]
           logged == [m \in Messages |-> LogOf(EventsOf(m))]
           left == [m \in Messages |-> LeftOf(Copies(m))]
\* What the definitions of the refinement come to.
<1>1. ASSUME UNCHANGED <<decided, logged, left>> PROVE UNCHANGED Promise!vars
  BY <1>1 DEF Promise!vars, decidedOf, Decision, LogOf, LeftOf
<1>2. ASSUME NEW m \in Messages, decided[m] = "none", UNCHANGED <<logged, left>>,
             NEW a \in Actions, decided' = [decided EXCEPT ![m] = a]
      PROVE  Promise!Next
  <2>1. Promise!Decide(m)
    BY <1>2 DEF Promise!Decide, Promise!Actions, Actions, decidedOf, Decision, LogOf, LeftOf
  <2> QED
    BY <2>1 DEF Promise!Next
<1>3. ASSUME NEW m \in Messages, decided[m] # "none", logged[m] = "none",
             UNCHANGED <<decided, left>>, logged' = [logged EXCEPT ![m] = decided[m]]
      PROVE  Promise!Next
  <2>1. Promise!Log(m)
    BY <1>3 DEF Promise!Log, decidedOf, Decision, LogOf, LeftOf
  <2> QED
    BY <2>1 DEF Promise!Next
<1>4. ASSUME NEW m \in Messages, decided[m] # "none", left[m] = "none",
             UNCHANGED <<decided, logged>>,
             NEW o \in Promise!Outcome(m, decided[m]), left' = [left EXCEPT ![m] = o]
      PROVE  Promise!Next
  <2>1. Promise!Leave(m)
    BY <1>4 DEF Promise!Leave, decidedOf, Decision, LogOf, LeftOf
  <2> QED
    BY <2>1 DEF Promise!Next
\* A step changes the values of one message at most.
<1>5. ASSUME NEW m \in Messages, \A x \in Messages \ {m} : Same(x)
      PROVE  /\ decided' = [decided EXCEPT ![m] = decidedOf(m)']
             /\ logged' = [logged EXCEPT ![m] = LogOf(EventsOf(m)')]
             /\ left' = [left EXCEPT ![m] = LeftOf(Copies(m)')]
             /\ decided[m] = decidedOf(m) /\ logged[m] = LogOf(EventsOf(m))
             /\ left[m] = LeftOf(Copies(m))
             /\ LogOf(EventsOf(m)') = LogOf(EventsOf(m)) => UNCHANGED logged
             /\ LeftOf(Copies(m)') = LeftOf(Copies(m)) => UNCHANGED left
             /\ decidedOf(m)' = decidedOf(m) => UNCHANGED decided
  BY <1>5 DEF Same
<1>6. ASSUME \A x \in Messages : Same(x) PROVE UNCHANGED Promise!vars
  BY <1>1, <1>6 DEF Same
<1>7. ASSUME NEW d \in Dirs, Busy(d)
      PROVE  \E m \in Messages : m = <<d, held[d]>> /\ InHand(m) /\ m[1] = d /\ m[2] = held[d]
  <2>1. <<d, held[d]>> \in Messages /\ InHand(<<d, held[d]>>)
    BY <1>7 DEF HeldInv, Busy, NamesOf, Messages, InHand, Dirs
  <2> QED
    BY <2>1
<1> HIDE DEF decided, logged, left
<1>8. ASSUME NEW d \in Dirs, Scan(d) PROVE Promise!Next
  <2>1. /\ Head(Source(d)) \in Elements(Source(d))
        /\ held'[d] = Head(Source(d)) /\ verdict'[d] \in Actions /\ at'[d] \in {"log", "mutex"}
        /\ UNCHANGED <<audit, childIn, childGot, clientOut>>
    BY <1>8, PipesStep DEF Scan, GoTo, FirstPlace, TypeOK, childVars, MessagesInv
  <2>2. PICK m \in Messages : m = <<d, Head(Source(d))>> /\ m[1] = d /\ m[2] = Head(Source(d))
    <3>1. Head(Source(d)) \in NamesOf(d)
      BY <1>8, ElementsTail DEF Scan, Source, Decodes, NamesOf, Dirs, TypeOK
    <3>2. <<d, Head(Source(d))>> \in Messages
      BY <3>1 DEF NamesOf, Messages, Dirs
    <3> QED
      BY <3>2
  <2>3. \A x \in Messages : EventsOf(x)' = EventsOf(x) /\ Copies(x)' = Copies(x)
    BY <2>1, EventsKept, CopiesKept
  <2>4. \A x \in Messages \ {m} : Same(x)
    <3>1. \A e \in Dirs : Scan(e) => e = d
      BY <1>8, ScanIsOne
    <3>2. \A x \in Messages \ {m} : ~(Scan(x[1]) /\ x[2] = Head(Source(x[1])))
      BY <2>2, <3>1, MessageParts
    <3> QED
      BY <2>3, <3>2, DecisionKept
  <2>5. EventsOf(m) = {} /\ Copies(m) = {} /\ ~InHand(m)
    BY <2>1, <2>2 DEF MessagesInv, FreshInv
  <2>6. InHand(m)'
    BY <2>1, <2>2 DEF InHand
  <2>7. decidedOf(m) = "none" /\ decidedOf(m)' = verdict'[d]
    BY <2>2, <2>3, <2>5, <2>6, DecidedIs
  <2>8. /\ decided[m] = "none" /\ decided' = [decided EXCEPT ![m] = verdict'[d]]
        /\ UNCHANGED <<logged, left>>
    BY <1>5, <2>2, <2>3, <2>4, <2>7
  <2> QED
    BY <1>2, <2>1, <2>2, <2>8
<1>9. ASSUME NEW d \in Dirs, LogEvent(d) PROVE Promise!Next
  <2>1. at[d] = "log" /\ UNCHANGED <<childIn, childGot, clientOut>>
        /\ at' = [at EXCEPT ![d] = AfterLog(d)]
    BY <1>9 DEF LogEvent, GoTo, childVars
  <2>2. PICK m \in Messages : m = <<d, held[d]>> /\ InHand(m) /\ m[1] = d /\ m[2] = held[d]
    BY <1>7, <2>1 DEF Busy
  <2>3. \A x \in Messages : Copies(x)' = Copies(x) /\ (x # m => EventsOf(x)' = EventsOf(x))
    BY <1>9, <2>1, <2>2, CopiesKept, EventsLogged
  <2>4. \A x \in Messages \ {m} : Same(x)
    <3>1. \A e \in Dirs : ~Scan(e)
      BY <2>1, ScanIsOne DEF TypeOK
    <3> QED
      BY <2>3, <3>1, DecisionKept, MessageParts
  <2>5. EventsOf(m) = {} /\ EventsOf(m)' = {EventFor(m, verdict[d])}
    <3>1. EventsOf(m) = {}
      BY <2>1, <2>2 DEF MessagesInv, InHandInv, Logged
    <3> QED
      BY <1>9, <2>2, <3>1, EventsLogged
  <2>6. decidedOf(m) = verdict[d] /\ decidedOf(m)' = verdict[d] /\ verdict[d] # "none"
    BY <2>2, <2>5, DecidedIs DEF TypeOK, Actions
  <2>7. LogOf(EventsOf(m)) = "none" /\ LogOf(EventsOf(m)') = verdict[d]
    BY <2>5, ValuesOf
  <2>8. /\ decided[m] = verdict[d] /\ logged[m] = "none" /\ UNCHANGED <<decided, left>>
        /\ logged' = [logged EXCEPT ![m] = verdict[d]]
    BY <1>5, <2>2, <2>3, <2>4, <2>6, <2>7
  <2> QED
    BY <1>3, <2>2, <2>6, <2>8
\* What leaves is what the decision lets out.
<1>10. ASSUME NEW d \in Dirs, NEW m \in Messages, InHand(m), m[1] = d, m[2] = held[d],
              UNCHANGED audit, \A e \in Dirs : ~Scan(e), decidedOf(m)' = decidedOf(m),
              Copies(m) = {}, NEW o, Copies(m)' = {o}, Allowed(m, verdict[d]) = {o},
              \A x \in Messages : x # m => Copies(x)' = Copies(x)
       PROVE  Promise!Next
  <2>1. m \in Messages /\ InHand(m) /\ m[1] = d /\ m[2] = held[d]
    BY <1>10
  <2>2. \A x \in Messages : EventsOf(x)' = EventsOf(x)
    BY <1>10, EventsKept
  <2>3. \A x \in Messages \ {m} : Same(x)
    BY <1>10, <2>2, DecisionKept, MessageParts
  <2>4. EventsOf(m) = {} \/ EventsOf(m) = {EventFor(m, verdict[d])}
    BY <2>1 DEF MessagesInv, InHandInv, Logged
  <2>5. decidedOf(m) = verdict[d]
    BY <2>1, <2>4, DecidedIs
  <2>7. verdict[d] # "none" /\ o \in Promise!Outcome(m, verdict[d])
    <3>1. verdict[d] \in Actions
      BY DEF TypeOK
    <3>2. verdict[d] = "deny" => o = "refusal" /\ m \in {"in"} \X Requests
      BY <1>10, <2>1, MessageParts DEF Allowed, Refuses
    <3>3. verdict[d] # "deny" =>
            o = IF verdict[d] = "redact" /\ m[2] \in Redactable THEN "redacted" ELSE "raw"
      BY <1>10, <2>1 DEF Allowed, FormOf
    <3> QED
      BY <2>1, <3>1, <3>2, <3>3 DEF Promise!Outcome, Actions
  <2>8. LeftOf(Copies(m)) = "none" /\ LeftOf(Copies(m)') = o
    BY <1>10, ValuesOf
  <2>9. /\ decided[m] = verdict[d] /\ left[m] = "none" /\ UNCHANGED <<decided, logged>>
        /\ left' = [left EXCEPT ![m] = o]
    BY <1>5, <1>10, <2>1, <2>2, <2>3, <2>5, <2>8
  <2> QED
    BY <1>4, <2>1, <2>7, <2>9
<1>11. ASSUME NEW d \in Dirs, WriteText(d) PROVE Promise!Next
  <2>1. /\ at[d] = "text" /\ at' = [at EXCEPT ![d] = "newline"] /\ UNCHANGED <<held, verdict, audit>>
        /\ clientOut' = Append(clientOut, ClientChunk(d, "text")) /\ UNCHANGED <<childIn, childGot>>
    BY <1>11 DEF WriteText, GoTo, childVars
  <2>2. PICK m \in Messages : m = <<d, held[d]>> /\ InHand(m) /\ m[1] = d /\ m[2] = held[d]
    BY <1>7, <2>1 DEF Busy
  <2>3. \A e \in Dirs : ~Scan(e)
    BY <2>1, ScanIsOne DEF TypeOK
  <2>4. Copies(m) = {}
    BY <2>1, <2>2 DEF MessagesInv, InHandInv, HasLeft
  <2>5. PICK o : o = IF d = "in" THEN "refusal" ELSE FormOf(m[2], verdict[d])
    OBVIOUS
  <2>6. Copies(m)' = {o} /\ \A x \in Messages : x # m => Copies(x)' = Copies(x)
    <3>1. Busy(d)
      BY <2>1 DEF Busy
    <3> QED
      BY <2>1, <2>2, <2>4, <2>5, <3>1, CopiesWritten
  <2>7. Allowed(m, verdict[d]) = {o}
    BY <2>1, <2>2, <2>5 DEF Allowed, HeldInv, Refuses, Dirs
  <2>8. decidedOf(m)' = decidedOf(m)
    <3>1. InHand(m)' /\ EventsOf(m)' = EventsOf(m)
      BY <2>1, <2>2, EventsKept DEF InHand, TypeOK
    <3> QED
      BY <2>1, <3>1, <2>2 DEF decidedOf
  <2> QED
    BY <1>10, <2>1, <2>2, <2>3, <2>4, <2>6, <2>7, <2>8
<1>12. ASSUME Forward PROVE Promise!Next
  <2>1. /\ at["in"] = "write" /\ at' = [at EXCEPT !["in"] = "scan"]
        /\ UNCHANGED <<held, verdict, audit>> /\ "in" \in Dirs
    BY <1>12 DEF Forward, GoTo, Dirs
  <2>2. PICK m \in Messages : m = <<"in", held["in"]>> /\ InHand(m) /\ m[1] = "in" /\ m[2] = held["in"]
    BY <1>7, <2>1 DEF Busy
  <2>3. \A e \in Dirs : ~Scan(e)
    <3>1. \A e \in Dirs \ {"in"} : at'[e] = at[e]
      BY <2>1 DEF TypeOK
    <3> QED
      BY <2>1, <3>1, ScanIsOne
  <2>4. Copies(m) = {} /\ EventsOf(m) = {EventFor(m, verdict["in"])}
    BY <2>1, <2>2 DEF MessagesInv, InHandInv, HasLeft, Logged
  <2>5. PICK o : o = FormOf(m[2], verdict["in"])
    OBVIOUS
  <2>6. Copies(m)' = {o} /\ \A x \in Messages : x # m => Copies(x)' = Copies(x)
    BY <1>12, <2>2, <2>4, <2>5, CopiesForwarded
  <2>7. Allowed(m, verdict["in"]) = {o}
    BY <2>1, <2>2, <2>5 DEF Allowed, HeldInv
  <2>8. decidedOf(m)' = decidedOf(m)
    <3>1. EventsOf(m)' = EventsOf(m)
      BY <2>1, EventsKept
    <3> QED
      BY <2>4, <3>1, DecidedIs
  <2> QED
    BY <1>10, <2>1, <2>2, <2>3, <2>4, <2>6, <2>7, <2>8
<1>13. ASSUME \A m \in Messages : EventsOf(m)' = EventsOf(m) /\ Copies(m)' = Copies(m)
       PROVE  [Promise!Next]_(Promise!vars)
  <2>1. CASE ~\E d \in Dirs : Scan(d)
    BY <1>6, <1>13, <2>1, DecisionKept, MessageParts
  <2> QED
    BY <1>8, <2>1
<1>14. CASE ~\E d \in Dirs : Scan(d) \/ LogEvent(d) \/ WriteText(d) \/ (d = "in" /\ Forward)
  <2>1. UNCHANGED audit
    BY <1>14 DEF Next, RelayStep, ScanEnds, EndRelay, LockClient, EnterClientWrite, WriteNewline,
       ForwardFails, ClientWriteFails, WaitReturns, Join, ClientSend, ClientCloses, ClientEnds,
       ChildTake, ChildReplies,
       ChildSpeaks, ChildSays, ChildExits, ChildCrashes, ChildGone, vars
  <2>2. \/ ChildTake \/ UNCHANGED <<childIn, childGot, clientOut>>
        \/ \E d \in Dirs : WriteNewline(d)
    BY <1>14 DEF Next, RelayStep, ScanEnds, EndRelay, LockClient, EnterClientWrite,
       ForwardFails, ClientWriteFails, WaitReturns, Join, ClientSend, ClientCloses, ClientEnds,
       ChildReplies,
       ChildSpeaks, ChildSays, ChildExits, ChildCrashes, ChildGone, vars, childVars
  <2>3. ASSUME NEW d \in Dirs, WriteNewline(d), NEW m \in Messages PROVE Copies(m)' = Copies(m)
    <3>1. Busy(d) /\ clientOut' = Append(clientOut, ClientChunk(d, "newline"))
          /\ UNCHANGED <<childIn, childGot>>
      BY <2>3 DEF WriteNewline, childVars, Busy
    <3> QED
      BY <3>1, CopiesWritten
  <2>4. \A m \in Messages : EventsOf(m)' = EventsOf(m) /\ Copies(m)' = Copies(m)
    BY <2>1, <2>2, <2>3, EventsKept, CopiesKept, CopiesTaken
  <2> QED
    BY <1>13, <2>4
<1> QED
  BY <1>8, <1>9, <1>11, <1>12, <1>14

\* `wrap` keeps the gateway's promise for every message, whatever the interleaving of its
\* relays: one decision, logged as taken, and nothing leaves but what was decided
\* (stdio.go:140-204).
THEOREM RelaysEnforce == Spec => IsEnforcement
<1>1. MessagesInv /\ Init => Promise!Init
  <2> SUFFICES ASSUME MessagesInv, Init PROVE Promise!Init
    OBVIOUS
  <2>1. ASSUME NEW m \in Messages PROVE EventsOf(m) = {} /\ Copies(m) = {} /\ ~InHand(m)
    <3>1. m[2] \notin Elements(Said(m[1]))
      BY ElementsOfEmpty DEF Init, Said
    <3> QED
      BY <2>1, <3>1 DEF MessagesInv, FreshInv
  <2>2. ASSUME NEW m \in Messages
        PROVE  /\ TheOnly({e.action : e \in EventsOf(m)},
                          IF InHand(m) THEN verdict[m[1]] ELSE "none") = "none"
               /\ TheOnly({e.action : e \in EventsOf(m)}, "none") = "none"
               /\ TheOnly(Copies(m), "none") = "none"
    BY <2>1, <2>2, OnlyValues
  <2> QED
    BY <2>2 DEF Promise!Init
<1> QED
  BY <1>1, PromiseStep, MessagesInit, MessagesAgree, TypeCorrect, PTL
     DEF Spec, IsEnforcement, Promise!Spec
===============================================================================
