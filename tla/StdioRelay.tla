------------------------------ MODULE StdioRelay ------------------------------
(***************************************************************************)
(* `dvarapala wrap` (src/internal/proxy/stdio.go): RunStdio starts the MCP *)
(* server as a child process and runs two relay goroutines, "in" from the  *)
(* client's stdin to the child's and "out" from the child's stdout to the  *)
(* client's, while the main goroutine waits for the child and then for     *)
(* both.  A relay reads a line, asks the policy engine, and forwards,      *)
(* redacts or drops it; the "in" relay answers a denied request itself, on *)
(* the client's stdout that it shares with "out" under clientMu.           *)
(*                                                                         *)
(* A message is its name: in the "out" direction the name of a request     *)
(* stands for the reply to it.  The engine's verdict is any action, since  *)
(* the policy can be reloaded between any two messages; log_only, which    *)
(* forwards as allow does, is not told apart from it.                      *)
(***************************************************************************)
EXTENDS Naturals, Sequences

CONSTANTS
  Requests,     \* the requests the client sends
  ClientNotes,  \* its messages that expect no answer (notifications, responses)
  ServerNotes,  \* what the child sends of its own accord
  Redactable,   \* what redaction can decode: not a number beyond a float64
  Broken,       \* a line that is not JSON-RPC
  MayBreak,     \* the directions in which such a line may come
  MayCrash,     \* may the child die at any moment, or be interrupted
  PipeCap       \* lines a pipe holds before a writer blocks

ASSUME NamesAssumption ==
  /\ Requests \cap ClientNotes = {} /\ Requests \cap ServerNotes = {}
  /\ Broken \notin Requests \cup ClientNotes \cup ServerNotes
ASSUME RedactableAssumption == Redactable \subseteq Requests \cup ClientNotes \cup ServerNotes
ASSUME MayBreakAssumption == MayBreak \subseteq {"in", "out"}
ASSUME MayCrashAssumption == MayCrash \in BOOLEAN
ASSUME PipeCapAssumption == PipeCap \in Nat \ {0}

VARIABLES
  sent,         \* what the client has written, in order
  stdin,        \* the lines of it in the pipe to the gateway
  stdinOpen,    \* has the client not closed its end
  childIn,      \* copies in the pipe to the child
  childInOpen,  \* has the gateway not closed its end
  childGot,     \* the copies the child has read, in order
  childUp,      \* is the child running
  said,         \* what the child has written, in order
  childOut,     \* the lines of it in the pipe to the gateway
  childOutOpen, \* has the gateway not closed its end
  clientReads,  \* has the client not closed its end of the gateway's stdout
  clientOut,    \* every chunk written to the client's stdout, in order
  clientMu,     \* the relay holding clientMu, or "free"
  at,           \* where each relay is
  held,         \* the message it is working on
  verdict,      \* the engine's decision about it
  audit,        \* the events written to the audit log, in order
  main          \* where RunStdio itself is

clientVars == <<sent, stdinOpen, clientReads>>
childVars  == <<childUp, childGot, said>>
relayVars  == <<at, held, verdict>>
vars == <<clientVars, childVars, relayVars, stdin, childIn, childInOpen, childOut,
          childOutOpen, clientOut, clientMu, audit, main>>

Dirs == {"in", "out"}
Other(d) == IF d = "in" THEN "out" ELSE "in"
InNames  == Requests \cup ClientNotes
OutNames == Requests \cup ServerNotes
Names    == InNames \cup OutNames
Actions  == {"allow", "redact", "deny"}
Forms    == {"raw", "redacted"}

Copy  == [name : Names, form : Forms]
Chunk == [part : {"text", "newline"}, what : {"refusal", "message"},
          name : Names, form : Forms]
Event == [dir : Dirs, name : Names, action : Actions, form : Forms]
Places == {"scan", "mutex", "text", "newline", "log", "write"}
\* A relay has ended at the end of its input, or on a write to the client that
\* failed: of the text of a message, or of its newline.
Ended == {"end", "unsent", "cut"}

Init ==
  /\ sent = << >> /\ stdin = << >> /\ stdinOpen = TRUE
  /\ childIn = << >> /\ childInOpen = TRUE /\ childGot = << >>
  /\ childUp = TRUE /\ said = << >> /\ childOut = << >> /\ childOutOpen = TRUE
  /\ clientReads = TRUE /\ clientOut = << >> /\ clientMu = "free"
  /\ at = [d \in Dirs |-> "scan"]
  /\ held = [d \in Dirs |-> Broken]
  /\ verdict = [d \in Dirs |-> "allow"]
  /\ audit = << >> /\ main = "wait"

-------------------------------------------------------------------------------
\* The relay goroutines.

Source(d) == IF d = "in" THEN stdin ELSE childOut
AtEOF(d) == IF d = "in" THEN stdin = << >> /\ ~stdinOpen
            ELSE (childOut = << >> /\ ~childUp) \/ ~childOutOpen

\* Only a denied request of the client is answered; any other denied message
\* is dropped.
Refuses(d, name, action) == action = "deny" /\ d = "in" /\ name \in Requests

\* A refusal goes out before it is audited, everything else is audited first.
DropUnlogged(d, name, action) ==
  IF Refuses(d, name, action) THEN "mutex" ELSE IF action = "deny" THEN "scan" ELSE "log"
FirstPlace(d, name, action) == IF Refuses(d, name, action) THEN "mutex" ELSE "log"
ForwardAnyway(d) == IF d = "out" THEN "mutex" ELSE "write"
AfterLog(d) == IF verdict[d] = "deny" THEN "scan"
               ELSE IF d = "out" THEN "mutex" ELSE "write"
ContinueAtOnce(d) == "scan"
AfterNewline(d) == IF d = "in" THEN "log" ELSE "scan"

GoTo(d, place) == at' = [at EXCEPT ![d] = place]

\* A denied message is audited as it came; so is one that applyRedaction cannot
\* decode, which is then forwarded like that.
AuditRaw(name, action) == "raw"
FormOf(name, action) ==
  IF action = "redact" /\ name \in Redactable THEN "redacted" ELSE "raw"

AnyLine(line) == TRUE
Decodes(line) == line # Broken

\* Scan returns a line and the engine decides about it.  The scanner's buffer
\* may hold lines of a pipe that has been closed since.
Scan(d) ==
  /\ at[d] = "scan" /\ Source(d) # << >> /\ Decodes(Head(Source(d)))
  /\ IF d = "in" THEN stdin' = Tail(stdin) /\ UNCHANGED childOut
                 ELSE childOut' = Tail(childOut) /\ UNCHANGED stdin
  /\ held' = [held EXCEPT ![d] = Head(Source(d))]
  /\ \E a \in Actions :
       /\ verdict' = [verdict EXCEPT ![d] = a]
       /\ GoTo(d, FirstPlace(d, Head(Source(d)), a))
  /\ UNCHANGED <<clientVars, childVars, childIn, childInOpen, childOutOpen, clientOut,
                 clientMu, audit, main>>

\* A relay ends at end of file, on a line it cannot decode, when its pipe was
\* closed under it, or when it cannot write; it gives clientMu back, and the "in"
\* relay closes the child's stdin.
NoDefer(d) == childInOpen
DeferredClose(d) == childInOpen /\ d # "in"

EndRelay(d, how) ==
  /\ GoTo(d, how)
  /\ childInOpen' = DeferredClose(d)
  /\ clientMu' = IF clientMu = d THEN "free" ELSE clientMu
  /\ UNCHANGED <<clientVars, childVars, stdin, childIn, childOut, childOutOpen,
                 clientOut, held, verdict, audit, main>>

ScanEnds(d) ==
  /\ at[d] = "scan"
  /\ AtEOF(d) \/ (Source(d) # << >> /\ ~Decodes(Head(Source(d))))
  /\ EndRelay(d, "end")

LogEvent(d) ==
  /\ at[d] = "log"
  /\ audit' = Append(audit, [dir |-> d, name |-> held[d], action |-> verdict[d],
                             form |-> FormOf(held[d], verdict[d])])
  /\ GoTo(d, AfterLog(d))
  /\ UNCHANGED <<clientVars, childVars, stdin, childIn, childInOpen, childOut,
                 childOutOpen, clientOut, clientMu, held, verdict, main>>

\* The write to the child blocks while the pipe is full and fails once the
\* child is gone or Wait has closed the pipe; the error ends the relay.
Forward ==
  /\ at["in"] = "write" /\ childUp /\ childInOpen /\ Len(childIn) < PipeCap
  /\ childIn' = Append(childIn, [name |-> held["in"], form |-> FormOf(held["in"], verdict["in"])])
  /\ GoTo("in", "scan")
  /\ UNCHANGED <<clientVars, childVars, stdin, childInOpen, childOut, childOutOpen,
                 clientOut, clientMu, held, verdict, audit, main>>

ForwardFails ==
  /\ at["in"] = "write" /\ ~(childUp /\ childInOpen)
  /\ EndRelay("in", "end")

\* A write to the client, by either relay: clientMu, the text, the newline.
EnterClientWrite(d) ==
  /\ at[d] = "mutex"
  /\ clientMu' = d
  /\ GoTo(d, "text")
  /\ UNCHANGED <<clientVars, childVars, stdin, childIn, childInOpen, childOut,
                 childOutOpen, clientOut, held, verdict, audit, main>>

LockClient(d) == clientMu = "free" /\ EnterClientWrite(d)

ClientChunk(d, part) ==
  [part |-> part, what |-> IF d = "in" THEN "refusal" ELSE "message",
   name |-> held[d], form |-> FormOf(held[d], verdict[d])]

WriteText(d) ==
  /\ at[d] = "text" /\ clientReads
  /\ clientOut' = Append(clientOut, ClientChunk(d, "text"))
  /\ GoTo(d, "newline")
  /\ UNCHANGED <<clientVars, childVars, stdin, childIn, childInOpen, childOut,
                 childOutOpen, clientMu, held, verdict, audit, main>>

WriteNewline(d) ==
  /\ at[d] = "newline" /\ clientReads
  /\ clientOut' = Append(clientOut, ClientChunk(d, "newline"))
  /\ clientMu' = "free"
  /\ GoTo(d, AfterNewline(d))
  /\ UNCHANGED <<clientVars, childVars, stdin, childIn, childInOpen, childOut,
                 childOutOpen, held, verdict, audit, main>>

\* Once the client is gone each write fails.  A refusal that could not be written
\* has no event, a message that could not be forwarded has had its own.
ClientWriteFails(d) ==
  /\ ~clientReads
  /\ \/ at[d] = "text" /\ EndRelay(d, "unsent")
     \/ at[d] = "newline" /\ EndRelay(d, "cut")

-------------------------------------------------------------------------------
\* RunStdio.

\* cmd.Wait returns when the child has exited and closes the gateway's ends of
\* both pipes, whether or not the "out" relay has read what is left in one.
WaitReturns ==
  /\ main = "wait" /\ ~childUp
  /\ main' = "join"
  /\ childInOpen' = FALSE /\ childOutOpen' = FALSE
  /\ UNCHANGED <<clientVars, childVars, relayVars, stdin, childIn, childOut, clientOut,
                 clientMu, audit>>

\* wg.Wait: both relays have ended.
Join ==
  /\ main = "join" /\ \A d \in Dirs : at[d] \in Ended
  /\ main' = "returned"
  /\ UNCHANGED <<clientVars, childVars, relayVars, stdin, childIn, childInOpen, childOut,
                 childOutOpen, clientOut, clientMu, audit>>

-------------------------------------------------------------------------------
\* The client and the child.

Elements(s) == {s[i] : i \in 1..Len(s)}

ClientSend ==
  /\ stdinOpen /\ Len(stdin) < PipeCap
  /\ \E m \in InNames \cup (IF "in" \in MayBreak THEN {Broken} ELSE {}) :
       /\ m \notin Elements(sent)
       /\ sent' = Append(sent, m)
       /\ stdin' = Append(stdin, m)
  /\ UNCHANGED <<stdinOpen, clientReads, childVars, relayVars, childIn, childInOpen, childOut,
                 childOutOpen, clientOut, clientMu, audit, main>>

ClientCloses ==
  /\ stdinOpen
  /\ stdinOpen' = FALSE
  /\ UNCHANGED <<sent, clientReads, childVars, relayVars, stdin, childIn, childInOpen, childOut,
                 childOutOpen, clientOut, clientMu, audit, main>>

ClientEnds ==
  /\ clientReads
  /\ stdinOpen' = FALSE /\ clientReads' = FALSE
  /\ UNCHANGED <<sent, childVars, relayVars, stdin, childIn, childInOpen, childOut,
                 childOutOpen, clientOut, clientMu, audit, main>>

ChildTake ==
  /\ childUp /\ childIn # << >>
  /\ childGot' = Append(childGot, Head(childIn))
  /\ childIn' = Tail(childIn)
  /\ UNCHANGED <<clientVars, relayVars, stdin, childUp, said, childInOpen, childOut,
                 childOutOpen, clientOut, clientMu, audit, main>>

Asked == {c.name : c \in Elements(childGot)} \cap Requests

\* It answers what it was asked, once and in any order, or speaks by itself.
ChildSays(m) ==
  /\ childUp /\ Len(childOut) < PipeCap /\ m \notin Elements(said)
  /\ said' = Append(said, m)
  /\ childOut' = Append(childOut, m)
  /\ UNCHANGED <<clientVars, relayVars, stdin, childIn, childUp, childGot, childInOpen,
                 childOutOpen, clientOut, clientMu, audit, main>>

ChildReplies == \E m \in Asked : ChildSays(m)
ChildSpeaks ==
  \E m \in ServerNotes \cup (IF "out" \in MayBreak THEN {Broken} ELSE {}) : ChildSays(m)

ChildGone ==
  /\ childUp /\ childUp' = FALSE
  /\ UNCHANGED <<clientVars, relayVars, stdin, childIn, childGot, said, childInOpen,
                 childOut, childOutOpen, clientOut, clientMu, audit, main>>

\* It exits at the end of its stdin once it has answered everything.
ChildExits ==
  /\ childIn = << >> /\ ~childInOpen /\ Asked \subseteq Elements(said)
  /\ ChildGone

\* It crashes, or the context ends: it is then interrupted, and killed after 5 s.
ChildCrashes == MayCrash /\ ChildGone

-------------------------------------------------------------------------------
RelayStep(d) ==
  \/ Scan(d) \/ ScanEnds(d) \/ LogEvent(d)
  \/ LockClient(d) \/ WriteText(d) \/ WriteNewline(d) \/ ClientWriteFails(d)
  \/ d = "in" /\ (Forward \/ ForwardFails)

Next ==
  \/ \E d \in Dirs : RelayStep(d)
  \/ WaitReturns \/ Join
  \/ ClientSend \/ ClientCloses \/ ClientEnds
  \/ ChildTake \/ ChildReplies \/ ChildSpeaks \/ ChildExits \/ ChildCrashes

Spec == Init /\ [][Next]_vars

\* The goroutines are scheduled, and the child reads, answers, and exits when
\* there is nothing left to do.
FairSpec ==
  /\ Spec
  /\ \A d \in Dirs : WF_vars(RelayStep(d))
  /\ WF_vars(WaitReturns) /\ WF_vars(Join)
  /\ WF_vars(ChildTake) /\ WF_vars(ChildReplies) /\ WF_vars(ChildExits)

-------------------------------------------------------------------------------
TypeOK ==
  /\ sent \in Seq(InNames \cup {Broken}) /\ stdin \in Seq(InNames \cup {Broken})
  /\ said \in Seq(OutNames \cup {Broken}) /\ childOut \in Seq(OutNames \cup {Broken})
  /\ childIn \in Seq(Copy) /\ childGot \in Seq(Copy)
  /\ stdinOpen \in BOOLEAN /\ childInOpen \in BOOLEAN /\ childOutOpen \in BOOLEAN
  /\ childUp \in BOOLEAN /\ clientReads \in BOOLEAN
  /\ clientOut \in Seq(Chunk) /\ clientMu \in Dirs \cup {"free"}
  /\ at \in [Dirs -> Places \cup Ended] /\ held \in [Dirs -> Names \cup {Broken}]
  /\ verdict \in [Dirs -> Actions]
  /\ audit \in Seq(Event) /\ main \in {"wait", "join", "returned"}

Messages == ({"in"} \X InNames) \cup ({"out"} \X OutNames)
EventsOf(m) == {e \in Elements(audit) : e.dir = m[1] /\ e.name = m[2]}
InHand(m) == at[m[1]] \notin {"scan", "end"} /\ held[m[1]] = m[2]

\* Everything that has gone out on account of a message.
Copies(m) ==
  LET texts == {k \in Elements(clientOut) : k.part = "text" /\ k.name = m[2]}
  IN  IF m[1] = "in"
      THEN {c.form : c \in {k \in Elements(childIn \o childGot) : k.name = m[2]}}
             \cup {"refusal" : k \in {t \in texts : t.what = "refusal"}}
      ELSE {k.form : k \in {t \in texts : t.what = "message"}}

\* Both relays together, whatever the interleaving, keep the promise of the
\* gateway for every message: one decision, logged as taken, and nothing leaves
\* but what was decided (architecture.md:29-33, relay of stdio.go:140-204).
TheOnly(set, default) == IF set = {} THEN default ELSE CHOOSE x \in set : TRUE
Promise == INSTANCE Enforcement WITH
  Refusable <- {"in"} \X Requests,
  Droppable <- Messages,
  Rewritable <- {m \in Messages : m[2] \in Redactable},
  decided <- [m \in Messages |->
    TheOnly({e.action : e \in EventsOf(m)}, IF InHand(m) THEN verdict[m[1]] ELSE "none")],
  logged <- [m \in Messages |-> TheOnly({e.action : e \in EventsOf(m)}, "none")],
  left <- [m \in Messages |-> TheOnly(Copies(m), "none")]
IsEnforcement == Promise!Spec

\* Every message has at most one event and one outcome.  What was forwarded
\* is in the log, in the form in which it was forwarded, before it leaves.  A
\* refusal has its event afterwards, and has none if the relay ended on a
\* failing write of it (stdio.go:167-169).
AuditTrail ==
  /\ \A i, j \in 1..Len(audit) :
       audit[i].dir = audit[j].dir /\ audit[i].name = audit[j].name => i = j
  /\ \A m \in Messages : \A f \in Copies(m) :
       /\ Copies(m) = {f}
       /\ IF f = "refusal" THEN InHand(m) \/ \E e \in EventsOf(m) : e.action = "deny"
          ELSE \E e \in EventsOf(m) : e.action # "deny" /\ e.form = f

\* A request of the client is answered at most once, by the gateway or by the
\* child: the refusal of one goroutine excludes a reply through the other.
AnsweredOnce ==
  \A i, j \in 1..Len(clientOut) :
    (/\ clientOut[i].part = "text" /\ clientOut[j].part = "text"
     /\ clientOut[i].name = clientOut[j].name) => i = j

\* Refusals do not interleave with replies on the client's stdout (comment at
\* stdio.go:98-99): each text is followed by its own newline.
ClientLinesIntact ==
  \A i \in 1..Len(clientOut) - 1 :
    clientOut[i].part = "text" => clientOut[i+1] = [clientOut[i] EXCEPT !.part = "newline"]

\* When the "in" relay has come to the end of a client that spoke JSON-RPC to a
\* child that is still running, no message of that client is missing in the log.
\* A relay that ended on a failing write of a refusal has not come to that end:
\* the refused request is then not in the log (stdio.go:167-169).
ClientFullyAudited ==
  (at["in"] = "end" /\ ~stdinOpen /\ childUp /\ Broken \notin Elements(sent)) =>
    \A i \in 1..Len(sent) : EventsOf(<<"in", sent[i]>>) # {}

\* Once the client closes its end, RunStdio returns: no relay is left behind,
\* blocked on clientMu, on a pipe, or on the other one.  A child is not read any
\* more once it broke the protocol or the client stopped reading, and may stay
\* blocked in a write for ever.
ReturnsAfterEOF ==
  ~stdinOpen ~> (main = "returned" \/ ~clientReads \/ Broken \in Elements(said))

\* What the child says is audited while it runs and the client reads, as long as
\* it is JSON-RPC.
ChildIsHeard ==
  \A m \in OutNames :
    m \in Elements(said) ~>
      (EventsOf(<<"out", m>>) # {} \/ ~childUp \/ ~clientReads \/ Broken \in Elements(said))

\* "client missed responses" (stdio_test.go:170-171): when RunStdio returns, a
\* client that still reads has every reply of the child that no policy denied.
RepliesReachClient ==
  main = "returned" /\ clientReads =>
    \A m \in {"out"} \X (Requests \cap Elements(said)) :
      Copies(m) # {} \/ \E e \in EventsOf(m) : e.action = "deny"
===============================================================================
