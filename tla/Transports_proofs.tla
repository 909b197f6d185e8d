--------------------------- MODULE Transports_proofs ---------------------------
(***************************************************************************)
(* Proofs about Transports, for any exchanges of both gateways, any        *)
(* messages, verdicts, answers and streams, and timeouts and lost          *)
(* connections anywhere: what is decided about a message, what is in the   *)
(* log and what has gone out agree, whichever handlers run side by side;   *)
(* and about AuditView: `dvarapala logs` names the responses of that log   *)
(* as they should be, wherever it begins to read.                          *)
(***************************************************************************)
EXTENDS AuditView, WellFoundedInduction, TLAPS

USE NamesAssumption, GatewayAssumption, GarbageAssumption

-------------------------------------------------------------------------------
(* Types.                                                                  *)

\* What a handler can hold: the reply to a GET is only ever named by an error.
Everything == {"in", "out"} \X (Exchanges \cup ServerNotes)
Places == {"idle", "log", "refuse", "forward", "relay", "write", "done"}
Logs == {Event(m, a) : m \in Messages, a \in Actions}
Kinds == {"502", "204", "refusal", "message", "piece", "empty"}
Chunk == [what : Kinds, msg : Everything, form : {"none", "raw", "redacted"}]

TypeOK ==
  /\ at \in [Exchanges -> Places] /\ held \in [Exchanges -> Everything]
  /\ verdict \in [Exchanges -> Actions]
  /\ delivered \subseteq Posts /\ spoken \subseteq Messages
  /\ shape \in [Exchanges -> {"none", "json", "sse"}]
  /\ ending \in [Exchanges -> {"open", "eof", "cut"}]
  /\ body \in [Exchanges -> Seq(Frame)]
  /\ response \in [Exchanges -> Seq(Chunk)]
  /\ audit \in Seq(Logs)

\* What the handler of x may be given by its upstream.
Carries(x, m) ==
  \/ x \in Posts /\ m = Reply(x)
  \/ m[1] = "out" /\ m[2] \in ServerNotes /\ Gateway[x] = "proxy"

\* A handler that logs, refuses, forwards or writes has a message that decodes, and
\* one of its own.
HandOf(x) ==
  /\ at[x] \in {"refuse", "forward"} => x \in Posts
  /\ at[x] = "refuse" => held[x] = <<"in", x>> /\ verdict[x] = "deny"
  /\ at[x] = "forward" /\ Evaluated(<<"in", x>>) =>
       held[x] = <<"in", x>> /\ verdict[x] # "deny"
  /\ at[x] \in {"log", "refuse", "write"} => held[x] \in Governed
  /\ at[x] = "write" => held[x][1] = "out"
  /\ at[x] \in {"log", "write"} =>
       IF held[x][1] = "in" THEN x \in Posts /\ held[x] = <<"in", x>>
                            ELSE held[x] \in spoken /\ Carries(x, held[x])

HandInv == \A x \in Exchanges : HandOf(x)

LEMMA MessageParts ==
  ASSUME NEW m \in Messages
  PROVE  /\ m = <<m[1], m[2]>> /\ m \in Everything
         /\ \/ m[1] = "in" /\ m[2] \in Posts
            \/ m[1] = "out" /\ m[2] \in Names
  BY DEF Messages, Everything, Exchanges, Names

LEMMA PostMessages ==
  ASSUME NEW p \in Posts
  PROVE  /\ <<"in", p>> \in Messages /\ Reply(p) \in Messages /\ p \in Exchanges
         /\ <<"in", p>> # Reply(p)
  BY DEF Messages, Reply, Exchanges, Names

LEMMA CarriedIsMessage ==
  ASSUME NEW x \in Exchanges, NEW m \in Messages, Carries(x, m)
  PROVE  m[1] = "out" /\ x \in Ways(m)
<1>1. CASE x \in Posts /\ m = Reply(x)
  BY <1>1 DEF Reply, Ways
<1>2. CASE m[1] = "out" /\ m[2] \in ServerNotes
  <2>1. m[2] \notin Posts BY <1>2 DEF Exchanges
  <2> QED BY <1>2, <2>1 DEF Ways
<1> QED BY <1>1, <1>2 DEF Carries

\* The answer to an exchange, also to a GET.
LEMMA ReplyIsNamed == \A x \in Exchanges : Reply(x) \in Everything
  BY DEF Everything, Reply

LEMMA ResponseTypes ==
  ASSUME TypeOK, NEW x \in Exchanges, NEW what \in Kinds, NEW m \in Everything,
         NEW form \in {"none", "raw", "redacted"}, Respond(x, what, m, form)
  PROVE  response' \in [Exchanges -> Seq(Chunk)]
<1>1. [what |-> what, msg |-> m, form |-> form] \in Chunk
  BY DEF Chunk
<1>2. response[x] \in Seq(Chunk)
  BY DEF TypeOK
<1>3. Append(response[x], [what |-> what, msg |-> m, form |-> form]) \in Seq(Chunk)
  BY <1>1, <1>2
<1> QED BY <1>3 DEF TypeOK, Respond

LEMMA DecisionTypes ==
  ASSUME TypeOK, NEW x \in Exchanges, NEW m \in Everything, Decide(x, m)
  PROVE  /\ at' \in [Exchanges -> Places] /\ held' \in [Exchanges -> Everything]
         /\ verdict' \in [Exchanges -> Actions]
<1>1. PICK a \in Actions : verdict' = [verdict EXCEPT ![x] = a]
  BY DEF Decide
<1>2. verdict' \in [Exchanges -> Actions]
  BY <1>1 DEF TypeOK
<1>3. "log" \in Places
  BY DEF Places
<1>4. at' \in [Exchanges -> Places]
  BY <1>3 DEF Decide, GoTo, AfterDecision, TypeOK
<1>5. held' \in [Exchanges -> Everything]
  BY DEF Decide, TypeOK
<1> QED BY <1>2, <1>4, <1>5

\* What comes with a frame.
LEMMA TakenFrame ==
  ASSUME TypeOK, NEW x \in Exchanges, NEW f \in Frame, TakeFrame(x, f)
  PROVE  /\ response' \in [Exchanges -> Seq(Chunk)]
         /\ at' \in [Exchanges -> Places] /\ held' \in [Exchanges -> Everything]
         /\ verdict' \in [Exchanges -> Actions]
<1>1. f.msg \in Messages /\ f.msg \in Everything /\ f.whole \in BOOLEAN
  BY MessageParts DEF Frame
<1>2. CASE f.whole /\ Evaluated(f.msg)
  <2>1. Decide(x, f.msg) /\ UNCHANGED response
    BY <1>2 DEF TakeFrame
  <2> QED BY <1>1, <2>1, DecisionTypes DEF TypeOK
<1>3. CASE ~(f.whole /\ Evaluated(f.msg))
  <2>1. /\ Respond(x, IF f.whole THEN "message" ELSE "piece", f.msg, "raw")
        /\ GoTo(x, IF shape[x] = "sse" THEN "relay" ELSE "done") /\ UNCHANGED <<held, verdict>>
    BY <1>3 DEF TakeFrame
  <2>2. response' \in [Exchanges -> Seq(Chunk)]
    <3>1. (IF f.whole THEN "message" ELSE "piece") \in Kinds BY DEF Kinds
    <3> QED BY <1>1, <2>1, <3>1, ResponseTypes
  <2> QED BY <2>1, <2>2 DEF GoTo, TypeOK, Places
<1> QED BY <1>2, <1>3

LEMMA FirstFrame ==
  ASSUME TypeOK, NEW x \in Exchanges, body[x] # << >>
  PROVE  /\ Head(body[x]) \in Frame /\ Head(body[x]) = body[x][1] /\ Tail(body[x]) \in Seq(Frame)
         /\ Len(body[x]) \in Nat \ {0} /\ Len(Tail(body[x])) = Len(body[x]) - 1
         /\ \A i \in 1..Len(body[x]) - 1 : Tail(body[x])[i] = body[x][i + 1]
<1>1. body[x] \in Seq(Frame)
  BY DEF TypeOK
<1> QED BY <1>1

LEMMA TypeStep == TypeOK /\ HandInv /\ [Next]_vars => TypeOK'
<1> SUFFICES ASSUME TypeOK, HandInv, [Next]_vars PROVE TypeOK'
  OBVIOUS
<1> USE DEF upstreamVars
<1>0. \A x \in Exchanges : at[x] \in Places /\ held[x] \in Everything /\ verdict[x] \in Actions
  BY DEF TypeOK
<1>1. ASSUME NEW x \in Posts, ReceivePost(x) PROVE TypeOK'
  <2>1. <<"in", x>> \in Everything /\ x \in Exchanges
    BY PostMessages, MessageParts
  <2>2. CASE Evaluated(<<"in", x>>)
    <3>1. Decide(x, <<"in", x>>) /\ UNCHANGED <<upstreamVars, response, audit>>
      BY <1>1, <2>2 DEF ReceivePost
    <3> QED BY <2>1, <3>1, DecisionTypes DEF TypeOK
  <2>3. CASE ~Evaluated(<<"in", x>>)
    <3>1. GoTo(x, "forward") /\ UNCHANGED <<held, verdict, upstreamVars, response, audit>>
      BY <1>1, <2>3 DEF ReceivePost
    <3> QED BY <2>1, <3>1 DEF GoTo, TypeOK, Places
  <2> QED BY <2>2, <2>3
<1>2. ASSUME NEW x \in Exchanges, LogEvent(x) PROVE TypeOK'
  <2>1. held[x] \in Messages /\ verdict[x] \in Actions
    BY <1>0, <1>2 DEF LogEvent, HandInv, HandOf, Governed
  <2>2. Event(held[x], verdict[x]) \in Logs
    BY <2>1 DEF Logs
  <2>3. audit' \in Seq(Logs)
    <3> HIDE DEF Logs
    <3> QED BY <1>2, <2>2 DEF LogEvent, TypeOK
  <2>4. at' \in [Exchanges -> Places]
    BY <1>2 DEF LogEvent, GoTo, AfterLog, TypeOK, Places
  <2> QED BY <1>2, <2>3, <2>4 DEF LogEvent, TypeOK
<1>3. ASSUME NEW x \in Exchanges, Refuse(x) PROVE TypeOK'
  <2>1. response' \in [Exchanges -> Seq(Chunk)]
    BY <1>0, <1>3, ResponseTypes DEF Refuse, Kinds
  <2> QED BY <1>3, <2>1 DEF Refuse, GoTo, TypeOK, Places
<1>4. ASSUME NEW x \in Posts, Forward(x) PROVE TypeOK'
  <2>1. x \in Exchanges /\ Reply(x) \in Everything
    BY ReplyIsNamed, PostMessages
  <2>2. CASE Unanswered(x)
    <3>1. response' \in [Exchanges -> Seq(Chunk)]
      BY <1>4, <2>1, <2>2, ResponseTypes DEF Forward, Kinds
    <3> QED BY <1>4, <2>2, <3>1 DEF Forward, GoTo, TypeOK, Places
  <2>3. CASE ~Unanswered(x)
    BY <1>4, <2>3 DEF Forward, GoTo, TypeOK, Places
  <2> QED BY <2>2, <2>3
<1>5. ASSUME NEW x \in Exchanges, Fail(x) PROVE response' \in [Exchanges -> Seq(Chunk)] /\ at' \in [Exchanges -> Places]
  <2>1. response' \in [Exchanges -> Seq(Chunk)]
    BY <1>5, ReplyIsNamed, ResponseTypes DEF Fail, Kinds
  <2> QED BY <1>5, <2>1 DEF Fail, GoTo, TypeOK, Places
<1>6. ASSUME NEW x \in Exchanges, ForwardFails(x) \/ RelayFails(x) PROVE TypeOK'
  <2>1. Fail(x) /\ UNCHANGED <<held, verdict, upstreamVars, audit>>
    BY <1>6 DEF ForwardFails, RelayFails
  <2> QED BY <1>5, <2>1 DEF TypeOK
<1>7. ASSUME NEW x \in Exchanges, OpenStream(x) \/ EndRelay(x) PROVE TypeOK'
  BY <1>7 DEF OpenStream, EndRelay, GoTo, TypeOK, Places
<1>8. ASSUME NEW x \in Exchanges, AnswerJSON(x) PROVE TypeOK'
  <2>1. Reply(x) \in Messages /\ [msg |-> Reply(x), whole |-> TRUE] \in Frame
    BY <1>8, PostMessages DEF AnswerJSON, Frame
  <2>2. body' \in [Exchanges -> Seq(Frame)]
    <3>1. <<[msg |-> Reply(x), whole |-> TRUE]>> \in Seq(Frame) BY <2>1
    <3>2. body' = body \/ body' = [body EXCEPT ![x] = <<[msg |-> Reply(x), whole |-> TRUE]>>]
      BY <1>8 DEF AnswerJSON
    <3> QED BY <3>1, <3>2 DEF TypeOK
  <2>3. spoken' \subseteq Messages
    BY <1>8, <2>1 DEF AnswerJSON, TypeOK
  <2>4. shape' \in [Exchanges -> {"none", "json", "sse"}] /\ ending' \in [Exchanges -> {"open", "eof", "cut"}]
    BY <1>8 DEF AnswerJSON, TypeOK
  <2> QED BY <1>8, <2>2, <2>3, <2>4 DEF AnswerJSON, TypeOK
<1>9. ASSUME NEW x \in Exchanges, SendEvent(x) PROVE TypeOK'
  <2>1. PICK m \in (IF x \in Posts \ Notes THEN {Reply(x)} ELSE {}) \cup ({"out"} \X ServerNotes) :
          spoken' = spoken \cup {m} /\ body' = [body EXCEPT ![x] = Append(@, [msg |-> m, whole |-> TRUE])]
    BY <1>9 DEF SendEvent
  <2>2. m \in Messages
    <3>1. CASE m \in {"out"} \X ServerNotes BY <3>1 DEF Messages, Names
    <3>2. CASE x \in Posts /\ m = Reply(x) BY <3>2, PostMessages
    <3> QED BY <2>1, <3>1, <3>2
  <2>3. [msg |-> m, whole |-> TRUE] \in Frame BY <2>2 DEF Frame
  <2>4. body' \in [Exchanges -> Seq(Frame)]
    BY <2>1, <2>3 DEF TypeOK
  <2> QED BY <1>9, <2>1, <2>2, <2>4 DEF SendEvent, TypeOK
<1>10. ASSUME NEW x \in Exchanges, EndStream(x) PROVE TypeOK'
  BY <1>10 DEF EndStream, TypeOK
<1>11. ASSUME NEW x \in Exchanges, Timeout(x) PROVE TypeOK'
  <2>1. body' \in [Exchanges -> Seq(Frame)]
    <3>1. CASE UNCHANGED body BY <3>1 DEF TypeOK
    <3>2. CASE body[x] # << >> /\ body' = [body EXCEPT ![x][Len(body[x])].whole = FALSE]
      <4>1. body[x] \in Seq(Frame) /\ Len(body[x]) \in 1..Len(body[x]) /\ body[x][Len(body[x])] \in Frame
        BY <3>2 DEF TypeOK
      <4>2. [body[x][Len(body[x])] EXCEPT !.whole = FALSE] \in Frame
        BY <4>1 DEF Frame
      <4>3. [body[x] EXCEPT ![Len(body[x])] = [body[x][Len(body[x])] EXCEPT !.whole = FALSE]] \in Seq(Frame)
        BY <4>1, <4>2
      <4> QED BY <3>2, <4>3 DEF TypeOK
    <3> QED BY <1>11, <3>1, <3>2 DEF Timeout
  <2> QED BY <1>11, <2>1 DEF Timeout, TypeOK
<1>12. ASSUME NEW x \in Exchanges, TakeBody(x) PROVE TypeOK'
  <2>0. Reply(x) \in Everything BY ReplyIsNamed
  <2>1. CASE body[x] = << >>
    <3>1. CASE Gateway[x] = "proxy"
      <4>1. response' \in [Exchanges -> Seq(Chunk)]
        BY <1>12, <2>0, <2>1, <3>1, ResponseTypes DEF TakeBody, Kinds
      <4> QED BY <1>12, <2>1, <3>1, <4>1 DEF TakeBody, GoTo, TypeOK, Places
    <3>2. CASE Gateway[x] # "proxy"
      <4>1. Fail(x) /\ UNCHANGED <<held, verdict, body, delivered, shape, ending, spoken, audit>>
        BY <1>12, <2>1, <3>2 DEF TakeBody
      <4> QED BY <1>5, <4>1 DEF TypeOK
    <3> QED BY <3>1, <3>2
  <2>2. CASE body[x] # << >>
    <3>1. body' = [body EXCEPT ![x] = << >>] /\ UNCHANGED <<delivered, shape, ending, spoken, audit>>
      BY <1>12, <2>2 DEF TakeBody
    <3>2. body' \in [Exchanges -> Seq(Frame)]
      BY <3>1 DEF TypeOK
    <3>3. (Fail(x) /\ UNCHANGED <<held, verdict>>) \/ TakeFrame(x, Head(body[x]))
      BY <1>12, <2>2 DEF TakeBody
    <3> QED BY <1>5, <2>2, <3>1, <3>2, <3>3, FirstFrame, TakenFrame DEF TypeOK
  <2> QED BY <2>1, <2>2
<1>13. ASSUME NEW x \in Exchanges, TakeEvent(x) PROVE TypeOK'
  <2>1. /\ body[x] # << >> /\ TakeFrame(x, Head(body[x])) /\ body' = [body EXCEPT ![x] = Tail(body[x])]
        /\ UNCHANGED <<delivered, shape, ending, spoken, audit>>
    BY <1>13 DEF TakeEvent
  <2>2. Head(body[x]) \in Frame /\ Tail(body[x]) \in Seq(Frame)
    BY <2>1, FirstFrame
  <2>3. body' \in [Exchanges -> Seq(Frame)]
    BY <2>1, <2>2 DEF TypeOK
  <2> QED BY <2>1, <2>2, <2>3, TakenFrame DEF TypeOK
<1>14. ASSUME NEW x \in Exchanges, Write(x) PROVE TypeOK'
  <2>1. response' \in [Exchanges -> Seq(Chunk)]
    <3>1. CASE Dropped(x)
      BY <1>0, <1>14, <3>1, ResponseTypes DEF Write, Kinds
    <3>2. CASE ~Dropped(x)
      <4>1. FormOf(held[x], verdict[x]) \in {"none", "raw", "redacted"} BY DEF FormOf
      <4> QED BY <1>0, <1>14, <3>2, <4>1, ResponseTypes DEF Write, Kinds
    <3> QED BY <3>1, <3>2
  <2> QED BY <1>14, <2>1 DEF Write, GoTo, TypeOK, Places
<1>15. CASE UNCHANGED vars
  BY <1>15 DEF vars, TypeOK
<1> QED
  BY <1>1, <1>2, <1>3, <1>4, <1>6, <1>7, <1>8, <1>9, <1>10, <1>11, <1>12, <1>13, <1>14, <1>15
     DEF Next, Arrive, HandlerStep, Upstream, OpenStream, Exchanges

-------------------------------------------------------------------------------
(* The handlers.                                                           *)

\* A step of one exchange leaves the handlers of the others alone.
Local(x) ==
  \A y \in Exchanges \ {x} : at'[y] = at[y] /\ held'[y] = held[y] /\ verdict'[y] = verdict[y]

LEMMA OneHandler ==
  ASSUME TypeOK, HandInv, NEW x \in Exchanges, Local(x), spoken \subseteq spoken', HandOf(x)'
  PROVE  HandInv'
<1> SUFFICES ASSUME NEW y \in Exchanges, y # x PROVE HandOf(y)'
  BY DEF HandInv
<1>1. HandOf(y) BY DEF HandInv
<1> QED BY <1>1 DEF HandOf, Local, Governed, Evaluated, Carries, Reply

\* A handler that is idle, waiting for its upstream or done has nothing in hand.
LEMMA NothingInHand ==
  ASSUME TypeOK, NEW x \in Exchanges, at'[x] \in {"idle", "relay", "done"}
  PROVE  HandOf(x)'
  BY DEF HandOf

LEMMA TakenInHand ==
  ASSUME TypeOK, NEW x \in Exchanges, NEW f \in Frame, TakeFrame(x, f), UNCHANGED spoken,
         f.msg \in spoken, Carries(x, f.msg)
  PROVE  Local(x) /\ HandOf(x)'
<1>1. f.msg \in Messages /\ f.msg[1] = "out"
  BY CarriedIsMessage DEF Frame
<1>2. CASE f.whole /\ Evaluated(f.msg)
  <2>1. at' = [at EXCEPT ![x] = "log"] /\ held' = [held EXCEPT ![x] = f.msg]
        /\ \E a \in Actions : verdict' = [verdict EXCEPT ![x] = a]
    BY <1>2 DEF TakeFrame, Decide, GoTo, AfterDecision
  <2>2. Local(x) /\ at'[x] = "log" /\ held'[x] = f.msg
    BY <2>1 DEF TypeOK, Local
  <2>3. f.msg \in Governed BY <1>1, <1>2 DEF Governed
  <2> QED BY <1>1, <2>2, <2>3 DEF HandOf, Governed, Evaluated, Carries, Reply
<1>3. CASE ~(f.whole /\ Evaluated(f.msg))
  <2>1. at' = [at EXCEPT ![x] = IF shape[x] = "sse" THEN "relay" ELSE "done"]
        /\ UNCHANGED <<held, verdict>>
    BY <1>3 DEF TakeFrame, GoTo
  <2>2. Local(x) /\ at'[x] \in {"relay", "done"}
    BY <2>1 DEF TypeOK, Local
  <2> QED BY <2>2, NothingInHand
<1> QED BY <1>2, <1>3

\* What is on its way from an upstream was sent by it, over its own exchange, and once;
\* it has answered what has reached it.
BodyInv ==
  /\ \A x \in Exchanges : \A i \in 1..Len(body[x]) :
       body[x][i].msg \in spoken /\ Carries(x, body[x][i].msg)
  /\ \A x, y \in Exchanges : \A i \in 1..Len(body[x]), j \in 1..Len(body[y]) :
       body[x][i].msg = body[y][j].msg => x = y /\ i = j
  /\ \A m \in spoken : m[1] = "out"
  /\ \A p \in Posts : Reply(p) \in spoken => p \in delivered /\ shape[p] # "none"

LEMMA FirstFrameCarries ==
  ASSUME TypeOK, BodyInv, NEW x \in Exchanges, body[x] # << >>
  PROVE  /\ Head(body[x]).msg \in spoken /\ Carries(x, Head(body[x]).msg)
         /\ Head(body[x]) \in Frame
<1>1. Head(body[x]) = body[x][1] /\ 1 \in 1..Len(body[x]) /\ Head(body[x]) \in Frame
  BY FirstFrame
<1> QED BY <1>1 DEF BodyInv

LEMMA HandStep == TypeOK /\ HandInv /\ BodyInv /\ [Next]_vars => HandInv'
<1> SUFFICES ASSUME TypeOK, HandInv, BodyInv, [Next]_vars PROVE HandInv'
  OBVIOUS
<1> USE DEF upstreamVars
<1>0. \A x \in Exchanges : at[x] \in Places /\ HandOf(x)
  BY DEF TypeOK, HandInv
<1>a. ASSUME NEW x \in Exchanges, NEW place \in {"idle", "relay", "done"}, GoTo(x, place),
             UNCHANGED <<held, verdict, spoken>>
      PROVE  HandInv'
  <2>1. at'[x] = place /\ Local(x) BY <1>a DEF GoTo, TypeOK, Local
  <2>2. HandOf(x)' BY <2>1, NothingInHand
  <2> QED BY <1>a, <2>1, <2>2, OneHandler
<1>b. ASSUME UNCHANGED <<at, held, verdict>>, spoken \subseteq spoken' PROVE HandInv'
  BY <1>0, <1>b DEF HandInv, HandOf, Governed, Evaluated, Carries, Reply
<1>1. ASSUME NEW x \in Posts, ReceivePost(x) PROVE HandInv'
  <2>1. x \in Exchanges /\ <<"in", x>> \in Messages BY PostMessages
  <2>2. CASE Evaluated(<<"in", x>>)
    <3>1. at' = [at EXCEPT ![x] = "log"] /\ held' = [held EXCEPT ![x] = <<"in", x>>]
          /\ \E a \in Actions : verdict' = [verdict EXCEPT ![x] = a]
      BY <1>1, <2>2 DEF ReceivePost, Decide, GoTo, AfterDecision
    <3>2. Local(x) /\ at'[x] = "log" /\ held'[x] = <<"in", x>>
      BY <2>1, <3>1 DEF TypeOK, Local
    <3>3. HandOf(x)'
      BY <2>1, <2>2, <3>2 DEF HandOf, Governed, Evaluated
    <3> QED BY <1>1, <2>1, <3>2, <3>3, OneHandler DEF ReceivePost
  <2>3. CASE ~Evaluated(<<"in", x>>)
    <3>1. at' = [at EXCEPT ![x] = "forward"] /\ UNCHANGED <<held, verdict>>
      BY <1>1, <2>3 DEF ReceivePost, GoTo
    <3>2. Local(x) /\ at'[x] = "forward"
      BY <2>1, <3>1 DEF TypeOK, Local
    <3>3. HandOf(x)'
      BY <2>3, <3>2 DEF HandOf, Evaluated
    <3> QED BY <1>1, <2>1, <3>2, <3>3, OneHandler DEF ReceivePost
  <2> QED BY <2>2, <2>3
<1>2. ASSUME NEW x \in Exchanges, LogEvent(x) PROVE HandInv'
  <2>1. at[x] = "log" /\ at' = [at EXCEPT ![x] = AfterLog(held[x], verdict[x])]
        /\ UNCHANGED <<held, verdict, spoken>>
    BY <1>2 DEF LogEvent, GoTo
  <2>2. Local(x) /\ at'[x] = AfterLog(held[x], verdict[x])
    BY <2>1 DEF TypeOK, Local
  <2>3. /\ held[x] \in Governed
        /\ IF held[x][1] = "in" THEN x \in Posts /\ held[x] = <<"in", x>>
                                ELSE held[x] \in spoken /\ Carries(x, held[x])
    BY <1>0, <2>1 DEF HandOf
  <2>4. held[x][1] \in {"in", "out"}
    BY <2>3, MessageParts DEF Governed
  <2>5. CASE held[x][1] = "out"
    <3>1. at'[x] = "write" BY <2>2, <2>5 DEF AfterLog
    <3> QED BY <2>1, <2>2, <2>3, <2>5, <3>1, OneHandler DEF HandOf, Governed, Evaluated, Carries, Reply
  <2>6. CASE held[x][1] = "in"
    <3>1. at'[x] = IF verdict[x] = "deny" THEN "refuse" ELSE "forward"
      BY <2>2, <2>6 DEF AfterLog
    <3>2. HandOf(x)'
      BY <2>1, <2>3, <2>6, <3>1 DEF HandOf, Governed, Evaluated
    <3> QED BY <2>1, <2>2, <3>2, OneHandler
  <2> QED BY <2>4, <2>5, <2>6
<1>3. ASSUME NEW x \in Exchanges, Refuse(x) PROVE HandInv'
  BY <1>3, <1>a DEF Refuse
<1>4. ASSUME NEW x \in Posts, Forward(x) PROVE HandInv'
  BY <1>4, <1>a, PostMessages DEF Forward
<1>5. ASSUME NEW x \in Exchanges, ForwardFails(x) \/ RelayFails(x) PROVE HandInv'
  BY <1>5, <1>a DEF ForwardFails, RelayFails, Fail
<1>6. ASSUME NEW x \in Exchanges, OpenStream(x) \/ EndRelay(x) PROVE HandInv'
  BY <1>6, <1>a DEF OpenStream, EndRelay
<1>7. ASSUME NEW x \in Exchanges, Upstream(x) \/ Timeout(x) PROVE HandInv'
  BY <1>7, <1>b DEF Upstream, AnswerJSON, SendEvent, EndStream, Timeout
<1>8. ASSUME NEW x \in Exchanges, TakeBody(x) PROVE HandInv'
  <2>1. UNCHANGED spoken BY <1>8 DEF TakeBody
  <2>2. CASE body[x] = << >>
    <3>1. GoTo(x, "done") /\ UNCHANGED <<held, verdict>> BY <1>8, <2>2 DEF TakeBody, Fail
    <3> QED BY <1>a, <2>1, <3>1
  <2>3. CASE body[x] # << >> /\ TakeFrame(x, Head(body[x]))
    BY <2>1, <2>3, FirstFrameCarries, TakenInHand, OneHandler
  <2>4. CASE body[x] # << >> /\ ~TakeFrame(x, Head(body[x]))
    <3>1. GoTo(x, "done") /\ UNCHANGED <<held, verdict>> BY <1>8, <2>4 DEF TakeBody, Fail
    <3> QED BY <1>a, <2>1, <3>1
  <2> QED BY <2>2, <2>3, <2>4
<1>9. ASSUME NEW x \in Exchanges, TakeEvent(x) PROVE HandInv'
  <2>1. body[x] # << >> /\ TakeFrame(x, Head(body[x])) /\ UNCHANGED spoken
    BY <1>9 DEF TakeEvent
  <2> QED BY <2>1, FirstFrameCarries, TakenInHand, OneHandler
<1>10. ASSUME NEW x \in Exchanges, Write(x) PROVE HandInv'
  <2>1. GoTo(x, IF shape[x] = "sse" THEN "relay" ELSE "done") /\ UNCHANGED <<held, verdict, spoken>>
    BY <1>10 DEF Write
  <2> QED BY <1>a, <2>1
<1>11. CASE UNCHANGED vars
  BY <1>b, <1>11 DEF vars
<1> QED
  BY <1>1, <1>2, <1>3, <1>4, <1>5, <1>6, <1>7, <1>8, <1>9, <1>10, <1>11
     DEF Next, Arrive, HandlerStep, OpenStream, Exchanges

\* What an upstream sends is new, and its own.
LEMMA FrameSent ==
  ASSUME TypeOK, BodyInv, NEW x \in Exchanges, NEW m \in Messages, NEW b \in Seq(Frame),
         m \notin spoken, Carries(x, m), spoken' = spoken \cup {m},
         b = << >> \/ b = body[x],
         body' = [body EXCEPT ![x] = Append(b, [msg |-> m, whole |-> TRUE])],
         delivered' = delivered, shape'[x] # "none", x \in Posts => x \in delivered,
         \A y \in Exchanges \ {x} : shape'[y] = shape[y]
  PROVE  BodyInv'
<1> DEFINE new == [msg |-> m, whole |-> TRUE]
<1>1. body'[x] = Append(b, new) /\ \A y \in Exchanges \ {x} : body'[y] = body[y]
  BY DEF TypeOK
<1>2. new \in Frame /\ new.msg = m BY DEF Frame
<1>3. /\ Len(body'[x]) = Len(b) + 1 /\ Len(b) \in Nat /\ body'[x][Len(b) + 1] = new
      /\ \A i \in 1..Len(b) : body'[x][i] = b[i]
  <2> HIDE DEF new
  <2> QED BY <1>1, <1>2
<1> HIDE DEF new
<1>4. \A i \in 1..Len(b) : i \in 1..Len(body[x]) /\ b[i] = body[x][i]
  OBVIOUS
<1>5. ASSUME NEW y \in Exchanges, NEW i \in 1..Len(body'[y])
      PROVE  \/ y = x /\ i = Len(b) + 1 /\ body'[y][i].msg = m
             \/ i \in 1..Len(body[y]) /\ body'[y][i].msg = body[y][i].msg
  BY <1>1, <1>2, <1>3, <1>4
<1>6. \A y \in Exchanges : \A i \in 1..Len(body[y]) :
        body[y][i].msg \in spoken /\ Carries(y, body[y][i].msg) /\ body[y][i].msg # m
  BY DEF BodyInv
<1>7. \A y \in Exchanges : \A i \in 1..Len(body'[y]) :
        body'[y][i].msg \in spoken' /\ Carries(y, body'[y][i].msg)
  BY <1>5, <1>6
<1>8. \A y, z \in Exchanges : \A i \in 1..Len(body'[y]), j \in 1..Len(body'[z]) :
        body'[y][i].msg = body'[z][j].msg => y = z /\ i = j
  <2> SUFFICES ASSUME NEW y \in Exchanges, NEW z \in Exchanges, NEW i \in 1..Len(body'[y]),
                      NEW j \in 1..Len(body'[z]), body'[y][i].msg = body'[z][j].msg
               PROVE  y = z /\ i = j
    OBVIOUS
  <2> QED BY <1>5, <1>6 DEF BodyInv
<1>9. \A n \in spoken' : n[1] = "out"
  BY CarriedIsMessage DEF BodyInv
<1>10. ASSUME NEW p \in Posts, Reply(p) \in spoken' PROVE p \in delivered' /\ shape'[p] # "none"
  <2>1. p \in Exchanges BY PostMessages
  <2>2. CASE Reply(p) \in spoken BY <2>1, <2>2 DEF BodyInv
  <2>3. CASE Reply(p) = m
    <3>1. x = p BY <2>1, <2>3 DEF Carries, Reply, Exchanges
    <3> QED BY <3>1
  <2> QED BY <1>10, <2>2, <2>3
<1> QED BY <1>7, <1>8, <1>9, <1>10 DEF BodyInv, Carries, Reply

\* What is read off a body, or cut, leaves the rest as it was.
LEMMA FramesLeft ==
  ASSUME TypeOK, BodyInv, NEW x \in Exchanges, UNCHANGED <<spoken, delivered, shape>>,
         \A y \in Exchanges \ {x} : body'[y] = body[y], NEW off \in Nat,
         Len(body'[x]) \in Nat,
         \A i \in 1..Len(body'[x]) :
           i + off \in 1..Len(body[x]) /\ body'[x][i].msg = body[x][i + off].msg
  PROVE  BodyInv'
<1>1. \A y \in Exchanges : Len(body'[y]) \in Nat
  BY DEF TypeOK
<1>2. \A y \in Exchanges : \A i \in 1..Len(body'[y]) :
        \E k \in 1..Len(body[y]) : body'[y][i].msg = body[y][k].msg /\ k = (IF y = x THEN i + off ELSE i)
  OBVIOUS
<1>3. ASSUME NEW y \in Exchanges, NEW z \in Exchanges, NEW i \in 1..Len(body'[y]),
             NEW j \in 1..Len(body'[z]), body'[y][i].msg = body'[z][j].msg
      PROVE  y = z /\ i = j
  <2>1. PICK k \in 1..Len(body[y]) :
          body'[y][i].msg = body[y][k].msg /\ k = (IF y = x THEN i + off ELSE i)
    BY <1>2
  <2>2. PICK l \in 1..Len(body[z]) :
          body'[z][j].msg = body[z][l].msg /\ l = (IF z = x THEN j + off ELSE j)
    BY <1>2
  <2>3. body[y][k].msg = body[z][l].msg => y = z /\ k = l
    BY DEF BodyInv
  <2>4. body[y][k].msg = body[z][l].msg BY <1>3, <2>1, <2>2
  <2> QED BY <1>1, <2>1, <2>2, <2>3, <2>4
<1>4. ASSUME NEW y \in Exchanges, NEW i \in 1..Len(body'[y])
      PROVE  body'[y][i].msg \in spoken /\ Carries(y, body'[y][i].msg)
  <2>1. PICK k \in 1..Len(body[y]) : body'[y][i].msg = body[y][k].msg
    BY <1>2
  <2>2. body[y][k].msg \in spoken /\ Carries(y, body[y][k].msg) BY DEF BodyInv
  <2> QED BY <2>1, <2>2
<1>5. (\A m \in spoken : m[1] = "out")
      /\ \A p \in Posts : Reply(p) \in spoken => p \in delivered /\ shape[p] # "none"
  BY DEF BodyInv
<1> QED BY <1>3, <1>4, <1>5 DEF BodyInv, Carries, Reply

LEMMA BodyStep == TypeOK /\ HandInv /\ BodyInv /\ [Next]_vars => BodyInv'
<1> SUFFICES ASSUME TypeOK, HandInv, BodyInv, [Next]_vars PROVE BodyInv'
  OBVIOUS
<1> USE DEF upstreamVars
<1>1. CASE UNCHANGED <<body, spoken, shape>> /\ delivered \subseteq delivered'
  BY <1>1 DEF BodyInv, Carries, Reply
<1>2. ASSUME NEW x \in Exchanges, AnswerJSON(x) PROVE BodyInv'
  <2>1. /\ x \in Posts /\ Awaited(x) /\ shape[x] = "none" /\ shape' = [shape EXCEPT ![x] = "json"]
        /\ UNCHANGED delivered
    BY <1>2 DEF AnswerJSON
  <2>2. x \in delivered BY <2>1 DEF Awaited
  <2>3. shape'[x] # "none" /\ \A y \in Exchanges \ {x} : shape'[y] = shape[y]
    BY <2>1 DEF TypeOK
  <2>4. CASE UNCHANGED <<body, spoken>>
    BY <2>1, <2>3, <2>4, PostMessages DEF BodyInv, Carries, Reply
  <2>5. CASE /\ body' = [body EXCEPT ![x] = <<[msg |-> Reply(x), whole |-> TRUE]>>]
             /\ spoken' = spoken \cup {Reply(x)}
    <3>1. Reply(x) \in Messages /\ Reply(x) \notin spoken /\ Carries(x, Reply(x))
      BY <2>1, PostMessages DEF BodyInv, Carries
    <3>2. << >> \in Seq(Frame) /\ \A e : <<e>> = Append(<< >>, e)
      OBVIOUS
    <3>3. body' = [body EXCEPT ![x] = Append(<< >>, [msg |-> Reply(x), whole |-> TRUE])]
      BY <2>5, <3>2
    <3> QED BY <2>1, <2>2, <2>3, <2>5, <3>1, <3>2, <3>3, FrameSent
  <2> QED BY <1>2, <2>4, <2>5 DEF AnswerJSON
<1>3. ASSUME NEW x \in Exchanges, SendEvent(x) PROVE BodyInv'
  <2>1. PICK m \in (IF x \in Posts \ Notes THEN {Reply(x)} ELSE {}) \cup ({"out"} \X ServerNotes) :
          /\ m \notin spoken /\ spoken' = spoken \cup {m}
          /\ body' = [body EXCEPT ![x] = Append(body[x], [msg |-> m, whole |-> TRUE])]
    BY <1>3 DEF SendEvent
  <2>2. Awaited(x) /\ Gateway[x] = "proxy" /\ shape' = [shape EXCEPT ![x] = "sse"] /\ UNCHANGED delivered
    BY <1>3 DEF SendEvent
  <2>3. m \in Messages /\ Carries(x, m)
    <3>1. CASE m \in {"out"} \X ServerNotes BY <2>2, <3>1 DEF Messages, Names, Carries
    <3>2. CASE x \in Posts /\ m = Reply(x) BY <3>2, PostMessages DEF Carries
    <3> QED BY <2>1, <3>1, <3>2
  <2>4. x \in Posts => x \in delivered BY <2>2 DEF Awaited
  <2>5. shape'[x] # "none" /\ \A y \in Exchanges \ {x} : shape'[y] = shape[y]
    BY <2>2 DEF TypeOK
  <2>6. body[x] \in Seq(Frame) BY DEF TypeOK
  <2> QED BY <2>1, <2>2, <2>3, <2>4, <2>5, <2>6, FrameSent
<1>4. ASSUME NEW x \in Exchanges, Timeout(x) PROVE BodyInv'
  <2>1. UNCHANGED <<spoken, delivered, shape>> BY <1>4 DEF Timeout
  <2>2. CASE UNCHANGED body BY <1>1, <2>1, <2>2
  <2>3. CASE body[x] # << >> /\ body' = [body EXCEPT ![x][Len(body[x])].whole = FALSE]
    <3>1. body[x] \in Seq(Frame) /\ Len(body[x]) \in Nat /\ Len(body[x]) \in 1..Len(body[x])
      BY <2>3 DEF TypeOK
    <3>2. /\ body'[x] = [body[x] EXCEPT ![Len(body[x])].whole = FALSE]
          /\ \A y \in Exchanges \ {x} : body'[y] = body[y]
      BY <2>3 DEF TypeOK
    <3>3. Len(body'[x]) = Len(body[x]) BY <3>1, <3>2
    <3>4. \A i \in 1..Len(body[x]) : body[x][i] \in Frame BY <3>1
    <3>5. \A i \in 1..Len(body[x]) : body'[x][i].msg = body[x][i].msg
      BY <3>1, <3>2, <3>4 DEF Frame
    <3>6. \A i \in 1..Len(body'[x]) :
            i + 0 \in 1..Len(body[x]) /\ body'[x][i].msg = body[x][i + 0].msg
      BY <3>3, <3>5
    <3> QED BY <2>1, <3>1, <3>2, <3>3, <3>6, FramesLeft
  <2> QED BY <1>4, <2>2, <2>3 DEF Timeout
<1>5. ASSUME NEW x \in Exchanges, TakeBody(x) PROVE BodyInv'
  <2>1. UNCHANGED <<spoken, delivered, shape>> BY <1>5 DEF TakeBody
  <2>2. CASE UNCHANGED body BY <1>1, <2>1, <2>2
  <2>3. CASE body' = [body EXCEPT ![x] = << >>]
    <3>1. body'[x] = << >> /\ \A y \in Exchanges \ {x} : body'[y] = body[y]
      BY <2>3 DEF TypeOK
    <3> QED BY <2>1, <3>1, FramesLeft
  <2> QED BY <1>5, <2>2, <2>3 DEF TakeBody
<1>6. ASSUME NEW x \in Exchanges, TakeEvent(x) PROVE BodyInv'
  <2>1. body[x] # << >> /\ body' = [body EXCEPT ![x] = Tail(body[x])]
        /\ UNCHANGED <<spoken, delivered, shape>>
    BY <1>6 DEF TakeEvent
  <2>2. body'[x] = Tail(body[x]) /\ \A y \in Exchanges \ {x} : body'[y] = body[y]
    BY <2>1 DEF TypeOK
  <2>3. /\ Len(body'[x]) \in Nat
        /\ \A i \in 1..Len(body'[x]) : i + 1 \in 1..Len(body[x]) /\ body'[x][i] = body[x][i + 1]
    <3>1. PICK n \in Nat : n = Len(body[x]) /\ n > 0 BY <2>1, FirstFrame
    <3>0. /\ Len(Tail(body[x])) = Len(body[x]) - 1
          /\ \A i \in 1..Len(body[x]) - 1 : Tail(body[x])[i] = body[x][i + 1]
      BY <2>1, FirstFrame
    <3>2. Len(body'[x]) = n - 1 /\ \A i \in 1..n - 1 : body'[x][i] = body[x][i + 1]
      BY <2>2, <3>1, <3>0
    <3>3. \A i \in 1..n - 1 : i + 1 \in 1..n BY <3>1
    <3> QED BY <3>1, <3>2, <3>3
  <2> QED BY <2>1, <2>2, <2>3, FramesLeft
<1> QED
  BY <1>1, <1>2, <1>3, <1>4, <1>5, <1>6
     DEF Next, Arrive, HandlerStep, Upstream, ReceivePost, OpenStream, LogEvent, Refuse, Forward,
         ForwardFails, EndStream, EndRelay, RelayFails, Write, vars

-------------------------------------------------------------------------------
(* What a step adds to the events and to the copies of a message.          *)

LEMMA ElementsAppend ==
  ASSUME NEW S, NEW s \in Seq(S), NEW e \in S
  PROVE  Elements(Append(s, e)) = Elements(s) \cup {e}
<1>1. /\ Len(Append(s, e)) = Len(s) + 1 /\ Append(s, e)[Len(s) + 1] = e /\ Len(s) \in Nat
      /\ \A i \in 1..Len(s) : Append(s, e)[i] = s[i]
  OBVIOUS
<1>2. 1..Len(s) + 1 = 1..Len(s) \cup {Len(s) + 1}
  BY <1>1
<1> QED BY <1>1, <1>2 DEF Elements

LEMMA EventsLogged ==
  ASSUME TypeOK, HandInv, NEW x \in Exchanges, LogEvent(x), NEW m \in Messages
  PROVE  EventsOf(m)' = IF m = held[x] THEN EventsOf(m) \cup {Event(m, verdict[x])}
                        ELSE EventsOf(m)
<1>1. PICK n \in Messages, a \in Actions : n = held[x] /\ a = verdict[x]
  BY DEF HandInv, HandOf, LogEvent, Governed, TypeOK
<1>2. PICK new : new = Event(n, a)
  OBVIOUS
<1>3. new \in Logs /\ new.dir = n[1] /\ new.name = n[2]
  BY <1>2 DEF Logs, Event
<1>4. audit' = Append(audit, new) /\ audit \in Seq(Logs)
  BY <1>1, <1>2 DEF LogEvent, TypeOK
<1>5. Elements(audit') = Elements(audit) \cup {new}
  BY <1>3, <1>4, ElementsAppend
<1>6. new.dir = m[1] /\ new.name = m[2] <=> m = n
  BY <1>3, MessageParts
<1>7. EventsOf(m)' = IF m = n THEN EventsOf(m) \cup {new} ELSE EventsOf(m)
  BY <1>5, <1>6 DEF EventsOf
<1> QED BY <1>1, <1>2, <1>7

LEMMA EventsKept ==
  ASSUME UNCHANGED audit, NEW m
  PROVE  EventsOf(m)' = EventsOf(m)
  BY DEF EventsOf

LEMMA ChunksAdd ==
  ASSUME TypeOK, NEW x \in Exchanges, NEW what \in Kinds, NEW n \in Everything,
         NEW form \in {"none", "raw", "redacted"}, Respond(x, what, n, form), NEW m \in Messages
  PROVE  Chunks(m)' = IF m = n /\ x \in Ways(m)
                      THEN Chunks(m) \cup {[what |-> what, msg |-> n, form |-> form]} ELSE Chunks(m)
<1>1. PICK new : new = [what |-> what, msg |-> n, form |-> form]
  OBVIOUS
<1>2. new \in Chunk /\ new.msg = n
  BY <1>1 DEF Chunk
<1>3. /\ response' = [response EXCEPT ![x] = Append(response[x], new)]
      /\ response \in [Exchanges -> Seq(Chunk)]
  BY <1>1 DEF Respond, TypeOK
<1>4. /\ Elements(response'[x]) = Elements(response[x]) \cup {new}
      /\ \A y \in Exchanges \ {x} : response'[y] = response[y]
  BY <1>2, <1>3, ElementsAppend
<1>5. Ways(m) \subseteq Exchanges
  BY DEF Ways, Exchanges
<1>6. \A y \in Ways(m) : {c \in Elements(response'[y]) : c.msg = m} =
        IF y = x /\ m = n THEN {c \in Elements(response[y]) : c.msg = m} \cup {new}
        ELSE {c \in Elements(response[y]) : c.msg = m}
  BY <1>2, <1>4, <1>5
<1>7. \A c : c \in Chunks(m)' <=> \E y \in Ways(m) : c \in {k \in Elements(response'[y]) : k.msg = m}
  BY DEF Chunks, Ways
<1>8. \A c : c \in Chunks(m) <=> \E y \in Ways(m) : c \in {k \in Elements(response[y]) : k.msg = m}
  BY DEF Chunks
<1>9. CASE m = n /\ x \in Ways(m)
  <2>1. \A c : c \in Chunks(m)' <=> c \in Chunks(m) \/ c = new
    BY <1>6, <1>7, <1>8, <1>9
  <2> QED BY <1>1, <1>9, <2>1
<1>10. CASE ~(m = n /\ x \in Ways(m))
  <2>1. \A c : c \in Chunks(m)' <=> c \in Chunks(m)
    BY <1>6, <1>7, <1>8, <1>10
  <2> QED BY <1>10, <2>1
<1> QED BY <1>9, <1>10

\* A response to the client counts for a client's message if it refuses it, for a
\* server's if it brings it.
Tells(m) == IF m[1] = "in" THEN "refusal" ELSE "message"
FormTold(m, form) == IF m[1] = "in" THEN "refusal" ELSE form
Told(m) == {FormTold(m, c.form) : c \in {k \in Chunks(m) : k.what = Tells(m)}}
PassedOn(m) == IF m[1] = "in" /\ m[2] \in delivered THEN {"raw"} ELSE {}

LEMMA CopiesAre ==
  ASSUME NEW m \in Messages
  PROVE  Copies(m) = PassedOn(m) \cup Told(m) /\ Copies(m)' = PassedOn(m)' \cup Told(m)'
  BY DEF Copies, PassedOn, Told, Tells, FormTold, Chunks, Ways

LEMMA ToldAdd ==
  ASSUME TypeOK, NEW x \in Exchanges, NEW what \in Kinds, NEW n \in Everything,
         NEW form \in {"none", "raw", "redacted"}, Respond(x, what, n, form), NEW m \in Messages
  PROVE  Told(m)' = IF m = n /\ x \in Ways(m) /\ what = Tells(m)
                    THEN Told(m) \cup {FormTold(m, form)} ELSE Told(m)
<1>1. PICK new : new = [what |-> what, msg |-> n, form |-> form]
  OBVIOUS
<1>2. new.what = what /\ new.form = form
  BY <1>1
<1>3. Chunks(m)' = IF m = n /\ x \in Ways(m) THEN Chunks(m) \cup {new} ELSE Chunks(m)
  BY <1>1, ChunksAdd
<1>4. Told(m)' = {FormTold(m, c.form) : c \in {k \in Chunks(m)' : k.what = Tells(m)}}
  BY DEF Told, FormTold, Tells
<1>5. CASE ~(m = n /\ x \in Ways(m))
  BY <1>3, <1>4, <1>5 DEF Told
<1>6. CASE m = n /\ x \in Ways(m) /\ what # Tells(m)
  <2>1. {k \in Chunks(m)' : k.what = Tells(m)} = {k \in Chunks(m) : k.what = Tells(m)}
    BY <1>2, <1>3, <1>6
  <2> QED BY <1>4, <1>6, <2>1 DEF Told
<1>7. CASE m = n /\ x \in Ways(m) /\ what = Tells(m)
  <2>1. {k \in Chunks(m)' : k.what = Tells(m)} = {k \in Chunks(m) : k.what = Tells(m)} \cup {new}
    BY <1>2, <1>3, <1>7
  <2> QED BY <1>2, <1>4, <1>7, <2>1 DEF Told
<1> QED BY <1>5, <1>6, <1>7

LEMMA CopiesTold ==
  ASSUME TypeOK, NEW x \in Exchanges, NEW what \in Kinds, NEW n \in Everything,
         NEW form \in {"none", "raw", "redacted"}, Respond(x, what, n, form),
         UNCHANGED delivered, NEW m \in Messages
  PROVE  Copies(m)' = IF m = n /\ x \in Ways(m) /\ what = Tells(m)
                      THEN Copies(m) \cup {FormTold(m, form)} ELSE Copies(m)
<1>1. PassedOn(m)' = PassedOn(m) BY DEF PassedOn
<1>2. Told(m)' = IF m = n /\ x \in Ways(m) /\ what = Tells(m)
                 THEN Told(m) \cup {FormTold(m, form)} ELSE Told(m)
  BY ToldAdd
<1>3. Copies(m) = PassedOn(m) \cup Told(m) /\ Copies(m)' = PassedOn(m)' \cup Told(m)'
  BY CopiesAre
<1> QED BY <1>1, <1>2, <1>3

LEMMA CopiesKept ==
  ASSUME UNCHANGED <<response, delivered>>, NEW m \in Messages
  PROVE  Copies(m)' = Copies(m)
  BY DEF Copies, Chunks, Ways

LEMMA CopiesForwarded ==
  ASSUME TypeOK, NEW p \in Posts, Forward(p), NEW m \in Messages
  PROVE  Copies(m)' = IF m = <<"in", p>> THEN Copies(m) \cup {"raw"} ELSE Copies(m)
<1>1. delivered' = delivered \cup {p} /\ p \in Exchanges /\ Reply(p) \in Everything
  BY PostMessages, ReplyIsNamed DEF Forward
<1>2. Told(m)' = Told(m)
  <2>1. CASE Unanswered(p)
    <3>1. Respond(p, "204", Reply(p), "none") /\ "204" \in Kinds BY <2>1 DEF Forward, Kinds
    <3> QED BY <1>1, <3>1, ToldAdd DEF Tells
  <2>2. CASE ~Unanswered(p)
    BY <2>2 DEF Forward, Told, Chunks, Ways, Tells, FormTold
  <2> QED BY <2>1, <2>2
<1>3. PassedOn(m)' = IF m = <<"in", p>> THEN PassedOn(m) \cup {"raw"} ELSE PassedOn(m)
  <2>1. m = <<"in", p>> <=> m[1] = "in" /\ m[2] = p
    BY MessageParts
  <2> QED BY <1>1, <2>1 DEF PassedOn
<1>4. Copies(m) = PassedOn(m) \cup Told(m) /\ Copies(m)' = PassedOn(m)' \cup Told(m)'
  BY CopiesAre
<1> QED BY <1>2, <1>3, <1>4

-------------------------------------------------------------------------------
(* The way of a message.                                                   *)

\* Nobody has seen it; it is in a body; a handler has it; something came of it.
Unheard(m) == IF m[1] = "in" THEN at[m[2]] = "idle" ELSE m \notin spoken
Framed(m) == \E x \in Exchanges : \E i \in 1..Len(body[x]) : body[x][i].msg = m
Stations(m) == IF m[1] = "in" THEN {"log", "refuse", "forward"} ELSE {"log", "write"}
Holding(m) == {x \in Ways(m) : at[x] \in Stations(m) /\ held[x] = m}
Allowed(m, a) ==
  IF m[1] = "in" THEN {IF a = "deny" THEN "refusal" ELSE "raw"}
  ELSE IF a = "deny" /\ ~OfHub(m) THEN {} ELSE {FormOf(m, a)}

\* One handler at most has it; before the event nothing has gone out, and afterwards
\* nothing but what was decided.
MsgInv(m) ==
  /\ Unheard(m) \/ Framed(m) => Holding(m) = {} /\ EventsOf(m) = {}
  /\ \A x, y \in Holding(m) : x = y
  /\ \A x \in Holding(m) :
       IF at[x] = "log" THEN EventsOf(m) = {}
                        ELSE EventsOf(m) = {Event(m, verdict[x])} /\ Copies(m) = {}
  /\ EventsOf(m) = {} => Copies(m) = {}
  /\ EventsOf(m) # {} =>
       \E a \in Actions : EventsOf(m) = {Event(m, a)} /\ Copies(m) \subseteq Allowed(m, a)

MessagesInv == \A m \in Governed : MsgInv(m)

\* What a step does to a message: nothing that can be seen from outside, or one of the
\* three things the gateway may do.
Verdicts(m) == {verdict[x] : x \in InHand(m)}
Same(m) == EventsOf(m)' = EventsOf(m) /\ Copies(m)' = Copies(m) /\ Verdicts(m)' = Verdicts(m)
Taken(m) ==
  /\ EventsOf(m) = {} /\ EventsOf(m)' = {} /\ Copies(m) = {} /\ Copies(m)' = {}
  /\ Verdicts(m) = {} /\ \E a \in Actions : Verdicts(m)' = {a}
Recorded(m) ==
  /\ EventsOf(m) = {} /\ Copies(m) = {} /\ Copies(m)' = {} /\ Verdicts(m)' = {}
  /\ \E a \in Actions : Verdicts(m) = {a} /\ EventsOf(m)' = {Event(m, a)}
Released(m) ==
  /\ Copies(m) = {} /\ Verdicts(m) = {} /\ Verdicts(m)' = {}
  /\ \E a \in Actions : /\ EventsOf(m) = {Event(m, a)} /\ EventsOf(m)' = {Event(m, a)}
                        /\ \E o \in Allowed(m, a) : Copies(m)' = {o}
Step(f, m) == MsgInv(m)' /\ (Same(m) \/ (m = f /\ (Taken(m) \/ Recorded(m) \/ Released(m))))

LEMMA GovernedParts ==
  ASSUME NEW m \in Governed
  PROVE  /\ m \in Messages /\ Evaluated(m) /\ m = <<m[1], m[2]>>
         /\ \/ m[1] = "in" /\ m[2] \in Posts /\ Ways(m) = {m[2]}
            \/ m[1] = "out" /\ m[2] \in Names
         /\ Ways(m) \subseteq Exchanges /\ Ways(m)' = Ways(m) /\ Stations(m)' = Stations(m)
  BY MessageParts DEF Governed, Ways, Exchanges, Stations

LEMMA InHandIs ==
  ASSUME NEW m \in Governed
  PROVE  /\ InHand(m) = {x \in Holding(m) : at[x] = "log"}
         /\ InHand(m)' = {x \in Holding(m)' : at'[x] = "log"}
  BY DEF InHand, Holding, Stations, Ways

\* A message that stays where it is.
LEMMA Untouched ==
  ASSUME NEW m \in Governed, MsgInv(m), EventsOf(m)' = EventsOf(m), Copies(m)' = Copies(m),
         Holding(m)' = Holding(m),
         \A x \in Holding(m) : at'[x] = at[x] /\ verdict'[x] = verdict[x],
         Framed(m)' => Framed(m), Unheard(m)' => Unheard(m)
  PROVE  MsgInv(m)' /\ Same(m)
<1>1. InHand(m)' = InHand(m)
  <2>1. /\ InHand(m) = {x \in Holding(m) : at[x] = "log"}
        /\ InHand(m)' = {x \in Holding(m)' : at'[x] = "log"}
    BY InHandIs
  <2> QED BY <2>1
<1>2. \A x \in InHand(m) : verdict'[x] = verdict[x]
  BY InHandIs
<1>3. Verdicts(m)' = Verdicts(m)
  BY <1>1, <1>2 DEF Verdicts
<1>4. \A a : Event(m, a)' = Event(m, a) /\ Allowed(m, a)' = Allowed(m, a)
  BY DEF Event, Allowed, OfHub, FormOf
<1>5. MsgInv(m)'
  BY <1>4 DEF MsgInv, Event, Allowed, OfHub, FormOf
<1> QED BY <1>3, <1>5 DEF Same

\* A step of a handler that has something else in hand, before and after.
LEMMA HeldElsewhere ==
  ASSUME TypeOK, NEW x \in Exchanges, Local(x), NEW m \in Governed,
         ~(at[x] \in Stations(m) /\ held[x] = m), ~(at'[x] \in Stations(m) /\ held'[x] = m)
  PROVE  /\ Holding(m)' = Holding(m)
         /\ \A y \in Holding(m) : at'[y] = at[y] /\ verdict'[y] = verdict[y]
<1>1. \A y \in Ways(m) : y = x \/ (at'[y] = at[y] /\ held'[y] = held[y] /\ verdict'[y] = verdict[y])
  BY GovernedParts DEF Local
<1> QED BY <1>1, GovernedParts DEF Holding

\* A handler begins to work on a message.
LEMMA Begun ==
  ASSUME TypeOK, NEW x \in Exchanges, Local(x), NEW m \in Governed, MsgInv(m), x \in Ways(m),
         Unheard(m) \/ Framed(m), at'[x] = "log", held'[x] = m, verdict'[x] \in Actions,
         ~Unheard(m)', ~Framed(m)', EventsOf(m)' = EventsOf(m), Copies(m)' = Copies(m)
  PROVE  MsgInv(m)' /\ Taken(m)
<1>1. Holding(m) = {} /\ EventsOf(m) = {} /\ Copies(m) = {}
  BY DEF MsgInv
<1>2. \A y \in Ways(m) : y = x \/ (at'[y] = at[y] /\ held'[y] = held[y])
  BY GovernedParts DEF Local
<1>3. Holding(m)' = {x}
  BY <1>1, <1>2, GovernedParts DEF Holding, Stations
<1>4. InHand(m) = {} /\ InHand(m)' = {x}
  BY <1>1, <1>3, InHandIs
<1>5. Verdicts(m) = {} /\ Verdicts(m)' = {verdict'[x]}
  BY <1>4 DEF Verdicts
<1>6. MsgInv(m)'
  BY <1>1, <1>3 DEF MsgInv
<1> QED BY <1>1, <1>5, <1>6 DEF Taken

\* It logs what was decided.
LEMMA Noted ==
  ASSUME TypeOK, NEW x \in Exchanges, Local(x), NEW m \in Governed, MsgInv(m), x \in Holding(m),
         at[x] = "log", at'[x] \in Stations(m) \ {"log"}, UNCHANGED <<held, verdict>>,
         EventsOf(m)' = EventsOf(m) \cup {Event(m, verdict[x])}, Copies(m)' = Copies(m),
         Framed(m)' => Framed(m), Unheard(m)' => Unheard(m)
  PROVE  MsgInv(m)' /\ Recorded(m)
<1>1. /\ Holding(m) = {x} /\ EventsOf(m) = {} /\ Copies(m) = {} /\ ~Framed(m) /\ ~Unheard(m)
      /\ verdict[x] \in Actions
  BY GovernedParts DEF MsgInv, TypeOK, Holding
<1>2. \A y \in Ways(m) : y = x \/ at'[y] = at[y]
  BY GovernedParts DEF Local
<1>3. Holding(m)' = {x}
  BY <1>1, <1>2, GovernedParts DEF Holding
<1>4. InHand(m) = {x} /\ InHand(m)' = {}
  BY <1>1, <1>3, InHandIs
<1>5. Verdicts(m) = {verdict[x]} /\ Verdicts(m)' = {}
  BY <1>4 DEF Verdicts
<1>6. EventsOf(m)' = {Event(m, verdict[x])} /\ Copies(m)' = {}
  BY <1>1
<1>7. MsgInv(m)'
  BY <1>1, <1>3, <1>6 DEF MsgInv, Event
<1> QED BY <1>1, <1>5, <1>6, <1>7 DEF Recorded

\* And it lets go of the message.
LEMMA Finished ==
  ASSUME TypeOK, NEW x \in Exchanges, Local(x), NEW m \in Governed, MsgInv(m), x \in Holding(m),
         at[x] # "log", at'[x] \in {"relay", "done"}, UNCHANGED <<held, verdict>>,
         EventsOf(m)' = EventsOf(m),
         Copies(m)' = Copies(m) \/ \E o \in Allowed(m, verdict[x]) : Copies(m)' = Copies(m) \cup {o},
         Framed(m)' => Framed(m), Unheard(m)' => Unheard(m)
  PROVE  MsgInv(m)' /\ (Same(m) \/ Released(m))
<1>1. /\ Holding(m) = {x} /\ EventsOf(m) = {Event(m, verdict[x])} /\ Copies(m) = {}
      /\ ~Framed(m) /\ ~Unheard(m) /\ verdict[x] \in Actions
  BY GovernedParts DEF MsgInv, TypeOK, Holding
<1>2. \A y \in Ways(m) : y = x \/ at'[y] = at[y]
  BY GovernedParts DEF Local
<1>3. Holding(m)' = {}
  BY <1>1, <1>2, GovernedParts DEF Holding, Stations
<1>4. InHand(m) = {} /\ InHand(m)' = {}
  BY <1>1, <1>3, InHandIs
<1>5. Verdicts(m) = {} /\ Verdicts(m)' = {}
  BY <1>4 DEF Verdicts
<1>6. Copies(m)' = {} \/ \E o \in Allowed(m, verdict[x]) : Copies(m)' = {o}
  BY <1>1
<1>7. MsgInv(m)'
  <2>1. Allowed(m, verdict[x])' = Allowed(m, verdict[x])
    BY DEF Allowed, OfHub, FormOf
  <2>2. \E a \in Actions : EventsOf(m)' = {Event(m, a)} /\ Copies(m)' \subseteq Allowed(m, a)
    BY <1>1, <1>6
  <2> QED BY <1>1, <1>3, <2>2 DEF MsgInv, Allowed, OfHub, FormOf, Event
<1> QED BY <1>1, <1>5, <1>6, <1>7 DEF Same, Released

-------------------------------------------------------------------------------
(* What each action does to all messages, its own and the others.          *)

\* Where neither the handlers, the log nor what has gone out changes.
LEMMA NothingTouched ==
  ASSUME UNCHANGED <<at, held, verdict, delivered, response, audit>>, spoken \subseteq spoken',
         NEW m \in Governed, MsgInv(m), Framed(m)' => Framed(m)
  PROVE  MsgInv(m)' /\ Same(m)
<1>1. EventsOf(m)' = EventsOf(m) /\ Copies(m)' = Copies(m)
  BY GovernedParts, EventsKept, CopiesKept
<1>2. Holding(m)' = Holding(m) /\ (Unheard(m)' => Unheard(m))
  BY DEF Holding, Stations, Ways, Unheard
<1> QED BY <1>1, <1>2, Untouched

\* A frame is taken from the body: it is in no body any more, and no other frame is new.
LEMMA FrameTaken ==
  ASSUME TypeOK, HandInv, BodyInv, MessagesInv, NEW x \in Exchanges, body[x] # << >>,
         at[x] = "relay", NEW f, f = Head(body[x]), TakeFrame(x, f),
         UNCHANGED <<delivered, spoken, audit>>,
         ~Framed(f.msg)', \A n : Framed(n)' => Framed(n), NEW m \in Governed
  PROVE  Step(f.msg, m)
<1>0. f \in Frame /\ f = Head(body[x])
  BY FirstFrameCarries
<1>1. /\ f.msg \in spoken /\ Carries(x, f.msg) /\ f.msg \in Messages /\ f.msg \in Everything
      /\ f.msg[1] = "out" /\ x \in Ways(f.msg) /\ Framed(f.msg) /\ f.whole \in BOOLEAN
  <2>1. f.msg \in spoken /\ Carries(x, f.msg) BY <1>0, FirstFrameCarries
  <2>2. f.msg \in Messages /\ f.whole \in BOOLEAN BY <1>0 DEF Frame
  <2>3. Framed(f.msg)
    <3>1. f = body[x][1] /\ 1 \in 1..Len(body[x]) BY <1>0, FirstFrame
    <3> QED BY <3>1 DEF Framed
  <2> QED BY <2>1, <2>2, <2>3, MessageParts, CarriedIsMessage
<1>2. TakeFrame(x, f) /\ ~Framed(f.msg)' OBVIOUS
<1>3. MsgInv(m) /\ EventsOf(m)' = EventsOf(m) BY EventsKept DEF MessagesInv
<1>4. Local(x) /\ at[x] \notin Stations(m)
  BY <1>0, <1>1, <1>2, TakenInHand DEF Stations
<1>5. Unheard(m)' => Unheard(m)
  <2>1. m[1] = "in" => m[2] \in Exchanges BY GovernedParts DEF Exchanges
  <2>2. at'[x] # "idle"
    BY <1>2 DEF TakeFrame, Decide, GoTo, AfterDecision, TypeOK
  <2> QED BY <1>4, <2>1, <2>2 DEF Unheard, Local
<1>6. CASE f.whole /\ Evaluated(f.msg)
  <2>1. /\ at'[x] = "log" /\ held'[x] = f.msg /\ verdict'[x] \in Actions /\ UNCHANGED response
    BY <1>2, <1>6 DEF TakeFrame, Decide, GoTo, AfterDecision, TypeOK
  <2>2. Copies(m)' = Copies(m) BY <2>1, GovernedParts, CopiesKept
  <2>3. CASE m = f.msg
    <3>1. ~Unheard(m)' BY <1>1, <2>3 DEF Unheard
    <3> QED BY <1>0, <1>1, <1>2, <1>3, <1>4, <2>1, <2>2, <2>3, <3>1, Begun DEF Step
  <2>4. CASE m # f.msg
    <3>1. /\ Holding(m)' = Holding(m)
          /\ \A y \in Holding(m) : at'[y] = at[y] /\ verdict'[y] = verdict[y]
      BY <1>4, <2>1, <2>4, HeldElsewhere
    <3> QED BY <1>3, <1>5, <2>2, <3>1, Untouched DEF Step
  <2> QED BY <2>3, <2>4
<1>7. CASE ~(f.whole /\ Evaluated(f.msg))
  <2>1. PICK what \in Kinds : what = IF f.whole THEN "message" ELSE "piece"
    BY DEF Kinds
  <2>2. /\ Respond(x, what, f.msg, "raw") /\ UNCHANGED <<held, verdict>>
        /\ at'[x] \in {"relay", "done"}
    BY <1>2, <1>7, <2>1 DEF TakeFrame, GoTo, TypeOK
  <2>3. ~(m = f.msg /\ what = Tells(m))
    BY <1>1, <1>7, <2>1, GovernedParts DEF Tells
  <2>4. Copies(m)' = Copies(m)
    BY <1>1, <2>2, <2>3, CopiesTold, GovernedParts
  <2>5. /\ Holding(m)' = Holding(m)
        /\ \A y \in Holding(m) : at'[y] = at[y] /\ verdict'[y] = verdict[y]
    BY <1>4, <2>2, HeldElsewhere DEF Stations
  <2> QED BY <1>3, <1>5, <2>4, <2>5, Untouched DEF Step
<1> QED BY <1>6, <1>7

\* A handler that had nothing in hand, or a message that does not decode, comes to
\* have nothing: no message changes.
LEMMA Moved ==
  ASSUME TypeOK, MessagesInv, NEW x \in Exchanges, Local(x), NEW m \in Governed,
         ~(at[x] \in Stations(m) /\ held[x] = m), ~(at'[x] \in Stations(m) /\ held'[x] = m),
         at'[x] # "idle", UNCHANGED audit, spoken' = spoken, Copies(m)' = Copies(m),
         Framed(m)' => Framed(m)
  PROVE  MsgInv(m)' /\ Same(m)
<1>1. Unheard(m)' => Unheard(m)
  <2>1. m[1] = "in" => m[2] \in Exchanges BY GovernedParts DEF Exchanges
  <2> QED BY <2>1 DEF Unheard, Local
<1>2. /\ Holding(m)' = Holding(m)
      /\ \A y \in Holding(m) : at'[y] = at[y] /\ verdict'[y] = verdict[y]
  BY HeldElsewhere
<1> QED BY <1>1, <1>2, EventsKept, Untouched DEF MessagesInv

LEMMA ReceiveStep ==
  ASSUME TypeOK, HandInv, BodyInv, MessagesInv, NEW p \in Posts, ReceivePost(p), NEW m \in Governed
  PROVE  Step(<<"in", p>>, m)
<1> USE DEF upstreamVars
<1>1. /\ at[p] = "idle" /\ p \in Exchanges /\ UNCHANGED <<body, spoken, delivered, response, audit>>
  BY PostMessages DEF ReceivePost
<1>2. /\ EventsOf(m)' = EventsOf(m) /\ Copies(m)' = Copies(m) /\ MsgInv(m) /\ (Framed(m)' <=> Framed(m))
      /\ at[p] \notin Stations(m)
  BY <1>1, GovernedParts, EventsKept, CopiesKept DEF MessagesInv, Framed, Stations
<1>3. CASE Evaluated(<<"in", p>>)
  <2>1. /\ at'[p] = "log" /\ held'[p] = <<"in", p>> /\ verdict'[p] \in Actions /\ Local(p)
    BY <1>1, <1>3 DEF ReceivePost, Decide, GoTo, AfterDecision, TypeOK, Local
  <2>2. CASE m = <<"in", p>>
    <3>1. ~Framed(m)' BY <1>2, <2>2 DEF Framed, BodyInv
    <3>2. Unheard(m) /\ ~Unheard(m)' BY <1>1, <2>1, <2>2 DEF Unheard
    <3>3. p \in Ways(m) BY <2>2 DEF Ways
    <3> QED BY <1>1, <1>2, <2>1, <2>2, <3>1, <3>2, <3>3, Begun DEF Step
  <2>3. CASE m # <<"in", p>>
    BY <1>1, <1>2, <2>1, <2>3, Moved DEF Step
  <2> QED BY <2>2, <2>3
<1>4. CASE ~Evaluated(<<"in", p>>)
  <2>1. at'[p] = "forward" /\ Local(p) /\ UNCHANGED <<held, verdict>>
    BY <1>1, <1>4 DEF ReceivePost, GoTo, TypeOK, Local
  <2>2. CASE p \notin Ways(m) \/ m[1] = "out"
    <3>1. CASE m[1] = "out"
      <4>1. at'[p] \notin Stations(m) BY <2>1, <3>1 DEF Stations
      <4> QED BY <1>1, <1>2, <2>1, <4>1, Moved DEF Step
    <3>2. CASE p \notin Ways(m) /\ m[1] = "in"
      <4>1. m[2] # p BY <3>2, GovernedParts
      <4>2. Holding(m)' = Holding(m)
            /\ \A y \in Holding(m) : at'[y] = at[y] /\ verdict'[y] = verdict[y]
        BY <1>1, <2>1, <3>2, GovernedParts DEF Holding, Local
      <4>3. Unheard(m)' => Unheard(m)
        BY <2>1, <3>2, <4>1, GovernedParts DEF Unheard, Local, Exchanges
      <4> QED BY <1>2, <4>2, <4>3, Untouched DEF Step
    <3> QED BY <2>2, <3>1, <3>2, GovernedParts
  <2>3. CASE p \in Ways(m) /\ m[1] = "in"
    BY <1>4, <2>3, GovernedParts
  <2> QED BY <2>2, <2>3, GovernedParts
<1> QED BY <1>3, <1>4

LEMMA LogStep ==
  ASSUME TypeOK, HandInv, BodyInv, MessagesInv, NEW x \in Exchanges, LogEvent(x), NEW m \in Governed
  PROVE  \A f : f = held[x] => Step(f, m)
<1> USE DEF upstreamVars
<1>1. /\ at[x] = "log" /\ at'[x] = AfterLog(held[x], verdict[x]) /\ Local(x)
      /\ UNCHANGED <<held, verdict, body, spoken, delivered, response>>
  BY DEF LogEvent, GoTo, TypeOK, Local
<1>2. /\ held[x] \in Governed
      /\ IF held[x][1] = "in" THEN x \in Posts /\ held[x] = <<"in", x>>
                              ELSE held[x] \in spoken /\ Carries(x, held[x])
  BY <1>1 DEF HandInv, HandOf
<1>3. /\ Copies(m)' = Copies(m) /\ MsgInv(m) /\ (Framed(m)' <=> Framed(m)) /\ at'[x] # "idle"
      /\ EventsOf(m)' = IF m = held[x] THEN EventsOf(m) \cup {Event(m, verdict[x])} ELSE EventsOf(m)
  BY <1>1, GovernedParts, EventsLogged, CopiesKept DEF MessagesInv, Framed, AfterLog
<1>4. Unheard(m)' => Unheard(m)
  <2>1. m[1] = "in" => m[2] \in Exchanges BY GovernedParts DEF Exchanges
  <2> QED BY <1>1, <1>3, <2>1 DEF Unheard, Local
<1>5. CASE m = held[x]
  <2>1. x \in Ways(m)
    <3>1. CASE m[1] = "in" BY <1>2, <1>5, <3>1 DEF Ways
    <3>2. CASE m[1] # "in" BY <1>2, <1>5, <3>2, CarriedIsMessage, GovernedParts
    <3> QED BY <3>1, <3>2
  <2>2. x \in Holding(m) BY <1>1, <1>5, <2>1 DEF Holding, Stations
  <2>3. at'[x] \in Stations(m) \ {"log"}
    BY <1>1, <1>5, GovernedParts DEF AfterLog, Stations
  <2> QED BY <1>1, <1>3, <1>4, <1>5, <2>2, <2>3, Noted DEF Step
<1>6. CASE m # held[x]
  <2>1. /\ Holding(m)' = Holding(m)
        /\ \A y \in Holding(m) : at'[y] = at[y] /\ verdict'[y] = verdict[y]
    BY <1>1, <1>6, HeldElsewhere
  <2> QED BY <1>3, <1>4, <1>6, <2>1, Untouched DEF Step
<1> QED BY <1>5, <1>6

\* What lets go of a message, whether or not something goes out.
LEMMA ReleaseStep ==
  ASSUME TypeOK, MessagesInv, NEW x \in Exchanges, Local(x), at'[x] \in {"relay", "done"},
         UNCHANGED <<held, verdict, body, spoken, audit>>, NEW m \in Governed, NEW n,
         m # n => ~(at[x] \in Stations(m) /\ held[x] = m) /\ Copies(m)' = Copies(m),
         m = n => /\ x \in Holding(m) /\ at[x] # "log"
                  /\ \/ Copies(m)' = Copies(m)
                     \/ \E o \in Allowed(m, verdict[x]) : Copies(m)' = Copies(m) \cup {o}
  PROVE  Step(n, m)
<1>1. MsgInv(m) /\ EventsOf(m)' = EventsOf(m) /\ (Framed(m)' <=> Framed(m))
  BY EventsKept DEF MessagesInv, Framed
<1>2. Unheard(m)' => Unheard(m)
  <2>1. m[1] = "in" => m[2] \in Exchanges BY GovernedParts DEF Exchanges
  <2> QED BY <2>1 DEF Unheard, Local
<1>3. CASE m = n
  BY <1>1, <1>2, <1>3, Finished DEF Step
<1>4. CASE m # n
  <2>1. at'[x] \notin Stations(m) BY DEF Stations
  <2> QED BY <1>1, <1>4, <2>1, Moved DEF Step
<1> QED BY <1>3, <1>4

LEMMA RefuseStep ==
  ASSUME TypeOK, HandInv, MessagesInv, NEW p \in Posts, Refuse(p), NEW m \in Governed
  PROVE  Step(<<"in", p>>, m)
<1> USE DEF upstreamVars
<1>1. /\ at[p] = "refuse" /\ at'[p] = "done" /\ p \in Exchanges /\ Local(p)
      /\ Respond(p, "refusal", held[p], "none") /\ "refusal" \in Kinds
      /\ UNCHANGED <<held, verdict, delivered, body, spoken, audit>>
  BY PostMessages DEF Refuse, GoTo, TypeOK, Local, Kinds
<1>2. held[p] = <<"in", p>> /\ verdict[p] = "deny" /\ held[p] \in Everything
  BY <1>1 DEF HandInv, HandOf, TypeOK
<1>3. Copies(m)' = IF m = held[p] /\ p \in Ways(m) /\ "refusal" = Tells(m)
                   THEN Copies(m) \cup {FormTold(m, "none")} ELSE Copies(m)
  BY <1>1, <1>2, CopiesTold, GovernedParts
<1>4. CASE m = <<"in", p>>
  <2>1. p \in Holding(m) /\ at[p] # "log" BY <1>1, <1>2, <1>4 DEF Holding, Stations, Ways
  <2>2. Copies(m)' = Copies(m) \cup {"refusal"} /\ "refusal" \in Allowed(m, verdict[p])
    BY <1>2, <1>3, <1>4 DEF Ways, Tells, FormTold, Allowed
  <2> QED BY <1>1, <1>4, <2>1, <2>2, ReleaseStep
<1>5. CASE m # <<"in", p>>
  BY <1>1, <1>2, <1>3, <1>5, ReleaseStep
<1> QED BY <1>4, <1>5

LEMMA ForwardStep ==
  ASSUME TypeOK, HandInv, MessagesInv, NEW p \in Posts, Forward(p) \/ ForwardFails(p), NEW m \in Governed
  PROVE  Step(<<"in", p>>, m)
<1> USE DEF upstreamVars
<1>1. /\ at[p] = "forward" /\ at'[p] \in {"relay", "done"} /\ p \in Exchanges /\ Local(p)
      /\ UNCHANGED <<held, verdict, body, spoken, audit>>
  BY PostMessages DEF Forward, ForwardFails, Fail, GoTo, TypeOK, Local
<1>2. Evaluated(<<"in", p>>) => held[p] = <<"in", p>> /\ verdict[p] # "deny"
  BY <1>1 DEF HandInv, HandOf
<1>3. Copies(m)' = Copies(m) \/ (m = <<"in", p>> /\ Copies(m)' = Copies(m) \cup {"raw"})
  <2>1. CASE Forward(p) BY <2>1, CopiesForwarded, GovernedParts
  <2>2. CASE ForwardFails(p)
    <3>1. Respond(p, "502", Reply(p), "none") /\ UNCHANGED delivered /\ "502" \in Kinds
      BY <2>2 DEF ForwardFails, Fail, Kinds
    <3> QED BY <1>1, <3>1, CopiesTold, GovernedParts, ReplyIsNamed DEF Tells
  <2> QED BY <2>1, <2>2
<1>4. CASE m = <<"in", p>>
  <2>0. Evaluated(<<"in", p>>) BY <1>4, GovernedParts
  <2>1. p \in Holding(m) /\ at[p] # "log" BY <1>1, <1>2, <1>4, <2>0 DEF Holding, Stations, Ways
  <2>2. "raw" \in Allowed(m, verdict[p])
    BY <1>2, <1>4, <2>0 DEF Allowed
  <2> QED BY <1>1, <1>3, <1>4, <2>1, <2>2, ReleaseStep
<1>5. CASE m # <<"in", p>>
  <2>1. CASE ~(at[p] \in Stations(m) /\ held[p] = m)
    BY <1>1, <1>3, <1>5, <2>1, ReleaseStep
  <2>2. CASE at[p] \in Stations(m) /\ held[p] = m
    <3>1. m[1] = "in" /\ m[2] # p /\ Ways(m) = {m[2]}
      BY <1>1, <1>5, <2>2, GovernedParts DEF Stations
    <3>2. Holding(m)' = Holding(m)
          /\ \A y \in Holding(m) : at'[y] = at[y] /\ verdict'[y] = verdict[y]
      BY <1>1, <3>1, GovernedParts DEF Holding, Local, Exchanges
    <3>3. Unheard(m)' => Unheard(m)
      BY <1>1, <3>1, GovernedParts DEF Unheard, Local, Exchanges
    <3>4. MsgInv(m) /\ EventsOf(m)' = EventsOf(m) /\ (Framed(m)' <=> Framed(m))
      BY <1>1, EventsKept DEF MessagesInv, Framed
    <3> QED BY <1>3, <1>5, <3>2, <3>3, <3>4, Untouched DEF Step
  <2> QED BY <2>1, <2>2
<1> QED BY <1>4, <1>5

LEMMA WriteStep ==
  ASSUME TypeOK, HandInv, MessagesInv, NEW x \in Exchanges, Write(x), NEW m \in Governed
  PROVE  \A f : f = held[x] => Step(f, m)
<1> USE DEF upstreamVars
<1>1. /\ at[x] = "write" /\ at'[x] \in {"relay", "done"} /\ Local(x)
      /\ UNCHANGED <<held, verdict, delivered, body, spoken, audit>>
  BY DEF Write, GoTo, TypeOK, Local
<1>2. held[x] \in Governed /\ held[x][1] = "out" /\ Carries(x, held[x]) /\ held[x] \in Everything
  BY <1>1 DEF HandInv, HandOf, TypeOK
<1>3. PICK form \in {"none", "raw", "redacted"} :
        form = IF Dropped(x) THEN "none" ELSE FormOf(held[x], verdict[x])
  BY DEF FormOf
<1>4. PICK what \in Kinds : what = IF Dropped(x) THEN "empty" ELSE "message"
  BY DEF Kinds
<1>5. Respond(x, what, held[x], form)
  BY <1>3, <1>4 DEF Write
<1>6. Copies(m)' = IF m = held[x] /\ x \in Ways(m) /\ what = Tells(m)
                   THEN Copies(m) \cup {FormTold(m, form)} ELSE Copies(m)
  BY <1>1, <1>2, <1>5, CopiesTold, GovernedParts
<1>7. CASE m = held[x]
  <2>1. x \in Ways(m) BY <1>2, <1>7, CarriedIsMessage, GovernedParts
  <2>2. x \in Holding(m) /\ at[x] # "log" BY <1>1, <1>2, <1>7, <2>1 DEF Holding, Stations
  <2>3. Dropped(x) => Copies(m)' = Copies(m)
    BY <1>4, <1>6, <1>7, <1>2 DEF Tells
  <2>4. ~Dropped(x) => form \in Allowed(m, verdict[x]) /\ Copies(m)' = Copies(m) \cup {form}
    <3>1. SUFFICES ASSUME ~Dropped(x)
                   PROVE  form \in Allowed(m, verdict[x]) /\ Copies(m)' = Copies(m) \cup {form}
      OBVIOUS
    <3>2. Copies(m)' = Copies(m) \cup {form}
      BY <1>2, <1>4, <1>6, <1>7, <2>1, <3>1 DEF Tells, FormTold
    <3>3. verdict[x] = "deny" => OfHub(m)
      <4>1. SUFFICES ASSUME verdict[x] = "deny" PROVE OfHub(m) OBVIOUS
      <4>2. Gateway[x] # "proxy" BY <3>1, <4>1 DEF Dropped
      <4>3. x \in Posts /\ m = Reply(x) BY <1>2, <1>7, <4>2 DEF Carries
      <4> QED BY <4>2, <4>3 DEF OfHub, Reply
    <3> QED BY <1>2, <1>3, <1>7, <3>1, <3>2, <3>3 DEF Allowed
  <2>5. \/ Copies(m)' = Copies(m)
        \/ \E o \in Allowed(m, verdict[x]) : Copies(m)' = Copies(m) \cup {o}
    BY <2>3, <2>4
  <2> QED BY <1>1, <1>7, <2>2, <2>5, ReleaseStep
<1>8. CASE m # held[x]
  BY <1>1, <1>6, <1>8, ReleaseStep
<1> QED BY <1>7, <1>8

\* A handler that waits for its upstream stops, with an error or without.
LEMMA QuietStep ==
  ASSUME TypeOK, MessagesInv, NEW x \in Exchanges, at[x] \in {"idle", "relay"},
         at'[x] \in {"relay", "done"}, Local(x),
         UNCHANGED <<held, verdict, delivered, spoken, audit>>,
         \A n : Framed(n)' => Framed(n),
         UNCHANGED response \/ \E what \in Kinds \ {"refusal", "message"} : Respond(x, what, Reply(x), "none"),
         NEW m \in Governed
  PROVE  MsgInv(m)' /\ Same(m)
<1>1. Copies(m)' = Copies(m)
  <2>1. CASE UNCHANGED response BY <2>1, CopiesKept, GovernedParts
  <2>2. ASSUME NEW what \in Kinds \ {"refusal", "message"}, Respond(x, what, Reply(x), "none")
        PROVE  Copies(m)' = Copies(m)
    BY <2>2, CopiesTold, GovernedParts, ReplyIsNamed DEF Tells
  <2> QED BY <2>1, <2>2
<1>2. at[x] \notin Stations(m) /\ at'[x] \notin Stations(m)
  BY DEF Stations
<1> QED BY <1>1, <1>2, Moved

\* What is read is in no body any more.
LEMMA FrameGone ==
  ASSUME TypeOK, BodyInv, NEW x \in Exchanges, body[x] # << >>,
         body' = [body EXCEPT ![x] = << >>] \/ body' = [body EXCEPT ![x] = Tail(body[x])]
  PROVE  /\ \A n : Framed(n)' => Framed(n)
         /\ \A f : f = Head(body[x]) => ~Framed(f.msg)'
<1>1. PICK n \in Nat : n = Len(body[x]) /\ n > 0
  BY FirstFrame
<1>2. /\ Len(Tail(body[x])) = Len(body[x]) - 1 /\ Head(body[x]) = body[x][1]
      /\ \A i \in 1..Len(body[x]) - 1 : Tail(body[x])[i] = body[x][i + 1]
  BY FirstFrame
<1>3. /\ \A y \in Exchanges \ {x} : body'[y] = body[y]
      /\ body'[x] = << >> \/ body'[x] = Tail(body[x])
  BY DEF TypeOK
<1>4. \A i \in 1..Len(body'[x]) : i + 1 \in 2..n /\ body'[x][i] = body[x][i + 1]
  <2>1. CASE body'[x] = << >> BY <2>1
  <2>2. CASE body'[x] = Tail(body[x])
    <3>1. Len(body'[x]) = n - 1 /\ \A i \in 1..n - 1 : body'[x][i] = body[x][i + 1]
      BY <1>1, <1>2, <2>2
    <3>2. \A i \in 1..n - 1 : i + 1 \in 2..n BY <1>1
    <3> QED BY <3>1, <3>2
  <2> QED BY <1>3, <2>1, <2>2
<1>5. ASSUME NEW y \in Exchanges, NEW i \in 1..Len(body'[y])
      PROVE  \E j \in 1..Len(body[y]) : body'[y][i] = body[y][j] /\ (y = x => j # 1)
  <2>1. CASE y = x
    <3>1. i + 1 \in 2..n /\ body'[x][i] = body[x][i + 1] BY <1>4, <1>5, <2>1
    <3>2. i + 1 \in 1..Len(body[x]) /\ i + 1 # 1 BY <1>1, <3>1
    <3> QED BY <2>1, <3>1, <3>2
  <2>2. CASE y # x
    BY <1>3, <1>5, <2>2
  <2> QED BY <2>1, <2>2
<1>6. \A k : Framed(k)' => Framed(k)
  BY <1>5 DEF Framed
<1>7. ASSUME NEW f, f = Head(body[x]), Framed(f.msg)' PROVE FALSE
  <2>0. PICK y \in Exchanges : \E i \in 1..Len(body'[y]) : body'[y][i].msg = f.msg
    BY <1>7 DEF Framed
  <2>1. PICK i \in 1..Len(body'[y]) : body'[y][i].msg = f.msg
    BY <2>0
  <2>2. PICK j \in 1..Len(body[y]) : body'[y][i] = body[y][j] /\ (y = x => j # 1)
    BY <1>5
  <2>3. 1 \in 1..Len(body[x]) /\ f = body[x][1] BY <1>1, <1>2, <1>7
  <2>4. body[y][j].msg = body[x][1].msg => y = x /\ j = 1
    BY <2>3 DEF BodyInv
  <2> QED BY <2>1, <2>2, <2>3, <2>4
<1> QED BY <1>6, <1>7

\* An upstream sends a message: it was unheard of, and is now in a body, and what else
\* was said is where it was.
LEMMA SpeakStep ==
  ASSUME TypeOK, BodyInv, MessagesInv, NEW n \in Messages, n[1] = "out",
         n \notin spoken, spoken' = spoken \cup {n},
         UNCHANGED <<at, held, verdict, delivered, response, audit>>,
         \A k : k # n => (Framed(k)' => Framed(k)), NEW m \in Governed
  PROVE  MsgInv(m)' /\ Same(m)
<1>1. CASE m # n
  BY <1>1, NothingTouched DEF MessagesInv
<1>2. CASE m = n
  <2>1. Unheard(m) /\ MsgInv(m) BY <1>2 DEF Unheard, MessagesInv
  <2>2. Holding(m) = {} /\ EventsOf(m) = {} /\ Copies(m) = {} BY <2>1 DEF MsgInv
  <2>3. EventsOf(m)' = {} /\ Copies(m)' = {}
    BY <2>2, EventsKept, CopiesKept, GovernedParts
  <2>4. Holding(m)' = {} BY <2>2 DEF Holding, Ways, Stations
  <2>5. MsgInv(m)' BY <2>3, <2>4 DEF MsgInv
  <2>6. InHand(m) = {} /\ InHand(m)' = {} BY <2>2, <2>4, InHandIs
  <2>7. Verdicts(m) = {} /\ Verdicts(m)' = {} BY <2>6 DEF Verdicts
  <2> QED BY <2>2, <2>3, <2>5, <2>7 DEF Same
<1> QED BY <1>1, <1>2

LEMMA AnswerStep ==
  ASSUME TypeOK, BodyInv, MessagesInv, NEW x \in Exchanges, AnswerJSON(x) \/ SendEvent(x), NEW m \in Governed
  PROVE  MsgInv(m)' /\ Same(m)
<1>1. UNCHANGED <<at, held, verdict, delivered, response, audit>>
  BY DEF AnswerJSON, SendEvent
<1>2. CASE UNCHANGED <<body, spoken>>
  BY <1>1, <1>2, NothingTouched DEF MessagesInv, Framed
<1>3. ASSUME NEW n \in Messages, n[1] = "out", n \notin spoken, spoken' = spoken \cup {n},
             NEW b \in Seq(Frame), b = << >> \/ b = body[x],
             body' = [body EXCEPT ![x] = Append(b, [msg |-> n, whole |-> TRUE])]
      PROVE  MsgInv(m)' /\ Same(m)
  <2>1. PICK new \in Frame : new = [msg |-> n, whole |-> TRUE] /\ new.msg = n
    <3>1. [msg |-> n, whole |-> TRUE] \in Frame BY DEF Frame
    <3> QED BY <3>1
  <2>2. body'[x] = Append(b, new) /\ \A y \in Exchanges \ {x} : body'[y] = body[y]
    BY <1>3, <2>1 DEF TypeOK
  <2>3. /\ Len(body'[x]) = Len(b) + 1 /\ Len(b) \in Nat /\ body'[x][Len(b) + 1] = new
        /\ \A i \in 1..Len(b) : body'[x][i] = b[i]
    BY <2>2
  <2>4. ASSUME NEW y \in Exchanges, NEW i \in 1..Len(body'[y]), body'[y][i].msg # n
        PROVE  i \in 1..Len(body[y]) /\ body[y][i].msg = body'[y][i].msg
    <3>1. CASE y # x BY <2>2, <2>4, <3>1
    <3>2. CASE y = x
      <4>1. i # Len(b) + 1 BY <2>1, <2>3, <2>4, <3>2
      <4>2. i \in 1..Len(b) BY <2>3, <2>4, <3>2, <4>1
      <4> QED BY <1>3, <2>3, <2>4, <3>2, <4>2
    <3> QED BY <3>1, <3>2
  <2>5. ASSUME NEW k, k # n, Framed(k)' PROVE Framed(k)
    <3>1. PICK y \in Exchanges : \E i \in 1..Len(body'[y]) : body'[y][i].msg = k
      BY <2>5 DEF Framed
    <3>2. PICK i \in 1..Len(body'[y]) : body'[y][i].msg = k
      BY <3>1
    <3>3. i \in 1..Len(body[y]) /\ body[y][i].msg = k BY <2>4, <2>5, <3>2
    <3> QED BY <3>3 DEF Framed
  <2> QED BY <1>1, <1>3, <2>5, SpeakStep
<1>4. CASE AnswerJSON(x)
  <2>1. x \in Posts /\ shape[x] = "none" BY <1>4 DEF AnswerJSON
  <2>2. Reply(x) \in Messages /\ Reply(x)[1] = "out" /\ Reply(x) \notin spoken
    BY <2>1, PostMessages DEF BodyInv, Reply
  <2>3. CASE /\ body' = [body EXCEPT ![x] = <<[msg |-> Reply(x), whole |-> TRUE]>>]
             /\ spoken' = spoken \cup {Reply(x)}
    <3>1. << >> \in Seq(Frame) /\ \A e : <<e>> = Append(<< >>, e)
      OBVIOUS
    <3>2. body' = [body EXCEPT ![x] = Append(<< >>, [msg |-> Reply(x), whole |-> TRUE])]
      BY <2>3, <3>1
    <3> QED BY <1>3, <2>2, <2>3, <3>1, <3>2
  <2> QED BY <1>2, <1>4, <2>3 DEF AnswerJSON
<1>5. CASE SendEvent(x)
  <2>1. PICK n \in (IF x \in Posts \ Notes THEN {Reply(x)} ELSE {}) \cup ({"out"} \X ServerNotes) :
          /\ n \notin spoken /\ spoken' = spoken \cup {n}
          /\ body' = [body EXCEPT ![x] = Append(body[x], [msg |-> n, whole |-> TRUE])]
    BY <1>5 DEF SendEvent
  <2>2. n \in Messages /\ n[1] = "out"
    <3>1. CASE n \in {"out"} \X ServerNotes BY <3>1 DEF Messages, Names
    <3>2. CASE x \in Posts /\ n = Reply(x) BY <3>2, PostMessages DEF Reply
    <3> QED BY <2>1, <3>1, <3>2
  <2>3. body[x] \in Seq(Frame) BY DEF TypeOK
  <2> QED BY <1>3, <2>1, <2>2, <2>3
<1> QED BY <1>4, <1>5

\* One step concerns one message at most; what it does to that one is what the gateway
\* may do.
LEMMA MessagesStep ==
  ASSUME TypeOK, HandInv, BodyInv, MessagesInv, [Next]_vars
  PROVE  \E f : \A m \in Governed : Step(f, m)
<1> USE DEF upstreamVars
<1>0. ASSUME \A m \in Governed : MsgInv(m)' /\ Same(m) PROVE \E f : \A m \in Governed : Step(f, m)
  BY <1>0 DEF Step
<1>1. ASSUME NEW x \in Posts, ReceivePost(x) PROVE \E f : \A m \in Governed : Step(f, m)
  BY <1>1, ReceiveStep
<1>2. ASSUME NEW x \in Exchanges, LogEvent(x) PROVE \E f : \A m \in Governed : Step(f, m)
  <2>1. PICK f : f = held[x] OBVIOUS
  <2>2. \A m \in Governed : Step(f, m) BY <1>2, <2>1, LogStep
  <2> QED BY <2>2
<1>3. ASSUME NEW x \in Posts, Refuse(x) PROVE \E f : \A m \in Governed : Step(f, m)
  BY <1>3, RefuseStep
<1>4. ASSUME NEW x \in Posts, Forward(x) \/ ForwardFails(x)
      PROVE  \E f : \A m \in Governed : Step(f, m)
  BY <1>4, ForwardStep
<1>5. ASSUME NEW x \in Exchanges, Write(x) PROVE \E f : \A m \in Governed : Step(f, m)
  <2>1. PICK f : f = held[x] OBVIOUS
  <2>2. \A m \in Governed : Step(f, m) BY <1>5, <2>1, WriteStep
  <2> QED BY <2>2
<1>6. ASSUME NEW x \in Exchanges, AnswerJSON(x) \/ SendEvent(x)
      PROVE  \E f : \A m \in Governed : Step(f, m)
  BY <1>0, <1>6, AnswerStep
<1>7. ASSUME NEW x \in Exchanges, EndStream(x) PROVE \E f : \A m \in Governed : Step(f, m)
  BY <1>0, <1>7, NothingTouched DEF EndStream, MessagesInv, Framed
<1>8. ASSUME NEW x \in Exchanges, Timeout(x) PROVE \E f : \A m \in Governed : Step(f, m)
  <2>1. UNCHANGED <<at, held, verdict, delivered, shape, spoken, response, audit>>
    BY <1>8 DEF Timeout
  <2>2. \A n : Framed(n)' => Framed(n)
    <3>1. CASE UNCHANGED body BY <3>1 DEF Framed
    <3>2. CASE body[x] # << >> /\ body' = [body EXCEPT ![x][Len(body[x])].whole = FALSE]
      <4>1. /\ body[x] \in Seq(Frame) /\ Len(body[x]) \in Nat /\ Len(body[x]) \in 1..Len(body[x])
            /\ body'[x] = [body[x] EXCEPT ![Len(body[x])].whole = FALSE]
            /\ \A y \in Exchanges \ {x} : body'[y] = body[y]
        BY <3>2 DEF TypeOK
      <4>2. Len(body'[x]) = Len(body[x]) /\ \A i \in 1..Len(body[x]) : body[x][i] \in Frame
        BY <4>1
      <4>3. \A i \in 1..Len(body[x]) : body'[x][i].msg = body[x][i].msg
        BY <4>1, <4>2 DEF Frame
      <4>4. \A y \in Exchanges : /\ Len(body'[y]) = Len(body[y])
                                 /\ \A i \in 1..Len(body[y]) : body'[y][i].msg = body[y][i].msg
        BY <4>1, <4>2, <4>3
      <4> QED BY <4>4 DEF Framed
    <3> QED BY <1>8, <3>1, <3>2 DEF Timeout
  <2> QED BY <1>0, <2>1, <2>2, NothingTouched DEF MessagesInv
<1>9. ASSUME NEW x \in Exchanges, OpenStream(x) \/ EndRelay(x) \/ RelayFails(x)
      PROVE  \E f : \A m \in Governed : Step(f, m)
  <2>1. /\ at[x] \in {"idle", "relay"} /\ at'[x] \in {"relay", "done"} /\ Local(x)
        /\ UNCHANGED <<held, verdict, delivered, body, spoken, audit>>
    BY <1>9 DEF OpenStream, EndRelay, RelayFails, Fail, GoTo, TypeOK, Local
  <2>2. UNCHANGED response \/ Respond(x, "502", Reply(x), "none")
    BY <1>9 DEF OpenStream, EndRelay, RelayFails, Fail
  <2>3. "502" \in Kinds \ {"refusal", "message"} BY DEF Kinds
  <2>4. \A n : Framed(n)' => Framed(n) BY <2>1 DEF Framed
  <2> QED BY <1>0, <2>1, <2>2, <2>3, <2>4, QuietStep
<1>10. ASSUME NEW x \in Exchanges, TakeBody(x) PROVE \E f : \A m \in Governed : Step(f, m)
  <2>1. at[x] = "relay" /\ UNCHANGED <<delivered, shape, ending, spoken, audit>>
    BY <1>10 DEF TakeBody
  <2>2. ASSUME \A n : Framed(n)' => Framed(n), UNCHANGED <<held, verdict>>, GoTo(x, "done"),
               NEW what \in {"empty", "502"}, Respond(x, what, Reply(x), "none")
        PROVE  \E f : \A m \in Governed : Step(f, m)
    <3>1. at'[x] = "done" /\ Local(x) BY <2>2 DEF GoTo, TypeOK, Local
    <3>2. what \in Kinds \ {"refusal", "message"} BY DEF Kinds
    <3> QED BY <1>0, <2>1, <2>2, <3>1, <3>2, QuietStep
  <2>3. CASE body[x] = << >>
    <3>1. UNCHANGED <<held, verdict, body>> /\ GoTo(x, "done")
          /\ \E what \in {"empty", "502"} : Respond(x, what, Reply(x), "none")
      BY <1>10, <2>3 DEF TakeBody, Fail
    <3>2. \A n : Framed(n)' => Framed(n) BY <3>1 DEF Framed
    <3> QED BY <2>2, <3>1, <3>2
  <2>4. CASE body[x] # << >>
    <3>1. body' = [body EXCEPT ![x] = << >>] BY <1>10, <2>4 DEF TakeBody
    <3>2. PICK f : f = Head(body[x]) OBVIOUS
    <3>3. (\A n : Framed(n)' => Framed(n)) /\ ~Framed(f.msg)'
      BY <2>4, <3>1, <3>2, FrameGone
    <3>4. CASE TakeFrame(x, f)
      BY <2>1, <2>4, <3>2, <3>3, <3>4, FrameTaken
    <3>5. CASE Fail(x) /\ UNCHANGED <<held, verdict>>
      BY <2>2, <3>3, <3>5 DEF Fail
    <3> QED BY <1>10, <2>4, <3>2, <3>4, <3>5 DEF TakeBody
  <2> QED BY <2>3, <2>4
<1>11. ASSUME NEW x \in Exchanges, TakeEvent(x) PROVE \E f : \A m \in Governed : Step(f, m)
  <2>1. /\ at[x] = "relay" /\ body[x] # << >> /\ body' = [body EXCEPT ![x] = Tail(body[x])]
        /\ TakeFrame(x, Head(body[x])) /\ UNCHANGED <<delivered, shape, ending, spoken, audit>>
    BY <1>11 DEF TakeEvent
  <2>2. PICK f : f = Head(body[x]) OBVIOUS
  <2>3. (\A n : Framed(n)' => Framed(n)) /\ ~Framed(f.msg)'
    BY <2>1, <2>2, FrameGone
  <2> QED BY <2>1, <2>2, <2>3, FrameTaken
<1>12. CASE UNCHANGED vars
  BY <1>0, <1>12, NothingTouched DEF vars, MessagesInv, Framed
<1> QED
  BY <1>1, <1>2, <1>3, <1>4, <1>5, <1>6, <1>7, <1>8, <1>9, <1>10, <1>11, <1>12
     DEF Next, Arrive, HandlerStep, Upstream, OpenStream, Exchanges

-------------------------------------------------------------------------------
(* What the log says, and that the promise is kept.                        *)

LEMMA OnlyAllowed ==
  ASSUME NEW m \in Governed, MsgInv(m), NEW f \in Copies(m), NEW h \in Copies(m)
  PROVE  f = h /\ EventsOf(m) # {}
  BY DEF MsgInv, Allowed

\* An event is in the log at one place, and that of a reply behind that of its call.
LEMMA LoggedStep ==
  ASSUME TypeOK, HandInv, BodyInv, MessagesInv, MessagesInv', LoggedFirst, [Next]_vars
  PROVE  LoggedFirst'
<1>1. \A m \in Governed : \A f, h \in Copies(m)' : f = h /\ EventsOf(m)' # {}
  <2> SUFFICES ASSUME NEW m \in Governed PROVE \A f, h \in Copies(m)' : f = h /\ EventsOf(m)' # {}
    OBVIOUS
  <2>1. EventsOf(m)' = {} => Copies(m)' = {}
    BY DEF MessagesInv, MsgInv, Governed, Evaluated
  <2>2. EventsOf(m)' # {} => \E a \in Actions : Copies(m)' \subseteq Allowed(m, a)
    BY DEF MessagesInv, MsgInv, Governed, Evaluated, Allowed, OfHub, FormOf
  <2>3. \A a : \A f, h \in Allowed(m, a) : f = h
    BY DEF Allowed
  <2> QED BY <2>1, <2>2, <2>3
<1>2. CASE UNCHANGED audit
  BY <1>1, <1>2 DEF LoggedFirst, Governed, Evaluated
<1>3. ASSUME NEW x \in Exchanges, LogEvent(x) PROVE LoggedFirst'
  <2>1. at[x] = "log" /\ held[x] \in Governed
        /\ IF held[x][1] = "in" THEN x \in Posts /\ held[x] = <<"in", x>>
                                ELSE held[x] \in spoken /\ Carries(x, held[x])
    BY <1>3 DEF LogEvent, HandInv, HandOf
  <2>2. PICK m \in Governed, a \in Actions : m = held[x] /\ a = verdict[x]
    BY <2>1 DEF TypeOK
  <2>3. PICK new \in Logs : new = Event(m, a) /\ new.dir = m[1] /\ new.name = m[2]
    <3>1. Event(m, a) \in Logs BY GovernedParts DEF Logs
    <3>2. Event(m, a).dir = m[1] /\ Event(m, a).name = m[2] BY DEF Event
    <3> QED BY <3>1, <3>2
  <2>4. audit' = Append(audit, new) /\ audit \in Seq(Logs)
    BY <1>3, <2>2, <2>3 DEF LogEvent, TypeOK
  <2>5. /\ Len(audit') = Len(audit) + 1 /\ Len(audit) \in Nat /\ audit'[Len(audit) + 1] = new
        /\ \A i \in 1..Len(audit) : audit'[i] = audit[i]
    BY <2>4
  <2>6. EventsOf(m) = {}
    <3>1. x \in Ways(m)
      <4>1. CASE m[1] = "in" BY <2>1, <2>2, <4>1 DEF Ways
      <4>2. CASE m[1] # "in" BY <2>1, <2>2, <4>2, CarriedIsMessage, GovernedParts
      <4> QED BY <4>1, <4>2
    <3>2. x \in Holding(m) BY <2>1, <2>2, <3>1 DEF Holding, Stations
    <3> QED BY <2>1, <3>2 DEF MessagesInv, MsgInv
  <2>7. \A i \in 1..Len(audit) : ~(audit[i].dir = new.dir /\ audit[i].name = new.name)
    <3>1. \A i \in 1..Len(audit) : audit[i] \in Elements(audit) BY DEF Elements
    <3> QED BY <2>3, <2>6, <3>1 DEF EventsOf
  <2>8. \A i \in 1..Len(audit') : i = Len(audit) + 1 \/ (i \in 1..Len(audit) /\ audit'[i] = audit[i])
    BY <2>5
  <2>9. ASSUME NEW i \in 1..Len(audit'), NEW j \in 1..Len(audit'),
               audit'[i].name = audit'[j].name, audit'[i].dir = audit'[j].dir
        PROVE  i = j
    <3>1. CASE i \in 1..Len(audit) /\ j \in 1..Len(audit)
      BY <2>5, <2>9, <3>1 DEF LoggedFirst
    <3>2. CASE i = Len(audit) + 1 /\ j \in 1..Len(audit)
      BY <2>5, <2>7, <2>9, <3>2
    <3>3. CASE j = Len(audit) + 1 /\ i \in 1..Len(audit)
      BY <2>5, <2>7, <2>9, <3>3
    <3> QED BY <2>8, <3>1, <3>2, <3>3
  <2>10. ASSUME NEW i \in 1..Len(audit'), audit'[i].dir = "out", <<"in", audit'[i].name>> \in Governed
         PROVE  \E j \in 1..i : audit'[j].dir = "in" /\ audit'[j].name = audit'[i].name
    <3>1. CASE i \in 1..Len(audit)
      <4>1. PICK j \in 1..i : audit[j].dir = "in" /\ audit[j].name = audit[i].name
        BY <2>5, <2>10, <3>1 DEF LoggedFirst
      <4>2. j \in 1..Len(audit) BY <2>5, <3>1
      <4> QED BY <2>5, <3>1, <4>1, <4>2
    <3>2. CASE i = Len(audit) + 1
      <4>1. m[1] = "out" /\ <<"in", m[2]>> \in Governed BY <2>3, <2>5, <2>10, <3>2
      <4>2. PICK p \in Posts : p = m[2] BY <4>1, GovernedParts
      <4>3. m = Reply(p) /\ m \in spoken BY <2>1, <2>2, <4>1, <4>2, GovernedParts DEF Reply
      <4>4. p \in delivered BY <4>3 DEF BodyInv
      <4>5. "raw" \in Copies(<<"in", p>>) BY <4>2, <4>4 DEF Copies
      <4>6. EventsOf(<<"in", p>>) # {} BY <4>1, <4>2, <4>5 DEF MessagesInv, MsgInv
      <4>7. PICK j \in 1..Len(audit) : audit[j].dir = "in" /\ audit[j].name = p
        BY <4>6 DEF EventsOf, Elements
      <4>8. j \in 1..i BY <2>5, <3>2
      <4> QED BY <2>3, <2>5, <3>2, <4>2, <4>7, <4>8
    <3> QED BY <2>8, <3>1, <3>2
  <2> QED BY <1>1, <2>9, <2>10 DEF LoggedFirst, Governed, Evaluated
<1> QED
  BY <1>2, <1>3 DEF Next, Arrive, HandlerStep, Upstream, ReceivePost, OpenStream, Refuse, Forward,
     ForwardFails, AnswerJSON, SendEvent, EndStream, Timeout, TakeBody, TakeEvent, EndRelay,
     RelayFails, Write, vars

TransportInv == TypeOK /\ HandInv /\ BodyInv /\ MessagesInv /\ LoggedFirst

LEMMA TransportInit == Init => TransportInv
<1> SUFFICES ASSUME Init PROVE TransportInv
  OBVIOUS
<1>1. /\ at = [x \in Exchanges |-> "idle"] /\ body = [x \in Exchanges |-> << >>]
      /\ response = [x \in Exchanges |-> << >>] /\ audit = << >> /\ delivered = {} /\ spoken = {}
  BY DEF Init
<1>2. TypeOK
  <2>1. << >> \in Seq(Frame) /\ << >> \in Seq(Chunk) /\ << >> \in Seq(Logs)
    OBVIOUS
  <2>2. held \in [Exchanges -> Everything] BY ReplyIsNamed DEF Init
  <2> QED BY <1>1, <2>1, <2>2 DEF Init, TypeOK, Places, Actions
<1>3. HandInv BY <1>1 DEF HandInv, HandOf
<1>4. BodyInv BY <1>1 DEF BodyInv
<1>5. \A m \in Governed : EventsOf(m) = {} /\ Copies(m) = {} /\ Holding(m) = {}
  <2> TAKE m \in Governed
  <2>1. Elements(<< >>) = {} BY DEF Elements
  <2>2. EventsOf(m) = {} BY <1>1, <2>1 DEF EventsOf
  <2>3. Chunks(m) = {}
    <3>1. \A x \in Ways(m) : Elements(response[x]) = {} BY <1>1, <2>1, GovernedParts
    <3> QED BY <3>1 DEF Chunks
  <2>4. Copies(m) = {} BY <1>1, <2>3 DEF Copies
  <2>5. Holding(m) = {}
    <3>1. \A x \in Ways(m) : at[x] = "idle" BY <1>1, GovernedParts
    <3> QED BY <3>1 DEF Holding, Stations
  <2> QED BY <2>2, <2>4, <2>5
<1>6. MessagesInv BY <1>5 DEF MessagesInv, MsgInv
<1>7. LoggedFirst BY <1>1, <1>5 DEF LoggedFirst
<1> QED BY <1>2, <1>3, <1>4, <1>6, <1>7 DEF TransportInv

LEMMA TransportStep == TransportInv /\ [Next]_vars => TransportInv'
<1> SUFFICES ASSUME TransportInv, [Next]_vars PROVE TransportInv'
  OBVIOUS
<1>1. TypeOK /\ HandInv /\ BodyInv /\ MessagesInv /\ LoggedFirst BY DEF TransportInv
<1>2. TypeOK' /\ HandInv' /\ BodyInv' BY <1>1, TypeStep, HandStep, BodyStep
<1>3. MessagesInv'
  <2>1. \A m \in Governed : MsgInv(m)' BY <1>1, MessagesStep DEF Step
  <2> QED BY <2>1 DEF MessagesInv, Governed, Evaluated
<1>4. LoggedFirst' BY <1>1, <1>3, LoggedStep
<1> QED BY <1>2, <1>3, <1>4 DEF TransportInv

\* What both gateways keep, over HTTP and SSE, whatever is served side by side and
\* whatever times out (http.go:110-310, hub.go:80-170).
THEOREM TransportsAgree == Spec => []TransportInv
  BY TransportInit, TransportStep, PTL DEF Spec

\* The log is written ahead: a message that decodes has one event, which is there before
\* the message or its refusal goes out, and before that of the reply to it.
THEOREM LogIsAhead == Spec => []LoggedFirst
<1>1. TransportInv => LoggedFirst BY DEF TransportInv
<1> QED BY <1>1, TransportsAgree, PTL

-------------------------------------------------------------------------------
(* The refinement.                                                         *)

LEMMA OnlyValues ==
  /\ \A x : TheOnly({}, x) = x
  /\ \A x, y : TheOnly({y}, x) = y
  BY DEF TheOnly

\* The three values of a message, of what there is in the log, in hand and gone out.
DecisionOf(events, verdicts) == TheOnly({e.action : e \in events} \cup verdicts, "none")
EntryOf(events) == TheOnly({e.action : e \in events}, "none")
FormOut(copies) == TheOnly(copies, "none")

LEMMA ValuesOf ==
  /\ EntryOf({}) = "none" /\ FormOut({}) = "none" /\ DecisionOf({}, {}) = "none"
  /\ \A o : FormOut({o}) = o
  /\ \A a : DecisionOf({}, {a}) = a
  /\ \A m, a : EntryOf({Event(m, a)}) = a /\ DecisionOf({Event(m, a)}, {}) = a
<1>1. {e.action : e \in {}} = {}
  OBVIOUS
<1>2. \A m, a : {e.action : e \in {Event(m, a)}} = {a}
  BY DEF Event
<1>3. EntryOf({}) = "none" /\ FormOut({}) = "none" /\ \A o : FormOut({o}) = o
  BY <1>1, OnlyValues DEF EntryOf, FormOut
<1>4. \A v : DecisionOf({}, v) = TheOnly(v, "none")
  <2> TAKE v
  <2>1. {e.action : e \in {}} \cup v = v BY <1>1
  <2> QED BY <2>1 DEF DecisionOf
<1>5. ASSUME NEW m, NEW a
      PROVE  EntryOf({Event(m, a)}) = a /\ DecisionOf({Event(m, a)}, {}) = a
  <2>1. {e.action : e \in {Event(m, a)}} = {a} /\ {a} \cup {} = {a}
    BY <1>2
  <2> QED BY <2>1, OnlyValues DEF EntryOf, DecisionOf
<1>6. DecisionOf({}, {}) = "none" /\ \A a : DecisionOf({}, {a}) = a
  <2>1. DecisionOf({}, {}) = TheOnly({}, "none") BY <1>4
  <2>2. \A a : DecisionOf({}, {a}) = TheOnly({a}, "none") BY <1>4
  <2> QED BY <2>1, <2>2, OnlyValues
<1> QED BY <1>3, <1>5, <1>6

LEMMA OutcomesAre ==
  ASSUME NEW m \in Governed, NEW a \in Actions
  PROVE  Allowed(m, a) = Promise!Outcome(m, a)
<1>1. CASE m[1] = "in"
  <2>1. m \in {"in"} \X Posts BY <1>1, GovernedParts
  <2>2. m \notin {n \in Redactable : n[1] = "out"} BY <1>1
  <2> QED BY <1>1, <2>1, <2>2 DEF Allowed, Promise!Outcome, Actions
<1>2. CASE m[1] = "out"
  <2>1. m \notin {"in"} \X Posts BY <1>2
  <2>2. m \in {n \in Governed : n[1] = "out" /\ ~OfHub(n)} <=> ~OfHub(m) BY <1>2
  <2>3. m \in {n \in Redactable : n[1] = "out"} <=> m \in Redactable BY <1>2
  <2> QED BY <1>2, <2>1, <2>2, <2>3 DEF Allowed, Promise!Outcome, FormOf, Actions
<1> QED BY <1>1, <1>2, GovernedParts

LEMMA PromiseStep ==
  ASSUME NEW f, \A m \in Governed : Step(f, m)
  PROVE  [Promise!Next]_(Promise!vars)
<1> DEFINE decided == [m \in Governed |-> DecisionOf(EventsOf(m), Verdicts(m))]
           logged == [m \in Governed |-> EntryOf(EventsOf(m))]
           left == [m \in Governed |-> FormOut(Copies(m))]
<1>0. Governed' = Governed BY DEF Governed, Evaluated
\* What the definitions of the refinement come to.
<1>1. ASSUME UNCHANGED <<decided, logged, left>> PROVE UNCHANGED Promise!vars
  BY <1>1 DEF Promise!vars, DecisionOf, Verdicts, EntryOf, FormOut
<1>2. ASSUME NEW m \in Governed, decided[m] = "none", UNCHANGED <<logged, left>>,
             NEW a \in Actions, decided' = [decided EXCEPT ![m] = a]
      PROVE  Promise!Next
  <2>1. Promise!Decide(m)
    BY <1>2 DEF Promise!Decide, Promise!Actions, Actions, DecisionOf, Verdicts, EntryOf, FormOut
  <2> QED BY <2>1 DEF Promise!Next
<1>3. ASSUME NEW m \in Governed, decided[m] # "none", logged[m] = "none",
             UNCHANGED <<decided, left>>, logged' = [logged EXCEPT ![m] = decided[m]]
      PROVE  Promise!Next
  <2>1. Promise!Log(m)
    BY <1>3 DEF Promise!Log, DecisionOf, Verdicts, EntryOf, FormOut
  <2> QED BY <2>1 DEF Promise!Next
<1>4. ASSUME NEW m \in Governed, decided[m] # "none", left[m] = "none",
             UNCHANGED <<decided, logged>>,
             NEW o \in Promise!Outcome(m, decided[m]), left' = [left EXCEPT ![m] = o]
      PROVE  Promise!Next
  <2>1. Promise!Leave(m)
    BY <1>4 DEF Promise!Leave, DecisionOf, Verdicts, EntryOf, FormOut
  <2> QED BY <2>1 DEF Promise!Next
\* The values of the message that the step concerns, and of the others.
<1>5. ASSUME NEW m \in Governed, \A n \in Governed \ {m} : Same(n)
      PROVE  /\ decided' = [decided EXCEPT ![m] = DecisionOf(EventsOf(m)', Verdicts(m)')]
             /\ logged' = [logged EXCEPT ![m] = EntryOf(EventsOf(m)')]
             /\ left' = [left EXCEPT ![m] = FormOut(Copies(m)')]
             /\ decided[m] = DecisionOf(EventsOf(m), Verdicts(m))
             /\ logged[m] = EntryOf(EventsOf(m)) /\ left[m] = FormOut(Copies(m))
             /\ EntryOf(EventsOf(m)') = EntryOf(EventsOf(m)) => UNCHANGED logged
             /\ FormOut(Copies(m)') = FormOut(Copies(m)) => UNCHANGED left
             /\ DecisionOf(EventsOf(m)', Verdicts(m)') = DecisionOf(EventsOf(m), Verdicts(m)) =>
                  UNCHANGED decided
  BY <1>0, <1>5 DEF Same
<1>6. ASSUME \A n \in Governed : Same(n) PROVE UNCHANGED <<decided, logged, left>>
  BY <1>0, <1>6 DEF Same
<1>7. \A a \in Actions : a # "none" BY DEF Actions
<1> HIDE DEF decided, logged, left
<1>8. CASE \A n \in Governed : Same(n)
  BY <1>1, <1>6, <1>8
<1>9. CASE ~\A n \in Governed : Same(n)
  <2>1. PICK m \in Governed : ~Same(m) BY <1>9
  <2>2. m = f /\ (Taken(m) \/ Recorded(m) \/ Released(m)) BY <2>1 DEF Step
  <2>3. \A n \in Governed \ {m} : Same(n) BY <2>2 DEF Step
  <2>4. CASE Taken(m)
    <3>1. PICK a \in Actions : Verdicts(m)' = {a} BY <2>4 DEF Taken
    <3>2. /\ decided[m] = "none" /\ decided' = [decided EXCEPT ![m] = a]
          /\ UNCHANGED <<logged, left>>
      BY <1>5, <2>3, <2>4, <3>1, ValuesOf DEF Taken
    <3> QED BY <1>2, <3>2
  <2>5. CASE Recorded(m)
    <3>1. PICK a \in Actions : Verdicts(m) = {a} /\ EventsOf(m)' = {Event(m, a)}
      BY <2>5 DEF Recorded
    <3>2. /\ decided[m] = a /\ logged[m] = "none" /\ logged' = [logged EXCEPT ![m] = a]
          /\ UNCHANGED <<decided, left>>
      <4>1. /\ EventsOf(m) = {} /\ Verdicts(m) = {a} /\ EventsOf(m)' = {Event(m, a)}
            /\ Verdicts(m)' = {} /\ Copies(m)' = Copies(m)
        BY <2>5, <3>1 DEF Recorded
      <4>2. /\ DecisionOf(EventsOf(m), Verdicts(m)) = a /\ EntryOf(EventsOf(m)) = "none"
            /\ DecisionOf(EventsOf(m)', Verdicts(m)') = a /\ EntryOf(EventsOf(m)') = a
            /\ FormOut(Copies(m)') = FormOut(Copies(m))
        <5>1. /\ DecisionOf({}, {a}) = a /\ EntryOf({}) = "none"
              /\ DecisionOf({Event(m, a)}, {}) = a /\ EntryOf({Event(m, a)}) = a
          BY ValuesOf
        <5> QED BY <4>1, <5>1
      <4> QED BY <1>5, <2>3, <4>2
    <3> QED BY <1>3, <1>7, <3>2
  <2>6. CASE Released(m)
    <3>1. PICK a \in Actions : /\ EventsOf(m) = {Event(m, a)} /\ EventsOf(m)' = {Event(m, a)}
                               /\ \E o \in Allowed(m, a) : Copies(m)' = {o}
      BY <2>6 DEF Released
    <3>2. PICK o \in Allowed(m, a) : Copies(m)' = {o} BY <3>1
    <3>3. /\ decided[m] = a /\ left[m] = "none" /\ left' = [left EXCEPT ![m] = o]
          /\ UNCHANGED <<decided, logged>>
      <4>1. EventsOf(m)' = EventsOf(m) /\ Verdicts(m) = {} /\ Verdicts(m)' = {} /\ Copies(m) = {}
        BY <2>6, <3>1 DEF Released
      <4>2. /\ DecisionOf(EventsOf(m), Verdicts(m)) = a /\ FormOut(Copies(m)) = "none"
            /\ DecisionOf(EventsOf(m)', Verdicts(m)') = DecisionOf(EventsOf(m), Verdicts(m))
            /\ EntryOf(EventsOf(m)') = EntryOf(EventsOf(m)) /\ FormOut(Copies(m)') = o
        <5>1. /\ DecisionOf({Event(m, a)}, {}) = a /\ FormOut({}) = "none" /\ FormOut({o}) = o
          BY ValuesOf
        <5> QED BY <3>1, <3>2, <4>1, <5>1
      <4> QED BY <1>5, <2>3, <4>2
    <3>4. o \in Promise!Outcome(m, decided[m]) BY <3>2, <3>3, OutcomesAre
    <3> QED BY <1>4, <1>7, <3>3, <3>4
  <2> QED BY <2>2, <2>4, <2>5, <2>6
<1> QED BY <1>8, <1>9

\* The proxy and the hub keep the gateway's promise for every message that decodes, in
\* the form HTTP allows (http.go:126-155, 272-310, hub.go:96-162).
THEOREM TransportsEnforce == Spec => IsEnforcement
<1>1. Init => Promise!Init
  <2> SUFFICES ASSUME Init PROVE Promise!Init
    OBVIOUS
  <2>1. ASSUME NEW m \in Governed PROVE EventsOf(m) = {} /\ Copies(m) = {} /\ InHand(m) = {}
    <3>1. MsgInv(m) /\ Unheard(m)
      <4>1. MessagesInv BY TransportInit DEF TransportInv
      <4>2. m[1] = "in" => m[2] \in Exchanges BY GovernedParts DEF Exchanges
      <4> QED BY <4>1, <4>2 DEF MessagesInv, Unheard, Init
    <3>2. EventsOf(m) = {} /\ Copies(m) = {} /\ Holding(m) = {} BY <3>1 DEF MsgInv
    <3> QED BY <3>2, InHandIs
  <2>2. ASSUME NEW m \in Governed
        PROVE  /\ TheOnly({e.action : e \in EventsOf(m)} \cup {verdict[x] : x \in InHand(m)}, "none") = "none"
               /\ TheOnly({e.action : e \in EventsOf(m)}, "none") = "none"
               /\ TheOnly(Copies(m), "none") = "none"
    <3>1. EventsOf(m) = {} /\ Copies(m) = {} /\ {verdict[x] : x \in InHand(m)} = {}
      BY <2>1
    <3>2. {e.action : e \in EventsOf(m)} = {} BY <3>1
    <3>3. {e.action : e \in EventsOf(m)} \cup {verdict[x] : x \in InHand(m)} = {}
      BY <3>1, <3>2
    <3> QED BY <3>1, <3>2, <3>3, OnlyValues
  <2> QED BY <2>2 DEF Promise!Init
<1>2. TransportInv /\ [Next]_vars => [Promise!Next]_(Promise!vars)
  <2> SUFFICES ASSUME TransportInv, [Next]_vars PROVE [Promise!Next]_(Promise!vars)
    OBVIOUS
  <2>1. PICK f : \A m \in Governed : Step(f, m)
    BY MessagesStep DEF TransportInv
  <2> QED BY <2>1, PromiseStep
<1> QED
  BY <1>1, <1>2, TransportsAgree, PTL DEF Spec, IsEnforcement, Promise!Spec

-------------------------------------------------------------------------------
(* The log as `dvarapala logs` shows it.                                   *)

\* Induction over the natural numbers, from the well-foundedness of <.
LEMMA LeastNumber ==
  ASSUME NEW S, S \subseteq Nat, S # {}
  PROVE  \E m \in S : \A k \in S : m <= k
<1>1. PICK m \in S : \A k \in S : ~ (<<k, m>> \in OpToRel(<, Nat))
  BY NatLessThanWellFounded, WFMin, Zenon
<1>2. \A k \in S : ~ (k < m)
  BY <1>1, Zenon DEF OpToRel
<1> QED BY <1>2

LEMMA Induction ==
  ASSUME NEW S, S \subseteq Nat, 0 \in S, \A n \in S : n + 1 \in S
  PROVE  S = Nat
<1> SUFFICES ASSUME Nat \ S # {} PROVE FALSE
  OBVIOUS
<1>1. PICK m \in Nat \ S : \A k \in Nat \ S : m <= k
  BY LeastNumber
<1>2. m - 1 \in S
  BY <1>1
<1> QED BY <1>1, <1>2

\* What the formatter remembers after each of the first n lines: there is such a function.
IsMemory(seen, events, n) ==
  seen = [i \in 0..n |-> IF i = 0 THEN Formatter!NothingSeen
                         ELSE Formatter!AfterLine(seen[i - 1], events[i])]

LEMMA MemoryExists ==
  ASSUME NEW events, NEW n \in Nat
  PROVE  \E seen : IsMemory(seen, events, n)
<1> DEFINE S == {k \in Nat : \E seen : IsMemory(seen, events, k)}
<1>1. 0 \in S
  <2> DEFINE f == [i \in 0..0 |-> Formatter!NothingSeen]
  <2>1. f = [i \in 0..0 |-> IF i = 0 THEN Formatter!NothingSeen
                            ELSE Formatter!AfterLine(f[i - 1], events[i])]
    OBVIOUS
  <2> HIDE DEF f
  <2> QED BY <2>1 DEF IsMemory
<1>2. ASSUME NEW k \in S PROVE k + 1 \in S
  <2>1. PICK f : IsMemory(f, events, k)
    OBVIOUS
  <2> DEFINE g == [i \in 0..(k + 1) |-> IF i <= k THEN f[i]
                                        ELSE Formatter!AfterLine(f[i - 1], events[i])]
  <2>2. \A i \in 0..k : f[i] = IF i = 0 THEN Formatter!NothingSeen
                               ELSE Formatter!AfterLine(f[i - 1], events[i])
    BY <2>1, Zenon DEF IsMemory
  <2>3. ASSUME NEW i \in 0..(k + 1)
        PROVE  g[i] = IF i = 0 THEN Formatter!NothingSeen
                      ELSE Formatter!AfterLine(g[i - 1], events[i])
    <3>1. i # 0 => i - 1 \in 0..k /\ g[i - 1] = f[i - 1]
      OBVIOUS
    <3>2. CASE i \in 0..k
      <4>1. g[i] = f[i]
        BY <3>2
      <4> QED BY <2>2, <3>1, <3>2, <4>1
    <3>3. CASE i = k + 1
      <4>1. g[i] = Formatter!AfterLine(f[i - 1], events[i]) /\ i # 0
        BY <3>3
      <4> QED BY <3>1, <4>1
    <3> QED BY <3>2, <3>3
  <2>4. IsMemory(g, events, k + 1)
    <3>1. g = [i \in 0..(k + 1) |-> IF i = 0 THEN Formatter!NothingSeen
                                    ELSE Formatter!AfterLine(g[i - 1], events[i])]
      BY <2>3
    <3> HIDE DEF g
    <3> QED BY <3>1 DEF IsMemory
  <2> QED BY <2>4
<1>3. S = Nat
  <2>1. S \subseteq Nat
    OBVIOUS
  <2> HIDE DEF S
  <2> QED BY <1>1, <1>2, <2>1, Induction
<1>4. n \in S
  BY <1>3
<1> QED BY <1>4

LEMMA FormatIs ==
  ASSUME NEW events, Len(events) \in Nat
  PROVE  \E seen : /\ IsMemory(seen, events, Len(events))
                   /\ Formatter!Format(events) =
                        [n \in DOMAIN events |-> Formatter!FormatLine(seen[n - 1], events[n])]
<1> DEFINE seen == CHOOSE f : IsMemory(f, events, Len(events))
<1>1. IsMemory(seen, events, Len(events))
  BY MemoryExists
<1>2. Formatter!Format(events) =
        [n \in DOMAIN events |-> Formatter!FormatLine(seen[n - 1], events[n])]
  BY Zenon DEF Formatter!Format, IsMemory
<1> HIDE DEF seen
<1> QED BY <1>1, <1>2

\* A line changes what is remembered of its own id only, and a request sets it.
Maps(seen) ==
  /\ seen.method = [i \in Ids |-> seen.method[i]]
  /\ seen.tool = [i \in Ids |-> seen.tool[i]]

LEMMA AfterOneLine ==
  ASSUME NEW seen, Maps(seen), NEW e, e.id \in Ids \cup {NoId}, NEW x \in Ids
  PROVE  LET new == Formatter!AfterLine(seen, e)
         IN  /\ Maps(new)
             /\ e.id # x => new.method[x] = seen.method[x] /\ new.tool[x] = seen.tool[x]
             /\ e.id = x /\ e.dir = "in" =>
                  IF e.method = Nameless
                  THEN new.method[x] = seen.method[x] /\ new.tool[x] = seen.tool[x]
                  ELSE /\ new.method[x] = e.method
                       /\ new.tool[x] = IF e.tool = Nameless THEN seen.tool[x] ELSE e.tool
<1> DEFINE tracked == Formatter!Track(seen, e)
           new == Formatter!AfterLine(seen, e)
<1>1. x # NoId
  BY IdAssumption
<1>2. /\ Maps(tracked)
      /\ e.id # x => tracked.method[x] = seen.method[x] /\ tracked.tool[x] = seen.tool[x]
      /\ e.id = x /\ e.dir = "in" =>
           IF e.method = Nameless
           THEN tracked.method[x] = seen.method[x] /\ tracked.tool[x] = seen.tool[x]
           ELSE /\ tracked.method[x] = e.method
                /\ tracked.tool[x] = IF e.tool = Nameless THEN seen.tool[x] ELSE e.tool
  BY <1>1 DEF Maps, Formatter!Track, Formatter!IsRequest
<1>3. new = Formatter!Consume(tracked, e)
  BY DEF Formatter!AfterLine
<1> HIDE DEF tracked, new
<1>4. CASE e.dir = "in" \/ e.id = NoId
  BY <1>1, <1>2, <1>3, <1>4 DEF Formatter!Consume, new
<1>5. CASE ~(e.dir = "in" \/ e.id = NoId)
  <2>1. new = [method |-> [tracked.method EXCEPT ![e.id] = Nameless],
               tool |-> [tracked.tool EXCEPT ![e.id] = Nameless]]
    BY <1>3, <1>5 DEF Formatter!Consume, Formatter!Forget
  <2> QED BY <1>2, <1>5, <2>1 DEF Maps, new
<1> QED BY <1>4, <1>5

\* What a log must be like for its line j to be named.
Events(events) ==
  /\ Len(events) \in Nat /\ DOMAIN events = 1..Len(events)
  /\ \A i \in DOMAIN events :
       /\ events[i].dir \in {"in", "out"} /\ events[i].id \in Ids \cup {NoId}
       /\ events[i].tool # Nameless => events[i].method = "tools/call"
Unmistaken(events, j) ==
  /\ events[j].dir = "out" /\ events[j].id # NoId
  /\ \A i \in DOMAIN events :
       /\ events[i].id = events[j].id => events[i].name = events[j].name
       /\ events[i].dir = "in" /\ events[i].name = events[j].name => events[i].id = events[j].id
  /\ \A i, k \in DOMAIN events :
       events[i].name = events[k].name /\ events[i].dir = events[k].dir => i = k

\* Before line n + 1, the formatter remembers under the id of line j its request, or nothing.
Recalls(seen, events, j, n) ==
  LET x == events[j].id
      Asked(i) == events[i].dir = "in" /\ events[i].name = events[j].name
  IN  /\ Maps(seen)
      /\ \A i \in 1..n : Asked(i) =>
           seen.method[x] = events[i].method /\ seen.tool[x] = events[i].tool
      /\ (\A i \in 1..n : ~Asked(i)) => seen.method[x] = Nameless /\ seen.tool[x] = Nameless

LEMMA RecallsOn ==
  ASSUME NEW events, Events(events), NEW j \in DOMAIN events, Unmistaken(events, j),
         NEW n \in Nat, n + 1 < j, NEW seen, Recalls(seen, events, j, n)
  PROVE  Recalls(Formatter!AfterLine(seen, events[n + 1]), events, j, n + 1)
<1> DEFINE e == events[n + 1]
           x == events[j].id
           new == Formatter!AfterLine(seen, e)
           Asked(i) == events[i].dir = "in" /\ events[i].name = events[j].name
<1>1. /\ n + 1 \in DOMAIN events /\ n + 1 # j /\ x \in Ids
      /\ \A i \in 1..n : i \in DOMAIN events /\ i # n + 1
      /\ \A i \in 1..(n + 1) : i \in 1..n \/ i = n + 1
      /\ \A i \in 1..n : i \in 1..(n + 1)
      /\ n + 1 \in 1..(n + 1)
  BY DEF Events, Unmistaken
<1>2. /\ e.dir \in {"in", "out"} /\ e.id \in Ids \cup {NoId}
      /\ e.tool # Nameless => e.method = "tools/call"
  BY <1>1 DEF Events
<1>3. Maps(seen)
  BY DEF Recalls
<1> HIDE DEF new
<1>4. /\ Maps(new)
      /\ e.id # x => new.method[x] = seen.method[x] /\ new.tool[x] = seen.tool[x]
      /\ e.id = x /\ e.dir = "in" =>
           IF e.method = Nameless
           THEN new.method[x] = seen.method[x] /\ new.tool[x] = seen.tool[x]
           ELSE /\ new.method[x] = e.method
                /\ new.tool[x] = IF e.tool = Nameless THEN seen.tool[x] ELSE e.tool
  BY <1>1, <1>2, <1>3, AfterOneLine DEF new
<1>5. /\ \A i \in 1..n : Asked(i) =>
           seen.method[x] = events[i].method /\ seen.tool[x] = events[i].tool
      /\ (\A i \in 1..n : ~Asked(i)) => seen.method[x] = Nameless /\ seen.tool[x] = Nameless
  BY DEF Recalls
<1>6. CASE e.id # x
  <2>1. ~Asked(n + 1)
    BY <1>1, <1>6 DEF Unmistaken
  <2> HIDE DEF Asked
  <2>2. /\ \A i \in 1..(n + 1) : Asked(i) =>
             new.method[x] = events[i].method /\ new.tool[x] = events[i].tool
        /\ (\A i \in 1..(n + 1) : ~Asked(i)) => new.method[x] = Nameless /\ new.tool[x] = Nameless
    BY <1>1, <1>4, <1>5, <1>6, <2>1
  <2> QED BY <1>4, <2>2 DEF Recalls, Asked, new
<1>7. CASE e.id = x
  <2>1. e.name = events[j].name /\ e.dir = "in"
    BY <1>1, <1>2, <1>7 DEF Unmistaken
  <2>2. Asked(n + 1) /\ \A i \in 1..n : ~Asked(i)
    BY <1>1, <2>1 DEF Unmistaken
  <2> HIDE DEF Asked
  <2>3. new.method[x] = e.method /\ new.tool[x] = e.tool
    BY <1>2, <1>4, <1>5, <1>7, <2>1, <2>2, AttributesAssumption
  <2>4. \A i \in 1..(n + 1) : Asked(i) =>
          new.method[x] = events[i].method /\ new.tool[x] = events[i].tool
    BY <1>1, <2>2, <2>3
  <2> QED BY <1>1, <1>4, <2>2, <2>4 DEF Recalls, Asked, new
<1> QED BY <1>6, <1>7

LEMMA LineIsNamed ==
  ASSUME NEW events, Events(events), NEW j \in DOMAIN events, Unmistaken(events, j),
         events[j].method = Nameless
  PROVE  LET Asked(i) == events[i].dir = "in" /\ events[i].name = events[j].name
             as == Formatter!Format(events)[j].as
         IN  /\ \A i \in 1..j : Asked(i) => as = [method |-> events[i].method, tool |-> events[i].tool]
             /\ (\A i \in 1..j : ~Asked(i)) => as.method = Nameless
<1> DEFINE Asked(i) == events[i].dir = "in" /\ events[i].name = events[j].name
           e == events[j]
           x == e.id
<1>1. Len(events) \in Nat /\ DOMAIN events = 1..Len(events) /\ j \in 1..Len(events)
      /\ x \in Ids /\ x # NoId /\ e.dir = "out"
  BY DEF Events, Unmistaken
<1>2. PICK seen : /\ IsMemory(seen, events, Len(events))
                  /\ Formatter!Format(events) =
                       [n \in DOMAIN events |-> Formatter!FormatLine(seen[n - 1], events[n])]
  BY <1>1, FormatIs
<1>3. \A n \in 0..Len(events) : seen[n] = IF n = 0 THEN Formatter!NothingSeen
                                          ELSE Formatter!AfterLine(seen[n - 1], events[n])
  BY <1>2, Zenon DEF IsMemory
<1> DEFINE S == {n \in Nat : n < j => Recalls(seen[n], events, j, n)}
<1>4. 0 \in S
  <2>1. seen[0] = Formatter!NothingSeen
    BY <1>1, <1>3
  <2>2. Maps(seen[0]) /\ seen[0].method[x] = Nameless /\ seen[0].tool[x] = Nameless
    BY <1>1, <2>1 DEF Maps, Formatter!NothingSeen
  <2>3. 1..0 = {}
    OBVIOUS
  <2> QED BY <2>2, <2>3 DEF Recalls
<1>5. ASSUME NEW n \in S PROVE n + 1 \in S
  <2> SUFFICES ASSUME n + 1 < j PROVE Recalls(seen[n + 1], events, j, n + 1)
    OBVIOUS
  <2>1. n + 1 \in 0..Len(events) /\ n + 1 # 0 /\ (n + 1) - 1 = n /\ n < j
    BY <1>1
  <2>2. seen[n + 1] = Formatter!AfterLine(seen[n], events[n + 1])
    BY <1>3, <2>1
  <2>3. Recalls(seen[n], events, j, n)
    BY <2>1
  <2> QED BY <2>2, <2>3, RecallsOn
<1>6. S = Nat
  <2>1. S \subseteq Nat
    OBVIOUS
  <2> HIDE DEF S
  <2> QED BY <1>4, <1>5, <2>1, Induction
<1> DEFINE before == seen[j - 1]
<1>7. Recalls(before, events, j, j - 1)
  <2>1. j - 1 \in Nat /\ j - 1 < j
    BY <1>1
  <2> QED BY <1>6, <2>1
<1> HIDE DEF S
<1>8. Formatter!Format(events)[j].as = Formatter!Summarise(before, e)
  <2>1. Formatter!Format(events)[j] = Formatter!FormatLine(before, e)
    BY <1>2
  <2>2. Formatter!Track(before, e) = before
    BY <1>1 DEF Formatter!Track, Formatter!IsRequest
  <2> HIDE DEF before
  <2> QED BY <2>1, <2>2 DEF Formatter!FormatLine
<1> HIDE DEF before
<1>9. Formatter!Summarise(before, e) =
        IF before.tool[x] # Nameless THEN [method |-> "tools/call", tool |-> before.tool[x]]
        ELSE IF before.method[x] # Nameless THEN [method |-> before.method[x], tool |-> Nameless]
        ELSE [method |-> Nameless, tool |-> Nameless]
  BY <1>1 DEF Formatter!Summarise, Formatter!Pending
<1>10. ASSUME NEW i \in 1..j, Asked(i)
       PROVE  Formatter!Format(events)[j].as = [method |-> events[i].method, tool |-> events[i].tool]
  <2>1. i \in 1..(j - 1) /\ i \in DOMAIN events
    BY <1>1, <1>10
  <2>2. before.method[x] = events[i].method /\ before.tool[x] = events[i].tool
    BY <1>7, <1>10, <2>1 DEF Recalls
  <2>3. events[i].tool # Nameless => events[i].method = "tools/call"
    BY <2>1 DEF Events
  <2> QED BY <1>8, <1>9, <2>2, <2>3
<1>11. ASSUME \A i \in 1..j : ~Asked(i)
       PROVE  Formatter!Format(events)[j].as.method = Nameless
  <2>1. \A i \in 1..(j - 1) : ~Asked(i)
    BY <1>1, <1>11
  <2>2. before.method[x] = Nameless /\ before.tool[x] = Nameless
    BY <1>7, <2>1 DEF Recalls
  <2> QED BY <1>8, <1>9, <2>2
<1> QED BY <1>10, <1>11

\* Wherever the reader of the log begins, `dvarapala logs` shows a response under the
\* method and the tool of the request it answers, unless its id is used twice in what is
\* read; and under no name if the request is not there (logs.go:313-314).
THEOREM ResponsesAreNamed == Spec => []ResponsesNamed
<1>1. TransportInv => ResponsesNamed
  <2> SUFFICES ASSUME TransportInv, NEW k \in 1..Len(audit) PROVE
        LET lines == Window(k)
            Asked(j) == {i \in 1..j : lines[i].of.dir = "in" /\ lines[i].of.name = lines[j].of.name}
        IN  \A j \in {i \in DOMAIN lines : lines[i].of.dir = "out" /\ lines[i].of.id # NoId} :
              (Alone(lines, j) /\ lines[j].of.method = Nameless) =>
                /\ \A i \in Asked(j) : lines[j].as = [method |-> lines[i].of.method,
                                                      tool |-> lines[i].of.tool]
                /\ Asked(j) = {} => lines[j].as.method = Nameless
    BY DEF ResponsesNamed
  <2> DEFINE events == SubSeq(audit, k, Len(audit))
             lines == Window(k)
  <2>1. /\ Len(audit) \in Nat /\ audit \in Seq(Logs) /\ LoggedFirst
        /\ \A i \in 1..Len(audit) : audit[i] \in Logs
    BY DEF TransportInv, TypeOK
  <2>2. /\ Len(events) \in Nat /\ DOMAIN events = 1..Len(events)
        /\ \A i \in DOMAIN events : k + i - 1 \in 1..Len(audit) /\ events[i] = audit[k + i - 1]
    BY <2>1
  <2>3. ASSUME NEW a \in Logs
        PROVE  \E m \in Messages : /\ a.dir = m[1] /\ a.name = m[2] /\ a.id = Attributes[m].id
                                   /\ a.method = Attributes[m].method /\ a.tool = Attributes[m].tool
    BY DEF Logs, Event
  <2> HIDE DEF events
  <2>4. \A i \in DOMAIN events : events[i] \in Logs
    BY <2>1, <2>2
  <2>5. Events(events)
    <3>1. ASSUME NEW i \in DOMAIN events
          PROVE  /\ events[i].dir \in {"in", "out"} /\ events[i].id \in Ids \cup {NoId}
                 /\ events[i].tool # Nameless => events[i].method = "tools/call"
      <4>1. PICK m \in Messages :
              /\ events[i].dir = m[1] /\ events[i].id = Attributes[m].id
              /\ events[i].method = Attributes[m].method /\ events[i].tool = Attributes[m].tool
        BY <2>3, <2>4
      <4>2. m[1] \in {"in", "out"}
        BY MessageParts
      <4> QED BY <4>1, <4>2, AttributesAssumption
    <3> QED BY <2>2, <3>1 DEF Events
  <2>6. lines = Formatter!Format(events)
    BY DEF Window, events
  <2> HIDE DEF lines
  <2>7. /\ DOMAIN lines = DOMAIN events /\ \A i \in DOMAIN events : lines[i].of = events[i]
    <3>1. PICK seen : /\ IsMemory(seen, events, Len(events))
                      /\ Formatter!Format(events) =
                           [n \in DOMAIN events |-> Formatter!FormatLine(seen[n - 1], events[n])]
      BY <2>2, FormatIs, Zenon
    <3> QED BY <2>6, <3>1 DEF Formatter!FormatLine
  <2> SUFFICES ASSUME NEW j \in DOMAIN events, events[j].dir = "out", events[j].id # NoId,
                      Alone(lines, j), events[j].method = Nameless
               PROVE  LET Asked(i) == events[i].dir = "in" /\ events[i].name = events[j].name
                      IN  /\ \A i \in 1..j : Asked(i) =>
                               lines[j].as = [method |-> events[i].method, tool |-> events[i].tool]
                          /\ (\A i \in 1..j : ~Asked(i)) => lines[j].as.method = Nameless
    <3>1. ASSUME NEW j \in DOMAIN events PROVE \A i \in 1..j : i \in DOMAIN events
      BY <2>2
    <3> QED BY <2>7, <3>1 DEF lines
  <2>8. Unmistaken(events, j)
    <3>1. \A i \in DOMAIN events : events[i].id = events[j].id => events[i].name = events[j].name
      BY <2>7 DEF Alone
    <3>2. ASSUME NEW i \in DOMAIN events, NEW l \in DOMAIN events,
                 events[i].name = events[l].name, events[i].dir = events[l].dir
          PROVE  i = l
      <4>1. /\ k + i - 1 \in 1..Len(audit) /\ k + l - 1 \in 1..Len(audit)
            /\ audit[k + i - 1].name = audit[k + l - 1].name
            /\ audit[k + i - 1].dir = audit[k + l - 1].dir
        BY <2>2, <3>2
      <4>2. k + i - 1 = k + l - 1
        BY <2>1, <4>1 DEF LoggedFirst
      <4> QED BY <2>2, <4>2
    <3>3. ASSUME NEW i \in DOMAIN events, events[i].dir = "in", events[i].name = events[j].name
          PROVE  events[i].id = events[j].id
      <4>1. PICK m \in Messages : m[1] = "in" /\ m[2] = events[j].name /\ events[i].id = Attributes[m].id
        BY <2>3, <2>4, <3>3
      <4>2. PICK r \in Messages : r[1] = "out" /\ r[2] = events[j].name /\ events[j].id = Attributes[r].id
        BY <2>3, <2>4
      <4>3. m = <<"in", m[2]>> /\ m[2] \in Posts
        BY <4>1, MessageParts
      <4>4. Attributes[r].id = Attributes[<<"in", r[2]>>].id
        BY <4>1, <4>2, <4>3, AttributesAssumption
      <4> QED BY <4>1, <4>2, <4>3, <4>4
    <3> QED BY <3>1, <3>2, <3>3 DEF Unmistaken
  <2> QED BY <2>5, <2>6, <2>8, LineIsNamed
<1> QED BY <1>1, TransportsAgree, PTL
===============================================================================
