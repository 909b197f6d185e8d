------------------------------ MODULE Transports ------------------------------
(***************************************************************************)
(* The HTTP handlers of the gateway: `dvarapala proxy` in front of one     *)
(* upstream (src/internal/proxy/http.go) and `dvarapala hub` in front of   *)
(* many (src/internal/hub/hub.go, server.go), both writing to the audit    *)
(* log at the default path.  Each HTTP exchange has a goroutine of its     *)
(* own: it evaluates and logs the client's message, refuses it or passes   *)
(* it on, and then evaluates and logs what comes back - one JSON body, or, *)
(* in the proxy, a stream of SSE events.                                   *)
(*                                                                         *)
(* A message is a direction and a name: the name of a POST stands for what *)
(* the client posts in direction "in", and for the reply to it in          *)
(* direction "out".  The engine's verdict is any action.  Of the hub's     *)
(* stdio backend only the promise of RemoteCall is used.                   *)
(***************************************************************************)
EXTENDS Naturals, Sequences, FiniteSets

CONSTANTS
  Posts,        \* the POSTs of the clients, each one message
  Gets,         \* the GETs that open the upstream's SSE channel
  Gateway,      \* who serves an exchange: the proxy, or the hub and its kind of backend
  ServerNotes,  \* what an upstream sends of its own accord, over a stream
  Notes,        \* the POSTs in which no id is found: notifications, and what is not JSON
  Garbage,      \* the messages that do not decode: what is not JSON, or is of other types
  Redactable,   \* the messages that redaction can decode
  Attributes,   \* of each message, what the log says of it: server, id, method, tool
  MaxExchanges  \* bound: exchanges that the clients begin in one behaviour

Exchanges == Posts \cup Gets
Names     == Posts \cup ServerNotes
Messages  == ({"in"} \X Posts) \cup ({"out"} \X Names)
Actions   == {"allow", "redact", "deny"}

ASSUME NamesAssumption ==
  Posts \cap Gets = {} /\ Exchanges \cap ServerNotes = {} /\ Notes \subseteq Posts
ASSUME GatewayAssumption ==
  /\ Gateway \in [Exchanges -> {"proxy", "hub-stdio", "hub-http"}]
  /\ \A g \in Gets : Gateway[g] = "proxy"
ASSUME GarbageAssumption == Garbage \subseteq Messages /\ Redactable \subseteq Messages \ Garbage
ASSUME MaxExchangesAssumption == MaxExchanges \in Nat

VARIABLES
  at,        \* where the handler of each exchange is
  held,      \* the message it is working on
  verdict,   \* the engine's decision about it
  delivered, \* the POSTs that have reached their upstream, as they came
  shape,     \* of the upstream's answer: none yet, json, sse
  body,      \* the part of it that is not yet read, as frames
  ending,    \* is the body still open, complete, or cut off
  spoken,    \* the messages the upstreams have sent
  response,  \* what has been written to the client, per exchange
  audit      \* the events in the log, in order

vars == <<at, held, verdict, delivered, shape, body, ending, spoken, response, audit>>

Frame == [msg : Messages, whole : BOOLEAN]
Reply(x) == <<"out", x>>
Evaluated(m) == m \notin Garbage

Init ==
  /\ at = [x \in Exchanges |-> "idle"]
  /\ held = [x \in Exchanges |-> Reply(x)] /\ verdict = [x \in Exchanges |-> "allow"]
  /\ delivered = {} /\ spoken = {}
  /\ shape = [x \in Exchanges |-> "none"] /\ body = [x \in Exchanges |-> << >>]
  /\ ending = [x \in Exchanges |-> "open"]
  /\ response = [x \in Exchanges |-> << >>] /\ audit = << >>

GoTo(x, place) == at' = [at EXCEPT ![x] = place]
Respond(x, what, m, form) ==
  response' = [response EXCEPT ![x] = Append(@, [what |-> what, msg |-> m, form |-> form])]
Fail(x) == Respond(x, "502", Reply(x), "none") /\ GoTo(x, "done")
upstreamVars == <<delivered, shape, body, ending, spoken>>

-------------------------------------------------------------------------------
\* What the client posts.

\* The engine decides about a message and the handler goes on to log it.
WriteFirst(m) == IF m[1] = "out" THEN "write" ELSE "log"
AfterDecision(m) == "log"

Decide(x, m) ==
  /\ held' = [held EXCEPT ![x] = m]
  /\ \E a \in Actions : verdict' = [verdict EXCEPT ![x] = a]
  /\ GoTo(x, AfterDecision(m))

\* The body is read and evaluated; one that does not decode is passed on as it is.
ReceivePost(p) ==
  /\ at[p] = "idle"
  /\ IF Evaluated(<<"in", p>>) THEN Decide(p, <<"in", p>>)
                               ELSE GoTo(p, "forward") /\ UNCHANGED <<held, verdict>>
  /\ UNCHANGED <<upstreamVars, response, audit>>

\* Both directions are logged before anything else is done with the message.
ForwardDenied(m, action) == IF m[1] = "out" THEN "write" ELSE "forward"
AfterLog(m, action) ==
  IF m[1] = "out" THEN "write" ELSE IF action = "deny" THEN "refuse" ELSE "forward"

Event(m, action) ==
  [dir |-> m[1], name |-> m[2], action |-> action, server |-> Attributes[m].server,
   id |-> Attributes[m].id, method |-> Attributes[m].method, tool |-> Attributes[m].tool]

LogEvent(x) ==
  /\ at[x] = "log"
  /\ audit' = Append(audit, Event(held[x], verdict[x]))
  /\ GoTo(x, AfterLog(held[x], verdict[x]))
  /\ UNCHANGED <<held, verdict, upstreamVars, response>>

\* writeDenyJSON, writeDeny: also for a message without an id.
Refuse(p) ==
  /\ at[p] = "refuse"
  /\ Respond(p, "refusal", held[p], "none") /\ GoTo(p, "done")
  /\ UNCHANGED <<held, verdict, upstreamVars, audit>>

\* The hub's stdio backend has written a message without an id, and waits for nothing.
\* Of JSON with wrong types the id is found, before Unmarshal returns its error.
Unanswered(p) == Gateway[p] = "hub-stdio" /\ p \in Notes

\* The message goes out as it came, also when the verdict is redact.
Forward(p) ==
  /\ at[p] = "forward"
  /\ delivered' = delivered \cup {p}
  /\ IF Unanswered(p) THEN Respond(p, "204", Reply(p), "none") /\ GoTo(p, "done")
                      ELSE GoTo(p, "relay") /\ UNCHANGED response
  /\ UNCHANGED <<held, verdict, shape, body, ending, spoken, audit>>

ForwardFails(p) ==
  /\ at[p] = "forward"
  /\ Fail(p)
  /\ UNCHANGED <<held, verdict, upstreamVars, audit>>

OpenStream(g) ==
  /\ g \in Gets /\ at[g] = "idle"
  /\ GoTo(g, "relay")
  /\ UNCHANGED <<held, verdict, upstreamVars, response, audit>>

-------------------------------------------------------------------------------
\* The upstream servers and the network.

Awaited(x) == at[x] # "done" /\ (x \in delivered \/ (x \in Gets /\ at[x] = "relay"))

\* One JSON body with the reply, or an empty one (202 to a notification).  An error
\* status and a stream are bodies that are not JSON-RPC to the hub's HTTP backend; the
\* child of a stdio backend answers with what decodes, by RemoteCall.
AnswerJSON(p) ==
  /\ p \in Posts /\ Awaited(p) /\ shape[p] = "none" /\ ending[p] = "open"
  /\ shape' = [shape EXCEPT ![p] = "json"] /\ ending' = [ending EXCEPT ![p] = "eof"]
  /\ \/ /\ p \notin Notes
        /\ body' = [body EXCEPT ![p] = <<[msg |-> Reply(p), whole |-> TRUE]>>]
        /\ Gateway[p] = "hub-stdio" => Evaluated(Reply(p))
        /\ spoken' = spoken \cup {Reply(p)}
     \/ Gateway[p] # "hub-stdio" /\ UNCHANGED <<body, spoken>>
  /\ UNCHANGED <<at, held, verdict, delivered, response, audit>>

\* A stream of events to the proxy: the reply, and what the server has to say.
SendEvent(x) ==
  /\ Awaited(x) /\ shape[x] # "json" /\ ending[x] = "open" /\ Gateway[x] = "proxy"
  /\ \E m \in (IF x \in Posts \ Notes THEN {Reply(x)} ELSE {}) \cup ({"out"} \X ServerNotes) :
       /\ m \notin spoken
       /\ spoken' = spoken \cup {m}
       /\ body' = [body EXCEPT ![x] = Append(@, [msg |-> m, whole |-> TRUE])]
  /\ shape' = [shape EXCEPT ![x] = "sse"]
  /\ UNCHANGED <<at, held, verdict, delivered, ending, response, audit>>

EndStream(x) ==
  /\ shape[x] = "sse" /\ ending[x] = "open"
  /\ ending' = [ending EXCEPT ![x] = "eof"]
  /\ UNCHANGED <<at, held, verdict, delivered, shape, body, spoken, response, audit>>

\* The 30 s of the http.Client, which span the whole body, or of the hub's
\* context; a lost connection.  The last event may come in part.
HubOnly(x) == Gateway[x] # "proxy"
HasTimer(x) == TRUE

Timeout(x) ==
  /\ HasTimer(x) /\ Awaited(x) /\ ending[x] = "open"
  /\ ending' = [ending EXCEPT ![x] = "cut"]
  /\ \/ UNCHANGED body
     \/ /\ body[x] # << >>
        /\ body' = [body EXCEPT ![x][Len(body[x])].whole = FALSE]
  /\ UNCHANGED <<at, held, verdict, delivered, shape, spoken, response, audit>>

-------------------------------------------------------------------------------
\* What comes back.

\* evaluateOutboundBytes: what does not decode passes as it is, without an event.
TakeFrame(x, frame) ==
  IF frame.whole /\ Evaluated(frame.msg)
  THEN Decide(x, frame.msg) /\ UNCHANGED response
  ELSE /\ Respond(x, IF frame.whole THEN "message" ELSE "piece", frame.msg, "raw")
       /\ GoTo(x, IF shape[x] = "sse" THEN "relay" ELSE "done")
       /\ UNCHANGED <<held, verdict>>

\* relaySingleJSON, and what the hub makes of Call: a whole body that decodes is
\* evaluated; the hub's HTTP backend takes anything else for an error.
TakeBody(p) ==
  /\ at[p] = "relay" /\ shape[p] = "json" /\ ending[p] = "eof"
  /\ IF body[p] = << >>
     THEN /\ IF Gateway[p] = "proxy" THEN Respond(p, "empty", Reply(p), "none") /\ GoTo(p, "done")
                                     ELSE Fail(p)
          /\ UNCHANGED <<held, verdict, body>>
     ELSE /\ IF Gateway[p] # "proxy" /\ ~Evaluated(Head(body[p]).msg)
             THEN Fail(p) /\ UNCHANGED <<held, verdict>>
             ELSE TakeFrame(p, Head(body[p]))
          /\ body' = [body EXCEPT ![p] = << >>]
  /\ UNCHANGED <<delivered, shape, ending, spoken, audit>>

\* relaySSE: event by event, also the part of one before a cut.
TakeEvent(x) ==
  /\ at[x] = "relay" /\ shape[x] = "sse" /\ body[x] # << >>
  /\ TakeFrame(x, Head(body[x]))
  /\ body' = [body EXCEPT ![x] = Tail(@)]
  /\ UNCHANGED <<delivered, shape, ending, spoken, audit>>

EndRelay(x) ==
  /\ at[x] = "relay" /\ shape[x] = "sse" /\ body[x] = << >> /\ ending[x] # "open"
  /\ GoTo(x, "done")
  /\ UNCHANGED <<held, verdict, upstreamVars, response, audit>>

\* No answer in time, or not all of one body.
RelayFails(x) ==
  /\ at[x] = "relay" /\ ending[x] = "cut" /\ shape[x] = "none"
  /\ Fail(x)
  /\ UNCHANGED <<held, verdict, upstreamVars, audit>>

\* The proxy drops a denied message, the hub ignores the denial; a redaction
\* that fails leaves the message as it came.
Dropped(x) == verdict[x] = "deny" /\ Gateway[x] = "proxy"
FormOf(m, action) == IF action = "redact" /\ m \in Redactable THEN "redacted" ELSE "raw"

Write(x) ==
  /\ at[x] = "write"
  /\ IF Dropped(x) THEN Respond(x, "empty", held[x], "none")
                   ELSE Respond(x, "message", held[x], FormOf(held[x], verdict[x]))
  /\ GoTo(x, IF shape[x] = "sse" THEN "relay" ELSE "done")
  /\ UNCHANGED <<held, verdict, upstreamVars, audit>>

-------------------------------------------------------------------------------
HandlerStep(x) ==
  \/ x \in Posts /\ (Refuse(x) \/ Forward(x) \/ ForwardFails(x) \/ TakeBody(x))
  \/ LogEvent(x) \/ TakeEvent(x) \/ EndRelay(x) \/ RelayFails(x) \/ Write(x)

Arrive(x) ==
  /\ Cardinality({y \in Exchanges : at[y] # "idle"}) < MaxExchanges
  /\ (x \in Posts /\ ReceivePost(x)) \/ OpenStream(x)
Upstream(x) == AnswerJSON(x) \/ SendEvent(x) \/ EndStream(x)

Next == \E x \in Exchanges : Arrive(x) \/ HandlerStep(x) \/ Upstream(x) \/ Timeout(x)

Spec == Init /\ [][Next]_vars

\* The one place where no timer reaches a handler: Call waits for writeMu, and writes to
\* the child, before it looks at its context (server.go:131-134, 146-148).
AtChild(x) == at[x] = "forward" /\ Gateway[x] = "hub-stdio"

\* The handlers run, the clients read what they are sent and the timers fire; an
\* upstream need not answer, nor the child of the hub read its stdin.
FairSpec ==
  /\ Spec
  /\ \A x \in Exchanges : WF_vars(~AtChild(x) /\ HandlerStep(x)) /\ WF_vars(Timeout(x))

-------------------------------------------------------------------------------
Elements(s) == {s[i] : i \in 1..Len(s)}
EventsOf(m) == {e \in Elements(audit) : e.dir = m[1] /\ e.name = m[2]}

\* Everything that has gone out on account of a message.
Ways(m) == IF m[2] \in Posts THEN {m[2]} ELSE Exchanges
Chunks(m) == UNION {{c \in Elements(response[x]) : c.msg = m} : x \in Ways(m)}
Copies(m) ==
  IF m[1] = "in"
  THEN {"raw" : p \in delivered \cap {m[2]}}
         \cup {"refusal" : c \in {k \in Chunks(m) : k.what = "refusal"}}
  ELSE {c.form : c \in {k \in Chunks(m) : k.what = "message"}}

\* The HTTP paths keep the gateway's promise for every message that decodes -
\* one decision, logged as taken, and nothing leaves but what was decided - in
\* this form: a post cannot be redacted, and a reply of the hub not be denied
\* (http.go:126-155, 272-310, hub.go:96-162).
TheOnly(set, default) == IF set = {} THEN default ELSE CHOOSE x \in set : TRUE
Governed == {m \in Messages : Evaluated(m)}
InHand(m) == {x \in Ways(m) : at[x] = "log" /\ held[x] = m}
OfHub(m) == m[2] \in Posts /\ Gateway[m[2]] # "proxy"
Promise == INSTANCE Enforcement WITH
  Messages <- Governed,
  Refusable <- {"in"} \X Posts,
  Droppable <- {m \in Governed : m[1] = "out" /\ ~OfHub(m)},
  Rewritable <- {m \in Redactable : m[1] = "out"},
  decided <- [m \in Governed |-> TheOnly({e.action : e \in EventsOf(m)} \cup
                                         {verdict[x] : x \in InHand(m)}, "none")],
  logged <- [m \in Governed |-> TheOnly({e.action : e \in EventsOf(m)}, "none")],
  left <- [m \in Governed |-> TheOnly(Copies(m), "none")]
IsEnforcement == Promise!Spec

\* The log is written ahead: a message that decodes has exactly one event and one
\* outcome, and its event comes before it leaves and before that of its reply.
LoggedFirst ==
  /\ \A m \in Governed : \A f, h \in Copies(m) : f = h /\ EventsOf(m) # {}
  /\ \A i, j \in 1..Len(audit) :
       audit[i].name = audit[j].name /\ audit[i].dir = audit[j].dir => i = j
  /\ \A i \in 1..Len(audit) :
       (audit[i].dir = "out" /\ <<"in", audit[i].name>> \in Governed) =>
         \E j \in 1..i : audit[j].dir = "in" /\ audit[j].name = audit[i].name

\* Every exchange that a client begins ends, answered or not: the timers of both
\* gateways reach whatever the handler waits for (http.go:72-82, hub.go:116-119), but
\* for the write to the child of a hub's stdio backend, which has to end by itself.
ChildReads(x) == []<>~AtChild(x)
EveryExchangeEnds ==
  \A x \in Exchanges : ChildReads(x) => (at[x] # "idle" ~> at[x] = "done")
===============================================================================
