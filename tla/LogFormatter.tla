----------------------------- MODULE LogFormatter -----------------------------
(***************************************************************************)
(* `dvarapala logs` (src/cmd/dvarapala/logs.go): the formatter reads the   *)
(* audit log line by line, names each response after the request it        *)
(* answers, and hides what is not interesting.  A response carries no      *)
(* method, so formatLine remembers the method and the tool of each inbound *)
(* request under its JSON-RPC id - under the id alone, although one log    *)
(* holds the events of several servers.                                    *)
(*                                                                         *)
(* An event is a record; of its payload only the tool of a tools/call is   *)
(* kept.  The reader may begin anywhere in the log (`-n`, or a rotation).  *)
(***************************************************************************)
EXTENDS Naturals, Sequences

CONSTANTS
  Ids,       \* the JSON-RPC ids of requests and responses
  NoId,      \* the id of a notification
  Nameless,  \* the method of a response, and the tool of what is no tool call
  Hidden,    \* the methods that are not shown
  Whitelist, \* --methods: the only ones to show, none given means no restriction
  DenyOnly   \* --deny

\* methodByID and toolByID before the first line.
NothingSeen == [method |-> [i \in Ids |-> Nameless], tool |-> [i \in Ids |-> Nameless]]

IsRequest(e) == e.dir = "in" /\ e.method # Nameless /\ e.id # NoId
Forget(names, i) == [names EXCEPT ![i] = Nameless]

\* An inbound request is remembered, whatever is decided about it later.
TrackTools(seen, e) ==
  IF IsRequest(e) /\ e.tool # Nameless
  THEN [seen EXCEPT !.method[e.id] = e.method, !.tool[e.id] = e.tool] ELSE seen
Track(seen, e) ==
  IF ~IsRequest(e) THEN seen
  ELSE [method |-> [seen.method EXCEPT ![e.id] = e.method],
        tool |-> IF e.tool = Nameless THEN seen.tool ELSE [seen.tool EXCEPT ![e.id] = e.tool]]

\* The request an outbound line is taken to answer, and its tool.
Pending(names, e) == IF e.id = NoId THEN Nameless ELSE names[e.id]

\* What a line is shown as: its method, or the method of that request.
Summarise(seen, e) ==
  LET tool   == Pending(seen.tool, e)
      method == Pending(seen.method, e)
  IN  IF e.dir = "in" THEN [method |-> e.method, tool |-> e.tool]
      ELSE IF tool # Nameless THEN [method |-> "tools/call", tool |-> tool]
      ELSE IF method # Nameless THEN [method |-> method, tool |-> Nameless]
      ELSE [method |-> e.method, tool |-> Nameless]

\* The entries an outbound line uses up.
Consume(seen, e) ==
  IF e.dir = "in" \/ e.id = NoId THEN seen
  ELSE [method |-> Forget(seen.method, e.id), tool |-> Forget(seen.tool, e.id)]

\* Denials and redactions are always shown; a response whose request is not in
\* the window, and a line without any name, never.
ShouldHide(e, summary) ==
  /\ e.action \notin {"deny", "redact"}
  /\ \/ DenyOnly
     \/ Whitelist # {} /\ summary.method \notin Whitelist
     \/ Whitelist = {} /\ (summary.method \in Hidden \/ summary.method = Nameless)

AfterLine(seen, e) == Consume(Track(seen, e), e)
FormatLine(seen, e) ==
  LET summary == Summarise(Track(seen, e), e)
  IN  [of |-> e, as |-> summary, hidden |-> ShouldHide(e, summary)]

\* What the command prints for a part of the log.
Format(events) ==
  LET seen[n \in 0..Len(events)] ==
        IF n = 0 THEN NothingSeen ELSE AfterLine(seen[n - 1], events[n])
  IN  [n \in DOMAIN events |-> FormatLine(seen[n - 1], events[n])]
===============================================================================
