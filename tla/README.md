# Dvarapala in TLA+

Dvarapala is a policy gateway for the Model Context Protocol: it stands between
an MCP client (an editor, an agent) and MCP servers, evaluates every JSON-RPC
message against a policy, and allows, redacts or denies it, writing each
decision to an audit log. This directory holds TLA+ models of its concurrent and
stateful parts, the TLC configurations that check them on small instances, and
proofs of their central invariants for the TLA+ proof system. Paths below are
relative to the root of the repository.

## 1. The system

| component | state it keeps | operations | interacts with |
|---|---|---|---|
| stdio relay, `internal/proxy/stdio.go` (command `wrap`) | two pipes, `clientMu`, per relay the message in hand | `RunStdio`, the inbound and outbound relay goroutines, deny, redact | client and child by pipes; engine by call; audit log by call |
| hub, `internal/hub` (command `hub`) | per stdio backend: `nextID`, `pending`, `writeMu`, the `readLoop` goroutine | `ServeHTTP`, `Call`, `readLoop`, `Close`; `httpBackend.Call` | HTTP handlers share one child; engine, audit log |
| HTTP/SSE proxy, `internal/proxy/http.go` (command `proxy`) | none across requests | `servePost`, `serveGet`, `relaySSE`, `relaySingleJSON` | upstream by HTTP; engine, audit log |
| policy engine, `internal/policy/engine.go` | an atomic pointer to compiled rules and the detector registry | `NewEngine`, `SetRegistry`, `Reload`, `Evaluate` | read by every relay, written by the watcher |
| policy watcher, `internal/policy/watch.go` | last mtime and size | `Watch`, `snapshot` | polls `policy.yaml`, calls `config.Load` and `Engine.Reload` |
| policy loading, `internal/config/loader.go` | none | `Load`, `parse`, the bundled packs | file system |
| audit log, `internal/audit/audit.go` | the open file and its size | `OpenWith`, `Write`, `rotate`, `Close` | the file system, shared by all processes that use the default path |
| log followers, `internal/ui/server.go`, `cmd/dvarapala/logs.go` | position in the file; a channel per browser | `tailAudit`, `publish`, `serveRecent`, `serveStream`, `logs -f` | read what the audit log writes and renames |
| tool mutation detector, `internal/detectors/toolmutation` | fingerprints in memory and in a file | `Detect`, `persist`, load at start | called by the engine and by redaction, from any goroutine |
| other detectors | none | `Detect` | sidecars by HTTP |
| daemons and installer, `cmd/dvarapala/daemon.go`, `install.go` | daemon records by server name, shared by the clients; processes, ports, each client's configuration | spawn, stop, `install --wrap-all` and its inverse | processes and files |
| other commands, rule packs, SDKs, sidecars, packaging | none | print, check, generate | - |

What is hard about it, and what makes each part correct:

- **Hub backend.** Any number of HTTP handlers share one child process. Replies
  come back in any order, late, twice, or never; the 30 s timeout races the reply;
  a write is two system calls; the child may die between them. Correct means: the
  reply goes to the goroutine that asked, nothing stays behind in the map, lines
  are never torn, every call returns.
- **Stdio relay.** Two goroutines write to one stdout; the inbound relay answers
  a refused request itself; the main goroutine waits for the child and closes
  the pipes the relays use. Correct means: what left the gateway, what was decided
  and what is in the log agree for each message, whatever interleaving; refusals
  and replies never mix; `RunStdio` returns.
- **Hot reload.** An editor, a polling goroutine and the startup run side by side.
  Correct means: the rules in force always compile, never go back, keep their
  detectors, and catch up with the file.
- **Audit rotation.** A chain of renames that can fail or be cut off at each step,
  repeated by the next process. Correct means: what remains on disk is the end
  of the log, in order and without a gap, within the size limit.
- **HTTP exchanges.** A goroutine per exchange, an answer that is a body or a stream of
  events, a connection that ends anywhere, a timer that spans the whole answer.
  Correct means: for each message that decodes one decision, logged before anything
  leaves, and every exchange ends, unless it is stuck in a write to a child that does not read.
- **Readers of the log.** A file that is renamed under its reader, a map of
  subscribers and channels that are closed while lines are sent, responses that say
  nothing of what they answer. Correct means: lines come in order and once, none
  that stays is missed, nothing is sent on a closed channel, a response is named
  after its own request.
- **Evaluation and detectors.** Rules replaced in the middle of an evaluation,
  fingerprints compared under a lock and persisted after it, by handlers that overtake each other, matches inside other
  matches. Correct means: a decision is that of one policy, a change of a tool is
  reported each time by somebody, no part of a nested match remains.
- **Daemons.** Records that outlive the process they name, and are shared by clients whose
  servers have one name; PIDs and ports that are given to others; an install that ends
  between starting a proxy and writing the configuration. Correct means: no upstream
  URL is lost, no client reaches another server's proxy, an install that ends has
  protected every server. Section 4 says where the code does not keep to that.

`PROJECT.json` lists each of these at the line where it bites, under "hazards".

## 2. Modules

| module | what it is | modelled from |
|---|---|---|
| `HubBackend` | the stdio backend of the hub with its child | `internal/hub/server.go`, the timeout of `hub.go`, `WriteRaw` and `Scan` of `internal/mcp/jsonrpc.go` |
| `RemoteCall` | abstract: one call, one return, only with its own answer | - |
| `StdioRelay` | `RunStdio`, both relays, client and child | `internal/proxy/stdio.go`, `internal/mcp/jsonrpc.go` |
| `Transports` | the HTTP handlers of the proxy and of both backends of the hub | `internal/proxy/http.go`, `jsondec.go`, `internal/hub/hub.go`, `httpBackend` of `server.go` |
| `Enforcement` | abstract: each message is decided once, logged once, and leaves as decided | - |
| `AuditView` | `Transports` composed with `LogFormatter`: the log that is written, as it is shown | - |
| `LogFormatter` | how `dvarapala logs` names and hides lines, as operators | `cmd/dvarapala/logs.go` |
| `PolicyWatch` | startup, engine state, watcher, editor | `internal/policy/watch.go`, `engine.go`, `cmd/dvarapala/wrap.go`, `policy_watch.go`, `internal/config/loader.go` |
| `RuleMatch` | loading, compiling and matching of rules, as operators | `internal/config/loader.go`, `internal/policy/engine.go` |
| `Detection` | evaluations side by side, the detectors, redaction | `Evaluate` of `internal/policy/engine.go`, `internal/detectors/toolmutation`, `redactString` of `internal/proxy/stdio.go` and `internal/hub/redact.go` |
| `AuditLog` | rotation at the level of system calls, by several processes | `internal/audit/audit.go` |
| `LogFollower` | `AuditLog` with a reader beside it: the tail of the UI and its browsers, or `logs -f` | `internal/ui/server.go`, `cmd/dvarapala/logs.go` |
| `Daemons` | `install` and `daemon`, the processes, the user | `cmd/dvarapala/install.go`, `daemon.go` |
| `..._proofs` | the proofs about the module of that name; `Transports_proofs` also those about `AuditView` | - |
| `MC...` | constants of the small instances | - |

`HubBackend` implements `RemoteCall`; `StdioRelay` and `Transports` implement
`Enforcement`, each by an `INSTANCE ... WITH` checked as a property (`IsRemoteCall`,
`IsEnforcement`). What composes what: `Transports` takes from the hub's stdio backend
only what `RemoteCall` promises and leaves the rest to `HubBackend`; `AuditView` reads
the log that `Transports` writes; `LogFollower` extends `AuditLog`, with the reader's
steps between the writer's; `Detection` takes the rules of `RuleMatch`.

### HubBackend

`pc[c]` is the place of the handler goroutine of call `c` in `Call`: `store`
registers the channel in `pending`, `lock` takes `writeMu`, `text` and `newline`
are the two writes of `WriteRaw`, `unlock`/`failed` release the mutex, `await` is
the `select`, `cleanup` the deferred `Delete`. A notification skips the map and
the select. `Expire` ends the call's context (30 s, or the HTTP client leaves),
which only the select looks at. `readLoop` is `Scan`, `LoadAndDelete` and `Send`,
each a step of its own, so that timeouts and other calls come between; it ends on
a line that does not decode or at end of file. `Close` closes the child's stdin
while handlers may be in flight. The child reads a message with its newline,
answers what it has read in any order, late or repeatedly, speaks by itself, and
may exit at any time. A line carries its internal id and, in place of the text, the
call it stands for; the client's own id, restored from a local variable, is part
of that text.

### StdioRelay

`at[d]` is the place of relay `d` ("in" or "out"): `scan` reads a line and asks
the engine, `log` writes the audit event, `write` forwards to the child, `mutex`,
`text`, `newline` write to the client under `clientMu`. The order is the code's: a
refusal is written and then audited, everything else audited and then written. The
main goroutine is `WaitReturns` (`cmd.Wait`, which closes both of the gateway's pipe
ends) and `Join` (`wg.Wait`). The verdict is any action: the policy may change
between two messages. `log_only` forwards as `allow` does and is not told apart.
A message outside `Redactable`
is one that `applyRedaction` cannot decode (a number beyond a float64): it is forwarded and
logged as it came, under the action `redact`, and `Enforcement` says so. The
inbound relay closes the child's stdin when it ends (`DeferredClose`). The client may end
(`ClientEnds`): each later write to it fails and ends the relay, before the text (`unsent`) or
between the text and its newline (`cut`). A refusal that was not written has no event.
(On Unix a process whose stdout is a broken pipe is ended by SIGPIPE at that write,
since `main.go` asks for SIGINT and SIGTERM only, so that the error returns show on
Windows; a client that is there and does not read blocks the relay instead, which the
model has as a write that does not happen yet.)

### PolicyWatch

A save is a number, and whether the file already holds all of it; which saves do
not parse, do not compile, or parse when only a first part is there is given by
constants. `main` is the startup: load, compile, `SetRegistry` (load, change a
copy, store: two steps), start the watcher, serve. The watcher's tick is `Poll`
(take and remember a new stamp), `Load`, and `Reload`; the editor may write between
any two of them. `hidden` is a history variable: was the last write of the file
one that the watcher could not notice - before its first snapshot, with the same
mtime and size as the write before, or while the file could not be read. The
properties are stated up to it, and `MayDisturb` chooses which of the three occur.

### AuditLog

A file is an inode with the numbers of its lines and its size; `dir` maps
`audit.jsonl` (0) and the copies (k) to inodes, so that an open handle follows its
file through renames and removal. A process is one thread of system calls, since
`Logger.mu` serialises inside it: `WriteFits`/`WriteRotates` decide, then
`RemoveOldest`, `Shift` once per copy, `RenameActive` or `UnlinkActive`, `Reopen`,
`AppendLine`. Each call may fail as the code handles it, and a process may end
between any two. The `Stat` and the `Rename` of one copy are one step.

### Transports, LogFormatter, AuditView

`at[x]` is the place of the handler of exchange `x`: `log`, `refuse`, `forward`,
`relay`, `write`. A POST is one message; a GET (proxy only) opens the upstream's
stream. The upstream answers with one body or, to the proxy, with events; a body or
event is a `Frame`, and one that is not `whole` is what a cut has left of it.
`Timeout` is the 30 s of the proxy's `http.Client`, which span the whole answer, the
hub's context, or a lost connection. `Garbage` names what does not decode: it is
passed on as it is by the proxy, in both directions, without evaluation or event
(`IsEnforcement` is about the messages that decode), and is an error to the hub's HTTP
backend. To the hub's stdio backend a body that does not decode is a message without an
id, unless it is JSON of the wrong types in which the id was found (`Unanswered`).
`AtChild` is the handler that waits for `writeMu` or writes to the child. Two deviations of the HTTP paths from the relays are in the code and so in the
model: an inbound `redact` is forwarded as it came by both gateways, and the hub
forwards an outbound `deny`; the refinement maps say so (`Rewritable`, `Droppable`).

`LogFormatter` has no state of its own: `Format` folds the lines of a log, keeping
`methodByID` and `toolByID`. `AuditView` applies it to every suffix of the log that
`Transports` has written, since `-n` and a rotation make the reader begin anywhere.

### LogFollower

Which of the two followers runs is chosen at the start. `reading` is its place:
`open`, then `existing` (phase 1 of `logs -f`) or `seek` (the tail of the UI), `read`,
`publish` (the loop of `publish`, which holds the mutex), `tick`. A line is read whole. A
page in a browser subscribes, gets lines from a channel of `ChanCap`, ends and comes back
with a new channel; `Unsubscribe` and `CloseChan` are the two halves of `unsubscribe`.
`skipped` and `since` are history: the last line that is not to be shown, and what
had been published when a page came. The writer is the whole of `AuditLog`.

### RuleMatch, Detection

A pattern is the set of texts that it accepts, with the flag whether it compiles; texts
are sequences of symbols only where a match can lie inside another. `Evaluate` walks
over the rules of the state it loaded once (`doc`); each detector it consults is a
step, or one per tool in the tool-mutation detector: `Compare` is the critical
section of `mu`, `Persist` the append after it. `Reload`, `Restart`, a failing detector and a
failing write come anywhere. `persistent` chooses between `New`, which the commands
use, and `NewPersistent`. What the detectors said is kept for the properties: `hits` are the
findings a rule was content with, `unused` those of rules that were not, `missed` these rules.
The comparisons of a tool are numbered (`compared`, `shown`). `NoSilentChange` says that
between two comparisons of different definitions, or by the second, one has told. `lost`,
`cut` and `forgotten` are history and name its exceptions: what an evaluation saw that ended
with its process, the tools whose last record is missing or out of order, and where a
restart may have forgotten a tool. With `New`, which the commands use, it forgets all of them.
A redaction replaces the matches of all detectors that answer in one of their `Orders`: the
longer first, those of one length in any order, since `SliceStable` leaves them in that of the
registry.

### Daemons

Each client's configuration and backup, a record per name of a server, which all clients
share, and the process table, with the steps of `install` (`inst.at`) for one of the clients:
read, per server wrap or stop and spawn, record, save. An entry that is `local` points at a
port. `Original` says what each client's user calls by a name: clients can have one name for
different URLs, or for a command. The backup is the file as it was when it was first edited,
by either mode of `install` (`Backed`), with or without servers in it (`Settings`). A daemon
command lists the records and then acts on each; a proxy binds its port after it was started
or ends when somebody has it; processes die, and their PID and port are given to others; the
user puts an entry back as it was. An install ends between any two steps. `adrift` is
history: pairs of a client and a server whose record was deleted, or saved anew by an install
for another client, and whose entry no install has replaced since; the properties leave
these out, see section 4. `Settled` is an assumption: a proxy of an earlier run has bound its
port, or ended, before the next install is started by hand.

## 3. Runs

| run | instance | what it shows |
|---|---|---|
| `hub_routing` | 2 requests, 1 notification, pipes of 2 chunks | replies are routed, nothing leaks, lines are whole, no reply is lost before its channel exists, `RemoteCall` is implemented |
| `hub_returns` | 1 request, 1 notification, a child whose own requests have id 0 | every call returns; ids of the child below 1 are harmless |
| `hub_server_id` | 1 request, a child whose own requests start at 1 | violated: such a request is returned as the answer to the call |
| `stdio_enforcement` | 1 request, 1 client notification, 1 server notification, a broken line of the client, a client and a child that may end | decisions, log and effects agree; `Enforcement` is implemented; refusals and replies do not mix |
| `stdio_returns` | 1 request, 1 server notification, broken lines both ways, a client and a child that may end, fairness | `RunStdio` returns after the client's end of file; what a child says is audited |
| `stdio_exit` | 1 request, a child that answers and exits | violated: `cmd.Wait` closes the pipe before the last reply is read |
| `policy_reload` | 5 versions of the file, all three disturbances, fairness | rules in force are usable, monotonic, keep the registry, are current when the watcher is quiet, and catch up |
| `audit_rotation` | 1 process, 0, 1 or 3 copies, 6 lines of size 1, 2 or 4, cap 3, failing calls, crashes | what is on disk is a suffix of the log, in order; the cap holds; only the oldest copy is dropped |
| `log_following` | 1 process, 0 or 1 copy, 5 lines, 2 to a file, crashes; `logs -f` with `-n` 0 or 1, or the UI with 1 browser that connects twice and a channel of 1 | lines are shown in order and once, a page misses only what its full channel refused, nothing is sent on a closed channel, each line that stays is shown |
| `transports` | 4 POSTs and a GET over proxy, HTTP and stdio backend, two at a time; an event of a server; two requests with one id; a post and an event that do not decode | the log is written ahead, `Enforcement` is implemented, responses are named after their requests in every part of the log, every exchange ends unless it is stuck at the hub's child |
| `detection` | 2 handlers, 3 evaluations, 3 documents of which one does not compile, 3 tool lists, 1 call, 1 reload, restart or failure | a decision is that of one policy, each change of a tool is reported, nested matches are redacted |
| `daemons` | 2 clients that share 2 names: another URL for each by one, a command and a URL by the other, which one client adds later; at the start nothing, or what an older version has installed for one client; 2 ports, 3 PIDs, 3 installs, and 4 events in all: installs, edits, daemon commands, foreign processes | no upstream URL is lost, nobody reaches another's proxy, an install that ends protects, unless the record was deleted or overwritten |

The bounds. Two requests are what it takes to confuse two replies, and a
notification adds the writer that shares the mutex but not the map; more calls are
symmetric. Pipes of two chunks hold one message with its newline, so that a writer
can block in the middle of a line. One message per kind in `StdioRelay` puts one in
the hand of each relay and one in each pipe; audit events and effects are kept
apart by name. Five versions of the policy cover: unparsable, uncompilable, half
parsing, good, and a good one after a bad one. Three copies are the least where the
loop of `rotate` runs twice, 0 and 1 are its edge cases; six lines with a cap of
3 fill and rotate beyond the horizon, and a line of 4 is longer than the cap.
Two lines to a file with one copy make the fifth line rotate for the second time, so
that a follower can be two files behind; with a channel of 1 the second line is
refused, and a second connection meets the remains of the first. Two exchanges at
a time is what it takes for the events of one to come between those of another; they are chosen
among five, so that each pair of gateways occurs. Three evaluations are a first sight of a tool, a
change, and one beside it; one upset is a reload, a restart or a failure in any of
their steps. Three installs are one for each client and another for the first, which finds
the record that the second has overwritten; or one that is cut short and one that finds
what it left. With two ports and three PIDs a port and a PID come round again; exits of
processes, the end of an install and its steps are not counted.
Deadlock is not checked, since every instance sends finitely many messages and may
stop when they are done; the liveness properties say what must have happened.

The fairness. `hub_returns`: each goroutine is scheduled (weak fairness per call
and for the reader), the timer fires, and the child goes on reading its stdin. The
last is an assumption: a child that stops reading blocks the goroutine that holds
`writeMu`, and then every other, out of reach of their contexts. The child need not
answer. `stdio_returns`: relays and main goroutine are scheduled; the child reads,
answers, and exits at the end of its stdin, as servers on stdio do; `ChildIsHeard` and
`ReturnsAfterEOF` except a child that has sent a line that is not JSON-RPC, and a client
that has stopped reading, since the outbound relay then ends and nobody reads the child,
which may stay blocked in a write. `policy_reload`: startup and
ticker proceed, and a save that has begun is finished; nobody need save, and a tick
that fails to see the file may happen but is never counted on. `transports`: handlers
run, clients read what they are sent, and timers fire; upstreams need not answer. A handler
at the child of a hub (`AtChild`) is not assumed to run: `Call` takes `writeMu` and writes
with no regard to its context, so that a child that stops reading keeps it for ever.
`EveryExchangeEnds` has this as a condition on the exchange at hand (`ChildReads`), the
others must end even so. `log_following`: only the follower's own goroutine
is sure to run; the writer may stop, and browsers need not read. `detection` and
`daemons` check safety only.

Each property has a mutant in `PROJECT.json`: a change to one definition, of the
kind a slip in that code would be, under which TLC refutes the property.

## 4. Where the code and its documents disagree

Two statements of the repository are refuted by a run; `PROJECT.json` ("findings")
quotes them. (1) `readLoop` matches by id alone, so a request made by the server
with an id that is pending is taken for a reply (`hub/server.go:118`, run
`hub_server_id`). (2) `cmd.Wait` may close the child's stdout before its last replies
are read (`proxy/stdio.go:120`, run `stdio_exit`).

The models hold more of them, as behaviours that the properties leave out by name:

- *Policy.* A save during startup becomes the watcher's baseline and is not loaded
  (`policy/watch.go:65`; CHANGELOG.md:79-80: "within ~2 seconds of any save"). A tick
  in the middle of a save in place puts a part of it in force if that part parses (`watch.go:80`;
  CHANGELOG.md:85-88). Both are `hidden` in `PolicyWatch`.
- *Audit log.* Processes that share a log count only their own bytes and exceed
  `MaxBytes` (`audit/audit.go:178`; CHANGELOG.md:141-142).
- *HTTP paths.* "deny / redact / log_only behave identically" (`cmd/dvarapala/proxy.go:37-39`) is not
  so: see `Transports` above. A redacted reply is logged as it came. A stream through
  the proxy ends after the client's 30 s, and the piece of an event that was cut is passed on
  unevaluated.
- *Log formatting.* A response may be named after the request of another server, or one
  that was denied, if that used its id and was not answered; lines without a method
  stay hidden under `--all` (`logs.go:487-488` says otherwise), since the check does not look at `showAll`.
- *Followers.* The UI's tail goes to the end of the new file, so the line whose write
  rotated the log is never published (CHANGELOG.md:36-37: "survives an audit log
  rotation transparently"). Neither follower reads the rest of the old file before it
  reopens, and two rotations between two ticks lose a file.
- *Rules.* `tool_description_matches` is compiled and then not looked at, so that a rule with no
  other condition matches everything (`policy/types.go:81-84`). A pattern under `args` that is not a string
  is dropped, and with the last one the condition (`config/loader.go:154`). Since the first match
  decides, a rule with `log_only` ends the evaluation before the packs.
- *Tool mutation.* CHANGELOG.md:374-375 ("persistent SHA-256 fingerprints - always on, JSONL
  persistence"), README.md:17 and docs/built-in-rules.md:12 promise that a definition
  which changed across a restart is found. The commands make the detector by `New`
  (`wrap.go:124`), which keeps the fingerprints in memory: after a restart each tool is new and
  such a change is silent. `NoSilentChange` leaves it out (`forgotten`); `ToldAcrossRestarts`
  in `Detection` states the promise, TLC refutes it, and no run checks it. With
  `NewPersistent` the same happens where a crash or a failed write has cut off the last record,
  or two handlers have appended theirs in the other order than they compared. A rule that
  asks the detector for a change and for something else uses the finding up
  (`engine.go:172`). Every `Detect` appends a record, new or not.
- *Redaction.* Matches that overlap without one holding the other leave a remainder;
  keys of objects are not redacted; a detector that fails leaves its matches.
- *Daemons.* A record is found by the name of a server alone (`daemon.go:44-46`), and all
  clients share the records. If two clients have a server of one name, with the same URL or
  another, an install for the second overwrites the record of the first, whose entry keeps
  its port; `install` never compares an entry with the record of its name
  (`install.go:214-237`), so that a later install for the first client starts a proxy at
  the record's port for the record's URL, or finds one there, and leaves the entry as it
  is. No record holds the entry's port any more, and once its proxy has ended the port can
  be given to the proxy of another server. A record that was deleted (`daemon remove`, or
  `clean` beside an install that has just saved it) does the same. These entries are
  `adrift`; the other claims of `Daemons` hold for all the rest.
- *PIDs.* "matching daemon record + process alive -> genuinely already proxied" (`install.go:207-208`)
  is not so when the PID was given to another process: `GenuinelyProxied` in `Daemons`
  states it, TLC refutes it, and no run checks it. `daemon stop` signals that process.
  An install that ends before it saves leaves proxies which the next does not find. The
  configuration is written over what the user edited meanwhile. `daemon stop` says
  "cleared stale record" and keeps it.
- *Hub.* A handler that waits for `writeMu`, or writes to a child that does not read, is not
  ended by its 30 s (`hub/server.go:131-134, 146-148`).
- *Stdio relay.* A refusal that cannot be written to the client has no event
  (`proxy/stdio.go:167-169`), though every decision is logged otherwise.

## 5. Proofs

The theorems hold for every value of the constants that satisfies the named
assumptions of the modules, and so for any number of messages, calls, processes, ports or
browsers. Those are the conditions a state of the program satisfies anyway (sets are
disjoint, capacities are positive). What is assumed beyond is said at each.

`HubBackend_proofs`: every safety property of the runs.

- `TypeCorrect`: `Spec => []TypeOK`.
- `RoutingInductive` (`RoutingInv`), whatever ids the child gives to its own requests.
  `RoutedToCaller` alone is not inductive: a wrong message may already be on its way.
  `RoutingInv` adds that ids are distinct and bounded by `nextID` (`IdsDistinct`), that an id
  stays with the call it was given to along the whole way - map, stdin, child, stdout,
  reader (`IdsTravelWithCalls`) - and that a channel holds only its call's own reply, or a
  request of the child's own under the very id of that call (`ChannelsHoldOwnLine`): that
  collision is the only way to a wrong answer.
- `RepliesAreRouted` (`RoutedToCaller`), assuming `ServerIds \subseteq {0}`: the child numbers
  none of its own requests with an id a call can have (in run `hub_server_id` it does, and
  the property fails).
- `LinesAreWhole` (`LinesIntact`): who is in the critical section holds `writeMu`
  (`MutexInv`), and a half line in the pipe is that of the holder (`StdinInv`).
- `MapHoldsLiveCalls` (`EntriesAreLive`), `ReaderFindsRoom` (`SendFindsRoom`): an entry
  belongs to a call that is not over, and has received nothing yet (`MapInv`).
- `NoReplyIsLost` (`NoReplyLost`, an action property): what the child knows of came from a call that
  has registered (`HeardInv`, `PresentInv`).
- `BackendIsRemoteCall` (`IsRemoteCall`): each step is one of `RemoteCall` or a stutter,
  under the same assumption about `ServerIds`.

`StdioRelay_proofs`: every safety property of the run.

- `TypeCorrect` (`TypeOK`): types, and that a relay holds a message exactly while it handles one.
- `ClientLinesAreWhole` (`ClientLinesIntact`): the chunks in the client's stdout end in
  the middle of a line only while the holder of `clientMu` is between its writes, or where
  the write of its newline has failed; after that nothing is written (`GoneInv`).
- `MessagesAgree` (`MessagesInv`): for each message, what is decided, what is logged and
  what has left agree, by cases of where the message is - not yet sent, in a pipe,
  in hand, out. It is stated per message, and a lemma (`Elsewhere`) says that a step
  which handles one leaves the others. `AuditTrailHolds`, `ClientIsAnsweredOnce`,
  `ClientIsFullyAudited` follow, the last two with what has been asked and refused.
- `RelaysEnforce` (`IsEnforcement`): each step decides, logs or lets out one message as
  `Enforcement` allows, or none.

`PolicyWatch_proofs`: every safety property of the run.

- `PolicyInForce`: `Spec => []CurrentInv`, the inductive invariant. It says what is
  known at each stage: the stamp the watcher keeps is never ahead of the file's
  (`StampsInv`), until the watcher polls only the startup changes the engine and a
  save in between is hidden (`StartupInv`), what a tick has read is what the file
  holds or the stamp has moved on (`TickInv`: the reason why the stamp must be
  taken before the file is read), and the engine is no newer than what was loaded,
  which is no newer than the file (`EngineInv`).
- `WatcherCatchesUp` (`QuietMeansCurrent`), `ReloadIsSafe` (`ActiveRulesUsable`),
  `RegistrySurvivesReloads` (`RegistryKept`) follow; `RulesAreMonotonic`
  (`NeverGoesBack`) is an action property from the same invariant.

`AuditLog_proofs`: every property of the run, for calls that fail or are cut off by a
crash wherever they can, assuming that one process has the path to itself
(`\A q, r \in Procs : q = r`); with two, `FilesUnderCap` fails.

- `LogIsSound`: `Spec => []AuditInv`, the inductive invariant. `HistoryIsSuffix` alone
  is not inductive: a rename could land on a file that is not the oldest, and a line
  could go to a file that is no longer `audit.jsonl`. `OwnHandle` says that the open
  handle is `audit.jsonl` and that no inode has two names, `RotationInv` that each
  rename finds its target free or replaces the oldest copy, also when an earlier
  rotation was cut short, `NumbersInv` that the lines on disk are numbered up to
  `lines`. What a call does to the history as a whole is a lemma of its own:
  `SameHistory`, `OldestDropped`, `FileMoved` and `LineAdded`.
- `HistoryIsKept` (`HistoryIsSuffix`) follows; `FilesStayUnderCap` (`FilesUnderCap`)
  adds that a process knows the size of the file it appends to.
- `OnlyTheOldestIsDropped` (`DroppedAtHorizon`) needs `HorizonInv`: as long as nothing was
  disturbed, lines are missing only while all the copies that should exist at this
  stage of the rotation do.

`LogFollower_proofs`, on top of the invariant of `AuditLog`:

- `PublishFindsOpenChannels` (`NoSendOnClosed`), with no assumption: those that are still to be
  sent to are registered (`RegisteredInv`), and the mutex keeps them so.
- `FollowerKeepsItsPlace`: with one process that writes the log, all that was shown or
  passed over was written before all that still lies ahead of the handle
  (`FrontierInv`), lines being numbered along the inodes (`InodesInv`), and of the file
  at hand all has been shown that was not passed over (`PlaceInv`). The step is split: a
  call of the writer only adds behind (`WriterGrows`, `WriterKeeps`), a step of the
  reader leaves the log alone (`FollowerKeeps`).
- `LinesShownInOrder` (`ShownInOrder`) and `StreamsMissOnlyWhenSlow` (`GapsOnlyWhenSlow`)
  follow, the latter with what a page has been meant to get (`StreamInv`).

`Daemons_proofs`: every property of the run, for any clients and any names they share, with no
further assumption.

- `DaemonsAgree`: `Spec => []DaemonInv`, the inductive invariant: what was a URL when a
  configuration was first edited is one in its backup (`BackupInv`); a local entry, in a
  configuration or in the copy of an install, and the record of its name are of one port and
  one URL, unless it is adrift, and so is what a running install is about to record
  (`EntryInv`); the servers that the install has come past are wrapped, local or absent
  (`PassedInv`); and a port belongs to one server and one URL, among the records, the
  proxies that have it or are about to bind it, and the install (`PortInv`). `OwnProxy` alone
  is not inductive: the proxy that will break it may have been started, or its port chosen,
  many steps before.
- `UpstreamsAreKept` (`UpstreamKept`), `ProxiesAreOwn` (`OwnProxy`) and, as an action
  property, `InstallsProtect` (`InstallProtects`) follow. Like the properties they are about
  entries that are not adrift: the code does not keep these claims for the others.

`Transports_proofs`, on top of `Transports`, with any number of exchanges and messages:

- `TransportsAgree`: `Spec => []TransportInv`, the inductive invariant. `LoggedFirst`
  alone is not inductive. `HandInv` says that what a handler has in hand decodes and is
  its own; `BodyInv` that what is in a body was sent by its upstream, over its own
  exchange and once, and that an upstream has answered only what has reached it;
  `MessagesInv`, per message, that it is in one body or in one handler's hands at most, that
  nothing is out before its event, and after it nothing but what was decided.
  A step concerns one message at most, which is a lemma (`MessagesStep`).
- `LogIsAhead` (`LoggedFirst`) follows.
- `TransportsEnforce` (`IsEnforcement`): each step of a handler, an upstream or a client is one of
  `Enforcement`, or none.

- `ResponsesAreNamed` (`ResponsesNamed`), about `AuditView`, from the same invariant. It assumes
  `AttributesAssumption`: a response carries the id of its request, and only a `tools/call` has a
  tool, which is how a JSON-RPC message is made. What `Format` computes is a recursive function
  over the lines: `FormatIs` unfolds it, `RecallsOn` says that the memory keeps a request's
  names from its line to the response, and `LineIsNamed` that the response is then shown under them.

`Detection_proofs`, with any documents, packs, messages, words and number of handlers:

- `DetectionAgrees`: `Spec => []DetectionInv`, the inductive invariant. `PlaceInv` says where an
  evaluation stands: the rules it has passed do not match or are in `missed`, and what it has
  found are names of its message's tools. `HistoryInv`, per comparison of a tool: if the
  detector remembers another definition by now, a later comparison has told, or may have
  forgotten it. `StoreInv`: with `NewPersistent` the last record of a tool is what the detector
  remembers of it, or is about to be written, unless the tool is in `cut`; so a restart
  forgets these only. `ShownInv`: an evaluation has shown the detector each tool that it has
  come past. `RedactedInv` says of what leaves under
  `redact` that it was redacted for what the detectors found.
- `DecisionsAreOfOnePolicy` (`DecidedByOnePolicy`): from `PlaceInv`, that the rule come to is the
  first of the user's that fires, or else the first of the packs' (`VerdictIs`). The rules
  of a document are a sequence because `FlattenSeq` makes one (`FlattenSeqType`).
- `ChangesAreTold` (`NoSilentChange`) follows from `HistoryInv` and `ShownInv`.
- `RedactionIsComplete` (`RedactionCovers`): a text with markers stands for one with a marker per
  symbol (`StandsFor`), in which `Replaced` paints over a word (`ReplacedStands`), since a word
  without marker occurs in the one where it occurs in the other (`OccursBelow`,
  `OccursAbove`). The longer words come first, so that they leave all or nothing of the next
  (`VeilGrows`); by induction over the order, redaction paints what the matches cover
  (`RedactedStands`, `MatchedCovers`, `OrdersAre`), and texts that stand for each other differ
  in runs of markers only (`PlainAgrees`). This needs that matches nest (`Nested`, part of
  the property, see section 4) and that no word holds the marker (`WordsAssumption`).

Induction. What a recursive function computes is proved by least counterexample: the library's
theorems that take a predicate as a parameter cannot be instantiated, so the lemmas
`LeastNumber` and `Induction` state the principle for a set of numbers, from `WFMin` and the
well-foundedness of `<`. The function itself, which the code computes along a text, a log or a
list, is first shown to exist (`ReplacingExists`, `PlainExists`, `RedactionExists`,
`MemoryExists`, `FlattenExists`).

Only model-checked: the liveness properties (`EveryCallReturns`, `ReturnsAfterEOF`,
`ChildIsHeard`, `SavedPolicyTakesEffect`, `EachLineFollowed`, `EveryExchangeEnds`), which
need fairness and ENABLED, out of reach of the prover. Every safety property of a passing run is
a theorem.

## 6. Not modelled

Wording and JSON: a message is a name, redaction a form, except in `Detection`, where a
text has symbols. The regular expressions of the detectors, the gitleaks library and
the protocols of the sidecars: a detector finds the words it knows, or fails.
Errors of the audit log inside the relays and handlers, which the code
ignores. A short write of the audit log (disk full), which leaves a partial line;
lines read in parts; `/api/events/recent`, which the page calls before it subscribes
and which nothing removes duplicates against. A command started without a policy file, which has no watcher. The
directory and the 404 of the hub, HTTP headers. In `Daemons`: the timestamped snapshots of the
configuration, the Windows variants, local URLs of the user's own, an operating
system that writes a file in parts. The commands that only read and print
(`doctor`, `lint`, `test`, `scan`, `init`), the SDKs, the sidecars and the packaging: they keep no
state and meet no other process.

## 7. What could come next

In the order of what it would add: several processes that share one audit log, with
the properties that remain true of them (what is lost when both rotate);
partial lines and `/api/events/recent` in `LogFollower`; failing audit writes in the relays.
