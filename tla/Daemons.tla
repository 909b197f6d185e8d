-------------------------------- MODULE Daemons --------------------------------
(***************************************************************************)
(* `dvarapala install` and `dvarapala daemon` (src/cmd/dvarapala/          *)
(* install.go, daemon.go): the configuration of each client and its        *)
(* backup, the records under ~/.dvarapala/daemons, one for each name of a  *)
(* server, whichever clients have it, and the processes they name.         *)
(* install --wrap-all walks over the servers of one configuration, wraps   *)
(* those that are commands, starts a proxy for those that are URLs, and    *)
(* writes the configuration at the end; daemon stop, stop-all, remove and  *)
(* clean run beside it, the user edits the configurations, processes end   *)
(* and their PIDs are given to others, and an install ends anywhere.       *)
(*                                                                         *)
(* One install and one daemon command run at a time.  A file is written in *)
(* one step.                                                               *)
(***************************************************************************)
EXTENDS Naturals, Sequences, FiniteSets

CONSTANTS
  Clients,
  Order,       \* the names of servers, in their order
  Urls,
  Original,    \* what its user has a client call by each name: a URL, stdio, or none
  Later,       \* the <<client, name>> that are added later on
  Settings,    \* clients whose file holds more than servers
  NPorts,      \* the ports from the start hint on
  Pids,
  MaxInstalls, \* bound: runs of install --wrap-all
  MaxEvents    \* bound: these, single installs, edits, daemon commands and other processes

Names == {Order[i] : i \in DOMAIN Order}
Ports == 1..NPorts
NoPort == 0
NoPid == 0
NoUrl == "none"

ASSUME OrderAssumption == Order \in Seq(Names) /\ Order # << >> /\ Clients # {}
ASSUME OriginalAssumption ==
  /\ Original \in [Clients -> [Names -> {"none", "stdio"} \cup Urls]]
  /\ {"none", "stdio"} \cap Urls = {}
  /\ Later \subseteq Clients \X Names /\ Settings \subseteq Clients
ASSUME PidsAssumption ==
  Pids \subseteq Nat \ {NoPid} /\ DOMAIN Order \subseteq Pids /\ NPorts \in Nat
ASSUME DaemonBounds == MaxInstalls \in Nat /\ MaxEvents \in Nat

VARIABLES
  config,    \* each client's entries: absent, stdio, url, untagged, wrapped, or local and a port
  backup,    \* <config>.bak: what it holds of each server
  saved,     \* the clients that have it
  known,     \* the <<client, name>> that were URLs when the configuration was first edited
  record,    \* daemonRecord of each name; pid NoPid if there is none
  proc,      \* the process table
  inst,      \* the install that runs: whose, where it is, which server it has come to, the port,
             \* URL and PID of its proxy, and whether that server's entry is to be replaced
  work,      \* its copy of the configuration
  used,      \* the ports it will not choose
  fresh,     \* the servers it has given a new entry
  cmd,       \* the daemon command that runs: what it does, to whom, and the records it has read
  adrift,    \* <<client, name>> whose record was deleted, or saved anew by an install for another
             \* client, and whose entry no install has replaced since
  installs, events   \* so far, up to their bounds

files == <<config, backup, saved, known>>
counts == <<installs, events>>
instVars == <<inst, work, used, fresh>>
vars == <<files, record, proc, instVars, cmd, adrift, counts>>

Entry(kind, port) == [kind |-> kind, port |-> port]
Absent == Entry("absent", NoPort)
NoRecord == [pid |-> NoPid, port |-> NoPort, url |-> NoUrl, current |-> TRUE]
NoProc == [kind |-> "none", name |-> Order[1], url |-> NoUrl, port |-> NoPort, up |-> FALSE]
Proxy(n, url, p) == [kind |-> "proxy", name |-> n, url |-> url, port |-> p, up |-> FALSE]
Resting == [client |-> CHOOSE c \in Clients : TRUE, at |-> "idle", i |-> 1, port |-> NoPort,
            url |-> NoUrl, pid |-> NoPid, anew |-> FALSE, changed |-> FALSE]
NoCommand == [op |-> "none", left |-> << >>, read |-> [n \in Names |-> NoRecord], at |-> "next"]

Remote(c, n) == Original[c][n] \in Urls
Own(c, n) == Entry(IF Remote(c, n) THEN "url" ELSE "stdio", NoPort)
Before(c, n) == IF <<c, n>> \in Later \/ Original[c][n] = "none" THEN Absent ELSE Own(c, n)

\* Either nothing was installed before, or an older version has been for one client: the
\* commands carry no --server, the proxies run and have records of the old schema.
PidOf(n) == CHOOSE k \in Pids : \E i \in DOMAIN Order : Order[i] = n /\ k = i
OldProxies(c) == {n \in Names : Before(c, n).kind = "url"}
OldEntry(c, n) ==
  IF n \in OldProxies(c) THEN Entry("local", PidOf(n))
  ELSE IF Before(c, n) = Absent THEN Absent ELSE Entry("untagged", NoPort)

NothingInstalled ==
  /\ config = [c \in Clients |-> [n \in Names |-> Before(c, n)]]
  /\ backup = [c \in Clients |-> [n \in Names |-> Absent]] /\ saved = {} /\ known = {}
  /\ record = [n \in Names |-> NoRecord]
  /\ proc = [k \in Pids |-> NoProc]

OldInstalled(d) ==
  /\ config = [c \in Clients |-> [n \in Names |-> IF c = d THEN OldEntry(c, n) ELSE Before(c, n)]]
  /\ backup = [c \in Clients |-> [n \in Names |-> IF c = d THEN Before(c, n) ELSE Absent]]
  /\ saved = {d} /\ known = {d} \X OldProxies(d)
  /\ record = [n \in Names |-> IF n \in OldProxies(d)
       THEN [pid |-> PidOf(n), port |-> PidOf(n), url |-> Original[d][n], current |-> FALSE]
       ELSE NoRecord]
  /\ proc = [k \in Pids |-> IF \E n \in OldProxies(d) : k = PidOf(n)
       THEN LET n == CHOOSE n \in OldProxies(d) : k = PidOf(n)
            IN  [Proxy(n, Original[d][n], k) EXCEPT !.up = TRUE]
       ELSE NoProc]

Init ==
  /\ NothingInstalled \/ \E d \in Clients : OldInstalled(d)
  /\ inst = Resting /\ work = [n \in Names |-> Absent] /\ used = {} /\ fresh = {}
  /\ cmd = NoCommand /\ adrift = {}
  /\ installs = 0 /\ events = 0

Upset == events < MaxEvents /\ events' = events + 1 /\ UNCHANGED installs
Run == /\ installs < MaxInstalls /\ installs' = installs + 1
       /\ events < MaxEvents /\ events' = events + 1

-------------------------------------------------------------------------------
\* Processes.

Alive(k) == k # NoPid /\ proc[k].kind # "none"
Bound(p) == \E k \in Pids : proc[k].kind # "none" /\ proc[k].up /\ proc[k].port = p
Kill(k) == proc' = [proc EXCEPT ![k] = NoProc]

\* A proxy binds its port, or ends if somebody has it.
Bind(k) ==
  /\ proc[k].kind = "proxy" /\ ~proc[k].up
  /\ IF Bound(proc[k].port) THEN Kill(k) ELSE proc' = [proc EXCEPT ![k].up = TRUE]
  /\ UNCHANGED <<files, record, instVars, cmd, adrift, counts>>

Exit(k) ==
  /\ Alive(k) /\ Kill(k)
  /\ UNCHANGED <<files, record, instVars, cmd, adrift, counts>>

\* A process of somebody else gets a PID that is free, and perhaps a port.
OtherStarts(k, p) ==
  /\ ~Alive(k) /\ ~Bound(p) /\ Upset
  /\ proc' = [proc EXCEPT ![k] = [NoProc EXCEPT !.kind = "other", !.port = p, !.up = p # NoPort]]
  /\ UNCHANGED <<files, record, instVars, cmd, adrift>>

\* The user adds a server, or puts one back as it was.
Edit(c, n) ==
  /\ Original[c][n] # "none" /\ config[c][n] # Own(c, n)
  /\ Upset
  /\ config' = [config EXCEPT ![c][n] = Own(c, n)]
  /\ UNCHANGED <<backup, saved, known, record, proc, instVars, cmd, adrift>>

-------------------------------------------------------------------------------
\* install --wrap-all.

Client == inst.client
Server == Order[inst.i]
HasRecord(n) == record[n].pid # NoPid
Present(c) == {n \in Names : config[c][n] # Absent}

\* readConfigForEdit: a file that is not empty is backed up, when it is first edited.
EachRun(c) == TRUE
FirstRun(c) == c \notin saved
Backed(c) ==
  IF FirstRun(c) /\ (Present(c) # {} \/ c \in Settings)
  THEN /\ backup' = [backup EXCEPT ![c] = config[c]]
       /\ saved' = saved \cup {c}
       /\ known' = known \cup ({c} \X {n \in Names : config[c][n].kind = "url"})
  ELSE UNCHANGED <<backup, saved, known>>

NoPortsKept == {}
RecordedPorts == {record[n].port : n \in {m \in Names : HasRecord(m)}}

\* A proxy of an earlier run has its port, or has ended, before the user runs the next.
Settled == \A k \in Pids : proc[k].kind = "proxy" => proc[k].up

\* Without servers the command ends, with its backup written.
StartInstall(c) ==
  /\ inst.at = "idle" /\ Settled
  /\ Run /\ Backed(c)
  /\ IF Present(c) = {} THEN UNCHANGED instVars
     ELSE /\ work' = config[c] /\ used' = RecordedPorts /\ fresh' = {}
          /\ inst' = [Resting EXCEPT !.client = c, !.at = "server"]
  /\ UNCHANGED <<config, record, proc, cmd, adrift>>

\* It comes to the next server; a change is remembered.
Onward(changed) == [inst EXCEPT !.at = "server", !.i = @ + 1, !.changed = @ \/ changed]
InLoop == inst.at = "server" /\ inst.i <= Len(Order)

WrapCommand ==
  /\ InLoop /\ work[Server].kind \in {"stdio", "untagged"}
  /\ work' = [work EXCEPT ![Server] = Entry("wrapped", NoPort)]
  /\ inst' = Onward(TRUE)
  /\ UNCHANGED <<files, record, proc, used, fresh, cmd, adrift, counts>>

\* pickFreePort takes the first that is neither recorded nor bound; without one the
\* command ends, and so does everything it had in mind.
FreePorts == {p \in Ports : p \notin used /\ ~Bound(p)}
PickPort ==
  IF FreePorts = {} THEN inst' = Resting /\ UNCHANGED used
  ELSE \E p \in FreePorts :
         /\ \A q \in FreePorts : p <= q
         /\ used' = used \cup {p}
         /\ inst' = [inst EXCEPT !.at = "spawn", !.port = p, !.url = Original[Client][Server],
                                 !.anew = TRUE]

\* A URL that is remote, or local without a record but with a remote one in the backup.
Recoverable(n) == ~HasRecord(n) /\ backup[Client][n].kind = "url"
NewProxy ==
  /\ InLoop
  /\ \/ work[Server].kind = "url"
     \/ work[Server].kind = "local" /\ Recoverable(Server)
  /\ PickPort
  /\ UNCHANGED <<files, record, proc, work, fresh, cmd, adrift, counts>>

\* A local URL whose recorded process has ended, or speaks for an older version and is
\* stopped, gets a new process at the recorded port, for the recorded URL.
PortAnew(n) == IF FreePorts = {} THEN record[n].port ELSE CHOOSE p \in FreePorts : TRUE
PortAgain(n) == record[n].port

Respawn ==
  /\ InLoop /\ work[Server].kind = "local" /\ HasRecord(Server)
  /\ ~Alive(record[Server].pid) \/ ~record[Server].current
  /\ inst' = [inst EXCEPT !.at = IF Alive(record[Server].pid) THEN "stop" ELSE "spawn",
                          !.port = PortAgain(Server), !.url = record[Server].url,
                          !.pid = record[Server].pid, !.anew = FALSE]
  /\ UNCHANGED <<files, record, proc, work, used, fresh, cmd, adrift, counts>>

\* stopDaemon waits for three seconds between SIGTERM and SIGKILL.
StopOld ==
  /\ inst.at = "stop"
  /\ IF Alive(inst.pid) THEN Kill(inst.pid) ELSE UNCHANGED proc
  /\ inst' = [inst EXCEPT !.at = "spawn"]
  /\ UNCHANGED <<files, record, work, used, fresh, cmd, adrift, counts>>

\* One whose recorded process is there is left as it is.
LeaveProxied ==
  /\ InLoop /\ work[Server].kind = "local" /\ HasRecord(Server)
  /\ Alive(record[Server].pid) /\ record[Server].current
  /\ inst' = Onward(FALSE)
  /\ UNCHANGED <<files, record, proc, work, used, fresh, cmd, adrift, counts>>

Skip ==
  /\ InLoop
  /\ \/ work[Server].kind \in {"absent", "wrapped"}
     \/ work[Server].kind = "local" /\ ~HasRecord(Server) /\ ~Recoverable(Server)
  /\ inst' = Onward(FALSE)
  /\ UNCHANGED <<files, record, proc, work, used, fresh, cmd, adrift, counts>>

\* spawnProxy: the process, then its record, then the entry in the copy; the entry of a
\* server whose proxy was started again stays as it is.
Spawn ==
  /\ inst.at = "spawn"
  /\ \E k \in {j \in Pids : ~Alive(j)} :
       /\ proc' = [proc EXCEPT ![k] = Proxy(Server, inst.url, inst.port)]
       /\ inst' = [inst EXCEPT !.at = "save", !.pid = k]
  /\ UNCHANGED <<files, record, work, used, fresh, cmd, adrift, counts>>

\* The record of the name is written, whichever client it was for.
SaveRecord ==
  /\ inst.at = "save"
  /\ record' = [record EXCEPT ![Server] =
       [pid |-> inst.pid, port |-> inst.port, url |-> inst.url, current |-> TRUE]]
  /\ IF inst.anew
     THEN /\ work' = [work EXCEPT ![Server] = Entry("local", inst.port)]
          /\ fresh' = fresh \cup {Server}
          /\ adrift' = adrift \cup ((Clients \ {Client}) \X {Server})
     ELSE UNCHANGED <<work, fresh, adrift>>
  /\ inst' = [Onward(TRUE) EXCEPT !.port = NoPort, !.url = NoUrl, !.pid = NoPid, !.anew = FALSE]
  /\ UNCHANGED <<files, proc, used, cmd, counts>>

\* The command is ended, or one of its steps fails: what it has started remains.
Interrupt ==
  /\ inst.at # "idle" /\ inst' = Resting
  /\ UNCHANGED <<files, record, proc, work, used, fresh, cmd, adrift, counts>>

\* The whole copy is written, over what the user has edited meanwhile.
EndInstall ==
  /\ inst.at = "server" /\ inst.i > Len(Order)
  /\ IF inst.changed
     THEN config' = [config EXCEPT ![Client] = work] /\ adrift' = adrift \ ({Client} \X fresh)
     ELSE UNCHANGED <<config, adrift>>
  /\ inst' = Resting
  /\ UNCHANGED <<backup, saved, known, record, proc, work, used, fresh, cmd, counts>>

\* install --server n --command ...: rewriteMCPConfig, whatever the entry was.
InstallOne(c, n) ==
  /\ inst.at = "idle"
  /\ Upset /\ Backed(c)
  /\ config' = [config EXCEPT ![c][n] = Entry("wrapped", NoPort)]
  /\ UNCHANGED <<record, proc, instVars, cmd, adrift>>

-------------------------------------------------------------------------------
\* dvarapala daemon: the records are read once, at the start.

Recorded == SelectSeq(Order, HasRecord)
BeginCommand(op, names) ==
  /\ cmd.op = "none" /\ names # << >> /\ Upset
  /\ cmd' = [op |-> op, left |-> names, read |-> record, at |-> "check"]
  /\ UNCHANGED <<files, record, proc, instVars, adrift>>

Stop(n) == HasRecord(n) /\ BeginCommand("stop", <<n>>)
StopAll == BeginCommand("stop", Recorded)
Remove(n) == HasRecord(n) /\ BeginCommand("remove", <<n>>)
Clean == BeginCommand("clean", Recorded)

ReadPid == cmd.read[Head(cmd.left)].pid
Done == IF Len(cmd.left) = 1 THEN NoCommand
        ELSE [cmd EXCEPT !.left = Tail(@), !.at = "check"]

\* stop and remove signal the process if there is one; clean passes it over.
CheckAlive ==
  /\ cmd.op # "none" /\ cmd.at = "check"
  /\ cmd' = CASE cmd.op = "clean" -> IF Alive(ReadPid) THEN Done ELSE [cmd EXCEPT !.at = "delete"]
              [] cmd.op # "clean" /\ Alive(ReadPid) -> [cmd EXCEPT !.at = "kill"]
              [] cmd.op = "stop" /\ ~Alive(ReadPid) -> Done
              [] cmd.op = "remove" /\ ~Alive(ReadPid) -> [cmd EXCEPT !.at = "delete"]
  /\ UNCHANGED <<files, record, proc, instVars, adrift, counts>>

\* After the signal it has three seconds, then whoever has the PID is killed.
KillOld ==
  /\ cmd.op # "none" /\ cmd.at = "kill"
  /\ IF Alive(ReadPid) THEN Kill(ReadPid) ELSE UNCHANGED proc
  /\ cmd' = IF cmd.op = "remove" THEN [cmd EXCEPT !.at = "delete"] ELSE Done
  /\ UNCHANGED <<files, record, instVars, adrift, counts>>

\* The record is deleted by its name, whatever it holds by now.
DeleteRecord ==
  /\ cmd.op # "none" /\ cmd.at = "delete"
  /\ LET n == Head(cmd.left) IN
       /\ record' = [record EXCEPT ![n] = NoRecord]
       /\ adrift' = adrift \cup (Clients \X {n}) /\ fresh' = fresh \ {n}
  /\ cmd' = Done
  /\ UNCHANGED <<files, proc, inst, work, used, counts>>

-------------------------------------------------------------------------------
Next ==
  \/ \E k \in Pids : Bind(k) \/ Exit(k) \/ \E p \in Ports \cup {NoPort} : OtherStarts(k, p)
  \/ \E c \in Clients : StartInstall(c) \/ \E n \in Names : Edit(c, n) \/ InstallOne(c, n)
  \/ WrapCommand \/ NewProxy \/ Respawn \/ StopOld \/ LeaveProxied \/ Skip \/ Spawn
  \/ SaveRecord \/ Interrupt \/ EndInstall
  \/ \E n \in Names : Stop(n) \/ Remove(n)
  \/ StopAll \/ Clean \/ CheckAlive \/ KillOld \/ DeleteRecord

Spec == Init /\ [][Next]_vars

-------------------------------------------------------------------------------
\* A client's entry that points at a local proxy, and the record of that name, are of one
\* port and one URL; the entry is adrift if its record was deleted (daemon.go:247-283), or
\* overwritten by an install for another client that has a server of the same name
\* (daemon.go:44-46, 155).  The claims below are about the other entries.
Vouched(c, n, entry) ==
  HasRecord(n) /\ record[n].port = entry.port /\ record[n].url = Original[c][n]

\* The URL of a server whose entry points at a local proxy is not lost
\* (install.go:149-160, 352-359): the backup holds it if the configuration had it at its
\* first edit, and else the record does.
UpstreamKept ==
  \A c \in Clients, n \in Names : config[c][n].kind = "local" =>
    IF <<c, n>> \in known THEN backup[c][n].kind = "url"
    ELSE <<c, n>> \in adrift \/ (HasRecord(n) /\ record[n].url = Original[c][n])

\* A client that follows its entry of a server never reaches the proxy of another server,
\* or of another URL of that name (install.go:174-181, daemon.go:207-218).
OwnProxy ==
  \A c \in Clients, n \in Names : config[c][n].kind = "local" /\ <<c, n>> \notin adrift =>
    \A k \in Pids : proc[k].kind = "proxy" /\ proc[k].up /\ proc[k].port = config[c][n].port =>
      proc[k].name = n /\ proc[k].url = Original[c][n]

\* When --wrap-all comes to its end, every server it has read is wrapped, or points at
\* the port that the record names for its URL; or it points at a local port it had
\* before and is adrift (install.go:149-160, 203-213).
Protected(n) ==
  \/ work[n].kind \in {"absent", "wrapped"}
  \/ /\ work[n].kind = "local"
     /\ Vouched(Client, n, work[n]) \/ (<<Client, n>> \in adrift /\ n \notin fresh)
InstallProtects == [][EndInstall => \A n \in Names : Protected(n)]_vars

\* "matching daemon record + process alive -> genuinely already proxied; skip"
\* (install.go:207-208): a proxy for its URL is there, where the entry points.
GenuinelyProxied ==
  [][LeaveProxied => \E k \in Pids : /\ proc[k].kind = "proxy" /\ proc[k].up
                                     /\ proc[k].port = work[Server].port
                                     /\ proc[k].url = Original[Client][Server]]_vars
================================================================================
