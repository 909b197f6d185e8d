---------------------------- MODULE Daemons_proofs -----------------------------
(***************************************************************************)
(* Proofs about Daemons, for any clients and servers, any number of ports, *)
(* PIDs and installs, wherever an install ends and whatever the user, the  *)
(* daemon commands and other processes do in between.                      *)
(***************************************************************************)
EXTENDS Daemons, TLAPS

USE OrderAssumption, OriginalAssumption, PidsAssumption

EntryType == [kind : {"absent", "stdio", "url", "untagged", "wrapped", "local"}, port : Nat]
UrlType == {"none", "stdio"} \cup Urls
RecordType == [pid : Nat, port : Nat, url : UrlType, current : BOOLEAN]
ProcType == [kind : {"none", "proxy", "other"}, name : Names, url : UrlType, port : Nat,
             up : BOOLEAN]
InstType == [client : Clients, at : {"idle", "server", "stop", "spawn", "save"}, i : Nat \ {0},
             port : Nat, url : UrlType, pid : Nat, anew : BOOLEAN, changed : BOOLEAN]
ConfigType == [Clients -> [Names -> EntryType]]
Starting == inst.at \in {"stop", "spawn", "save"}

TypeInv ==
  /\ config \in ConfigType /\ backup \in ConfigType
  /\ work \in [Names -> EntryType] /\ record \in [Names -> RecordType]
  /\ proc \in [Pids -> ProcType]
  /\ inst \in InstType
  /\ Starting => inst.i <= Len(Order)
  /\ inst.at = "save" => inst.pid # NoPid

\* What was a URL at the first edit of a configuration is one in its backup.
BackupInv ==
  \A c \in Clients, n \in Names : <<c, n>> \in known => c \in saved /\ backup[c][n].kind = "url"

\* An entry that is local agrees with the record of its name, unless it is adrift: in
\* the configurations, in the copy of the install, and with what it is about to record.
Fits(c, entry) == inst.port = entry.port /\ inst.url = Original[c][Server]
EntryInv ==
  /\ \A c \in Clients, n \in Names : config[c][n].kind = "local" =>
       <<c, n>> \in adrift \/ Vouched(c, n, config[c][n])
  /\ inst.at # "idle" => \A n \in Names :
       /\ work[n].kind = "local" =>
            (<<Client, n>> \in adrift /\ n \notin fresh) \/ Vouched(Client, n, work[n])
       /\ config[Client][n].kind = "local" => work[n].kind = "local"
  /\ Starting =>
       IF inst.anew
       THEN /\ inst.url = Original[Client][Server]
            /\ config[Client][Server].kind = "local" => <<Client, Server>> \in adrift
       ELSE /\ work[Server].kind = "local"
            /\ (<<Client, Server>> \in adrift /\ Server \notin fresh) \/ Fits(Client, work[Server])
            /\ \A c \in Clients : config[c][Server].kind = "local" =>
                 <<c, Server>> \in adrift \/ Fits(c, config[c][Server])

\* The servers that the install has come past.
PassedInv ==
  inst.at # "idle" => \A j \in 1..Len(Order) :
    j < inst.i => work[Order[j]].kind \in {"absent", "wrapped", "local"}

\* A port is of one server and one URL: of those in records, of proxies that have it or
\* are about to bind it, and of the one the install is starting.
PortInv ==
  /\ \A m, n \in Names : HasRecord(m) /\ HasRecord(n) /\ record[m].port = record[n].port => m = n
  /\ \A k \in Pids, n \in Names :
       proc[k].kind = "proxy" /\ HasRecord(n) /\ proc[k].port = record[n].port =>
         proc[k].name = n /\ proc[k].url = record[n].url
  /\ inst.at # "idle" => /\ \A n \in Names : HasRecord(n) => record[n].port \in used
                         /\ \A k \in Pids : proc[k].kind = "proxy" /\ ~proc[k].up =>
                                              proc[k].port \in used
  /\ Starting => /\ inst.port \in used
                 /\ \A k \in Pids : proc[k].kind = "proxy" /\ proc[k].port = inst.port =>
                                      proc[k].name = Server /\ proc[k].url = inst.url
                 /\ \A n \in Names : HasRecord(n) /\ record[n].port = inst.port =>
                                      n = Server /\ record[n].url = inst.url

DaemonInv == TypeInv /\ BackupInv /\ EntryInv /\ PassedInv /\ PortInv

-------------------------------------------------------------------------------
LEMMA ServerIsName == inst.i \in Nat \ {0} /\ inst.i <= Len(Order) => Server \in Names
  BY DEF Server, Names

LEMMA FirstIsName == Order[1] \in Names
  BY DEF Names

\* What replacing one entry of one client does to the configurations.
LEMMA EntryPut ==
  ASSUME TypeInv, NEW c \in Clients, NEW n \in Names, NEW e \in EntryType,
         config' = [config EXCEPT ![c][n] = e]
  PROVE  /\ config' \in ConfigType /\ config'[c][n] = e
         /\ \A d \in Clients, m \in Names : d # c \/ m # n => config'[d][m] = config[d][m]
<1>1. config \in [Clients -> [Names -> EntryType]]
  BY DEF TypeInv, ConfigType
<1>2. config' = [config EXCEPT ![c] = [config[c] EXCEPT ![n] = e]]
  OBVIOUS
<1>3. [config[c] EXCEPT ![n] = e] \in [Names -> EntryType]
  BY <1>1
<1>4. config' \in ConfigType
  BY <1>1, <1>2, <1>3 DEF ConfigType
<1> QED
  BY <1>1, <1>2, <1>4

LEMMA PidOfName ==
  ASSUME NEW n \in Names
  PROVE  PidOf(n) \in Pids /\ Order[PidOf(n)] = n
<1>1. PICK i \in DOMAIN Order : Order[i] = n
  BY DEF Names
<1>2. \E k \in Pids : \E j \in DOMAIN Order : Order[j] = n /\ k = j
  BY <1>1
<1> QED
  BY <1>2 DEF PidOf

\* Whoever ends leaves no process behind.
LEMMA KillTypes == ASSUME TypeInv, NEW k, Kill(k) PROVE proc' \in [Pids -> ProcType]
<1>1. NoProc \in ProcType
  BY FirstIsName DEF NoProc, ProcType, NoPort, NoUrl, UrlType
<1> QED
  BY <1>1 DEF TypeInv, Kill

\* The install comes to the next server, or to rest.
LEMMA OnwardTypes ==
  ASSUME TypeInv, NEW changed \in BOOLEAN
  PROVE  /\ Onward(changed) \in InstType /\ Onward(changed).at = "server"
         /\ Onward(changed).i = inst.i + 1 /\ Onward(changed).client = Client
<1>1. inst.i + 1 \in Nat \ {0} /\ (inst.changed \/ changed) \in BOOLEAN
  BY DEF TypeInv, InstType
<1> QED
  BY <1>1 DEF TypeInv, InstType, Onward, Client

LEMMA RestingTypes == Resting \in InstType /\ Resting.at = "idle"
<1>1. (CHOOSE c \in Clients : TRUE) \in Clients
  OBVIOUS
<1> QED
  BY <1>1 DEF Resting, InstType, NoPort, NoPid, NoUrl, UrlType

\* Each name is a URL, a command, or nothing to a client.
LEMMA UrlTypes == \A c \in Clients, n \in Names : Original[c][n] \in UrlType
  BY DEF UrlType

\* The first edit keeps what there was.
LEMMA BackedTypes == ASSUME TypeInv, NEW c \in Clients, Backed(c) PROVE backup' \in ConfigType
  BY DEF TypeInv, Backed, ConfigType

LEMMA TypeStep == DaemonInv /\ [Next]_vars => TypeInv'
<1> SUFFICES ASSUME TypeInv, [Next]_vars, DaemonInv PROVE TypeInv'
  BY DEF DaemonInv
<1> USE DEF TypeInv, instVars, files
<1>1. ASSUME NEW k \in Pids, Bind(k) PROVE TypeInv'
  <2>1. proc' \in [Pids -> ProcType]
    <3>1. proc[k] \in ProcType /\ proc[k].kind = "proxy"
      BY <1>1 DEF Bind
    <3>2. [proc[k] EXCEPT !.up = TRUE] \in ProcType
      BY <3>1 DEF ProcType
    <3>3. Kill(k) \/ proc' = [proc EXCEPT ![k] = [proc[k] EXCEPT !.up = TRUE]]
      BY <1>1 DEF Bind
    <3> QED
      BY <3>2, <3>3, KillTypes
  <2> QED
    BY <1>1, <2>1 DEF Bind, Starting
<1>2. ASSUME NEW k \in Pids, Exit(k) PROVE TypeInv'
  BY <1>2, KillTypes DEF Exit, Starting
<1>3. ASSUME NEW k \in Pids, NEW p \in Ports \cup {NoPort}, OtherStarts(k, p) PROVE TypeInv'
  <2>1. proc' \in [Pids -> ProcType]
    <3>1. p \in Nat /\ NoProc \in ProcType
      BY FirstIsName DEF Ports, NoPort, NoProc, ProcType, NoUrl, UrlType
    <3>2. [NoProc EXCEPT !.kind = "other", !.port = p, !.up = p # NoPort] \in ProcType
      BY <3>1 DEF ProcType
    <3> QED
      BY <1>3, <3>2 DEF OtherStarts
  <2> QED
    BY <1>3, <2>1 DEF OtherStarts, Starting
<1>4. ASSUME NEW c \in Clients, NEW n \in Names, Edit(c, n) PROVE TypeInv'
  <2>1. Own(c, n) \in EntryType
    BY DEF Own, EntryType, Entry, NoPort
  <2>2. config' \in ConfigType
    BY <1>4, <2>1, EntryPut DEF Edit
  <2> QED
    BY <1>4, <2>2 DEF Edit, Starting
<1>5. ASSUME NEW c \in Clients, NEW n \in Names, InstallOne(c, n) PROVE TypeInv'
  <2>1. Entry("wrapped", NoPort) \in EntryType
    BY DEF EntryType, Entry, NoPort
  <2>2. config' \in ConfigType
    BY <1>5, <2>1, EntryPut DEF InstallOne
  <2> QED
    BY <1>5, <2>2, BackedTypes DEF InstallOne, Starting
<1>6. ASSUME NEW c \in Clients, StartInstall(c) PROVE TypeInv'
  <2>1. CASE UNCHANGED instVars
    BY <1>6, <2>1, BackedTypes DEF StartInstall, Starting
  <2>2. CASE work' = config[c] /\ inst' = [Resting EXCEPT !.client = c, !.at = "server"]
    <3>1. inst' \in InstType /\ inst'.at = "server"
      BY <2>2, RestingTypes DEF InstType
    <3>2. work' \in [Names -> EntryType]
      BY <2>2 DEF ConfigType
    <3> QED
      BY <1>6, <3>1, <3>2, BackedTypes DEF StartInstall, Starting
  <2> QED
    BY <1>6, <2>1, <2>2 DEF StartInstall
<1>7. CASE WrapCommand
  <2>1. work' \in [Names -> EntryType]
    BY <1>7 DEF WrapCommand, EntryType, Entry, NoPort
  <2> QED
    BY <1>7, <2>1, OnwardTypes DEF WrapCommand, Starting
<1>8. CASE NewProxy
  <2>1. CASE inst' = Resting
    BY <1>8, <2>1, RestingTypes DEF NewProxy, Starting
  <2>2. ASSUME NEW p \in FreePorts,
               inst' = [inst EXCEPT !.at = "spawn", !.port = p,
                                    !.url = Original[Client][Server], !.anew = TRUE]
        PROVE  TypeInv'
    <3>1. p \in Nat
      BY DEF FreePorts, Ports
    <3>2. Original[Client][Server] \in UrlType
      BY <1>8, UrlTypes, ServerIsName DEF NewProxy, InLoop, InstType, Client
    <3> QED
      BY <1>8, <2>2, <3>1, <3>2 DEF NewProxy, InLoop, Starting, InstType
  <2> QED
    BY <1>8, <2>1, <2>2 DEF NewProxy, PickPort
<1>9. CASE Respawn
  <2>1. Server \in Names
    BY <1>9, ServerIsName DEF Respawn, InLoop, InstType
  <2>2. record[Server] \in RecordType
    BY <2>1
  <2>3. /\ record[Server].port \in Nat /\ record[Server].pid \in Nat
        /\ record[Server].url \in UrlType
    BY <2>2 DEF RecordType
  <2> QED
    BY <1>9, <2>3 DEF Respawn, PortAgain, InLoop, Starting, InstType
<1>10. CASE StopOld
  BY <1>10, KillTypes DEF StopOld, Starting, InstType
<1>11. CASE Skip \/ LeaveProxied
  BY <1>11, OnwardTypes DEF Skip, LeaveProxied, Starting
<1>12. CASE Spawn
  <2>1. Server \in Names
    BY <1>12, ServerIsName DEF Spawn, Starting, InstType
  <2>2. PICK k \in Pids : /\ proc' = [proc EXCEPT ![k] = Proxy(Server, inst.url, inst.port)]
                          /\ inst' = [inst EXCEPT !.at = "save", !.pid = k]
    BY <1>12 DEF Spawn
  <2>3. proc' \in [Pids -> ProcType]
    BY <2>1, <2>2 DEF Proxy, ProcType, InstType
  <2>4. k \in Nat /\ k # NoPid
    OBVIOUS
  <2> QED
    BY <1>12, <2>2, <2>3, <2>4 DEF Spawn, Starting, InstType
<1>13. CASE SaveRecord
  <2>1. Server \in Names
    BY <1>13, ServerIsName DEF SaveRecord, Starting, InstType
  <2>2. record' \in [Names -> RecordType]
    BY <1>13 DEF SaveRecord, RecordType, InstType
  <2>3. work' \in [Names -> EntryType]
    <3>1. Entry("local", inst.port) \in EntryType
      BY DEF EntryType, Entry, InstType
    <3> QED
      BY <1>13, <3>1 DEF SaveRecord
  <2>4. inst' \in InstType /\ inst'.at = "server"
    <3>1. inst' = [Onward(TRUE) EXCEPT !.port = NoPort, !.url = NoUrl, !.pid = NoPid, !.anew = FALSE]
      BY <1>13 DEF SaveRecord
    <3>2. Onward(TRUE) \in InstType /\ Onward(TRUE).at = "server"
      BY OnwardTypes
    <3> QED
      BY <3>1, <3>2 DEF InstType, NoPort, NoPid, NoUrl, UrlType
  <2> QED
    BY <1>13, <2>2, <2>3, <2>4 DEF SaveRecord, Starting
<1>14. CASE Interrupt
  BY <1>14, RestingTypes DEF Interrupt, Starting
<1>15. CASE EndInstall
  <2>1. config' \in ConfigType
    BY <1>15 DEF EndInstall, ConfigType, InstType, Client
  <2> QED
    BY <1>15, <2>1, RestingTypes DEF EndInstall, Starting
<1>16. CASE KillOld
  BY <1>16, KillTypes DEF KillOld, Starting
<1>17. CASE DeleteRecord
  <2>1. record' \in [Names -> RecordType]
    BY <1>17 DEF DeleteRecord, NoRecord, NoPid, NoPort, NoUrl, UrlType, RecordType
  <2> QED
    BY <1>17, <2>1 DEF DeleteRecord, Starting
<1>18. CASE UNCHANGED <<config, backup, work, record, proc, inst>>
  BY <1>18 DEF Starting
<1>19. \/ \E n \in Names : Stop(n) \/ Remove(n)
       \/ StopAll \/ Clean \/ CheckAlive \/ UNCHANGED vars
       => UNCHANGED <<config, backup, work, record, proc, inst>>
  BY DEF Stop, Remove, StopAll, Clean, BeginCommand, CheckAlive, vars
<1> QED
  BY <1>1, <1>2, <1>3, <1>4, <1>5, <1>6, <1>7, <1>8, <1>9, <1>10, <1>11, <1>12, <1>13, <1>14,
     <1>15, <1>16, <1>17, <1>18, <1>19 DEF Next

-------------------------------------------------------------------------------
\* The backup is written once for each client.
LEMMA BackupKept == ASSUME TypeInv, BackupInv, NEW c \in Clients, Backed(c) PROVE BackupInv'
<1>1. CASE UNCHANGED <<backup, saved, known>>
  BY <1>1 DEF BackupInv
<1>2. CASE ~UNCHANGED <<backup, saved, known>>
  <2>1. /\ c \notin saved /\ backup' = [backup EXCEPT ![c] = config[c]]
        /\ saved' = saved \cup {c}
        /\ known' = known \cup ({c} \X {n \in Names : config[c][n].kind = "url"})
    BY <1>2 DEF Backed, FirstRun
  <2> SUFFICES ASSUME NEW d \in Clients, NEW n \in Names, <<d, n>> \in known'
               PROVE  d \in saved' /\ backup'[d][n].kind = "url"
    BY DEF BackupInv
  <2>2. CASE d = c
    <3>1. <<d, n>> \notin known
      BY <2>1, <2>2 DEF BackupInv
    <3>2. config[c][n].kind = "url"
      BY <2>1, <3>1
    <3> QED
      BY <2>1, <2>2, <3>2 DEF TypeInv, ConfigType
  <2>3. CASE d # c
    <3>1. <<d, n>> \in known
      BY <2>1, <2>3
    <3> QED
      BY <2>1, <2>3, <3>1 DEF BackupInv, TypeInv, ConfigType
  <2> QED
    BY <2>2, <2>3
<1> QED
  BY <1>1, <1>2

LEMMA BackupStep == DaemonInv /\ [Next]_vars => BackupInv'
<1> SUFFICES ASSUME TypeInv, BackupInv, [Next]_vars PROVE BackupInv'
  BY DEF DaemonInv
<1>1. CASE UNCHANGED <<backup, saved, known>>
  BY <1>1 DEF BackupInv
<1>2. ASSUME NEW c \in Clients, Backed(c) PROVE BackupInv'
  BY <1>2, BackupKept
<1> QED
  BY <1>1, <1>2 DEF Next, files, instVars, vars, Bind, Exit, OtherStarts, Edit, InstallOne, Stop,
     Remove, StopAll, Clean, BeginCommand, CheckAlive, KillOld, DeleteRecord, StartInstall,
     WrapCommand, NewProxy, Respawn, StopOld, LeaveProxied, Skip, Spawn, SaveRecord, Interrupt,
     EndInstall

-------------------------------------------------------------------------------
\* EntryInv reads nothing of an install that is over, and of one between two servers not what it
\* was about to start.
LEMMA EntryStep == DaemonInv /\ [Next]_vars => EntryInv'
<1> SUFFICES ASSUME TypeInv, EntryInv, [Next]_vars PROVE EntryInv'
  BY DEF DaemonInv
<1> USE DEF instVars, files, Vouched, HasRecord, Fits, Client
<1>1. ASSUME NEW c \in Clients, NEW n \in Names, NEW e \in EntryType, e.kind # "local",
             config' = [config EXCEPT ![c][n] = e], UNCHANGED <<record, inst, work, adrift, fresh>>
      PROVE  EntryInv'
  <2>1. \A d \in Clients, m \in Names : config'[d][m].kind = "local" => config'[d][m] = config[d][m]
    BY <1>1, EntryPut
  <2>2. Starting' = Starting /\ Server' = Server
    BY <1>1 DEF Starting, Server
  <2>3. Client \in Clients
    BY DEF TypeInv, InstType
  <2>4. Starting => Server \in Names
    BY ServerIsName DEF TypeInv, InstType
  <2> QED
    BY <1>1, <2>1, <2>2, <2>3, <2>4 DEF EntryInv
<1>2. ASSUME NEW c \in Clients, NEW n \in Names, Edit(c, n) PROVE EntryInv'
  <2>1. Own(c, n) \in EntryType /\ Own(c, n).kind # "local"
    BY DEF Own, EntryType, Entry, NoPort
  <2> QED
    BY <1>1, <1>2, <2>1 DEF Edit
<1>3. ASSUME NEW c \in Clients, NEW n \in Names, InstallOne(c, n) PROVE EntryInv'
  <2>1. Entry("wrapped", NoPort) \in EntryType /\ Entry("wrapped", NoPort).kind # "local"
    BY DEF EntryType, Entry, NoPort
  <2> QED
    BY <1>1, <1>3, <2>1 DEF InstallOne
<1>4. ASSUME NEW c \in Clients, StartInstall(c) PROVE EntryInv'
  <2>1. CASE UNCHANGED instVars
    BY <1>4, <2>1 DEF StartInstall, EntryInv, Starting, Server
  <2>2. CASE work' = config[c] /\ fresh' = {} /\ inst' = [Resting EXCEPT !.client = c, !.at = "server"]
    <3>1. inst'.at = "server" /\ inst'.client = c /\ UNCHANGED <<config, record, adrift>>
      BY <1>4, <2>2 DEF StartInstall, Resting
    <3> QED
      BY <2>2, <3>1 DEF EntryInv, Starting
  <2> QED
    BY <1>4, <2>1, <2>2 DEF StartInstall
<1>5. CASE WrapCommand
  <2>1. Server \in Names
    BY <1>5, ServerIsName DEF WrapCommand, InLoop, TypeInv, InstType
  <2>2. /\ inst'.at = "server" /\ inst.at # "idle" /\ inst'.client = inst.client
        /\ UNCHANGED <<config, record, adrift, fresh>>
    BY <1>5, OnwardTypes DEF WrapCommand, InLoop
  <2>3. work[Server].kind # "local" /\ \A m \in Names : m # Server => work'[m] = work[m]
    BY <1>5, <2>1 DEF WrapCommand, TypeInv
  <2>4. work'[Server].kind = "wrapped"
    BY <1>5, <2>1 DEF WrapCommand, TypeInv, Entry
  <2> QED
    BY <2>2, <2>3, <2>4 DEF EntryInv, Starting
<1>6. CASE NewProxy
  <2>1. Server \in Names /\ Client \in Clients
    BY <1>6, ServerIsName DEF NewProxy, InLoop, TypeInv, InstType
  <2>2. UNCHANGED <<config, work, record, adrift, fresh>> /\ inst.at # "idle"
    BY <1>6 DEF NewProxy, InLoop
  <2>3. \/ inst'.at = "idle"
        \/ /\ inst'.anew /\ Server' = Server /\ inst'.client = inst.client
           /\ inst'.url = Original[Client][Server]
    <3>1. CASE FreePorts = {}
      BY <1>6, <3>1, RestingTypes DEF NewProxy, PickPort
    <3>2. CASE FreePorts # {}
      <4>1. \E p \in FreePorts :
              inst' = [inst EXCEPT !.at = "spawn", !.port = p, !.url = Original[Client][Server],
                                   !.anew = TRUE]
        BY <1>6, <3>2 DEF NewProxy, PickPort
      <4> QED
        BY <4>1 DEF Server, TypeInv, InstType
    <3> QED
      BY <3>1, <3>2
  <2>4. config[Client][Server].kind = "local" => <<Client, Server>> \in adrift
    BY <1>6, <2>1, <2>2 DEF NewProxy, EntryInv, Recoverable
  <2> QED
    BY <2>1, <2>2, <2>3, <2>4 DEF EntryInv, Starting
<1>7. CASE Respawn
  <2>1. /\ Server \in Names /\ Client \in Clients
        /\ HasRecord(Server) /\ work[Server].kind = "local"
    BY <1>7, ServerIsName DEF Respawn, InLoop, TypeInv, InstType
  <2>2. UNCHANGED <<config, work, record, adrift, fresh>> /\ inst.at # "idle"
    BY <1>7 DEF Respawn, InLoop
  <2>3. /\ ~inst'.anew /\ Server' = Server /\ inst'.client = inst.client
        /\ inst'.port = record[Server].port /\ inst'.url = record[Server].url
    BY <1>7 DEF Respawn, PortAgain, Server, TypeInv, InstType
  <2>4. (<<Client, Server>> \in adrift /\ Server \notin fresh) \/ Fits(Client, work[Server])'
    BY <2>1, <2>2, <2>3 DEF EntryInv
  <2>5. \A c \in Clients : config[c][Server].kind = "local" =>
          <<c, Server>> \in adrift \/ Fits(c, config[c][Server])'
    BY <2>1, <2>2, <2>3 DEF EntryInv
  <2> QED
    BY <2>1, <2>2, <2>3, <2>4, <2>5 DEF EntryInv
<1>8. CASE StopOld \/ Spawn
  <2>1. /\ Server' = Server /\ inst'.port = inst.port /\ inst'.anew = inst.anew
        /\ inst'.client = inst.client /\ inst'.url = inst.url
        /\ inst.at # "idle" /\ Starting
    BY <1>8 DEF StopOld, Spawn, Server, TypeInv, InstType, Starting
  <2>2. UNCHANGED <<config, work, record, adrift, fresh>>
    BY <1>8 DEF StopOld, Spawn
  <2> QED
    BY <2>1, <2>2 DEF EntryInv
<1>9. CASE Skip \/ LeaveProxied
  <2>1. /\ inst'.at = "server" /\ inst.at # "idle" /\ inst'.client = inst.client
        /\ UNCHANGED <<config, work, record, adrift, fresh>>
    BY <1>9, OnwardTypes DEF Skip, LeaveProxied, InLoop
  <2> QED
    BY <2>1 DEF EntryInv, Starting
<1>10. CASE SaveRecord
  <2>1. /\ Server \in Names /\ Client \in Clients /\ inst.at # "idle" /\ Starting
        /\ inst.pid # NoPid
    BY <1>10, ServerIsName DEF SaveRecord, Starting, TypeInv, InstType
  <2>2. inst'.at = "server" /\ inst'.client = inst.client
    <3>1. /\ Onward(TRUE) \in InstType /\ Onward(TRUE).at = "server"
          /\ Onward(TRUE).client = inst.client
      BY OnwardTypes
    <3> QED
      BY <1>10, <3>1 DEF SaveRecord, InstType
  <2>3. /\ \A m \in Names : m # Server => record'[m] = record[m]
        /\ record'[Server].pid # NoPid /\ record'[Server].port = inst.port
        /\ record'[Server].url = inst.url
    BY <1>10, <2>1 DEF SaveRecord, TypeInv
  <2>4. UNCHANGED config
    BY <1>10 DEF SaveRecord
  <2>5. CASE inst.anew
    <3>1. /\ \A m \in Names : m # Server => work'[m] = work[m]
          /\ work'[Server].kind = "local" /\ work'[Server].port = inst.port
          /\ fresh' = fresh \cup {Server}
          /\ adrift' = adrift \cup ((Clients \ {Client}) \X {Server})
      BY <1>10, <2>1, <2>5 DEF SaveRecord, TypeInv, Entry
    <3>2. \A c \in Clients : config[c][Server].kind = "local" => <<c, Server>> \in adrift'
      BY <2>1, <2>5, <3>1 DEF EntryInv
    <3>3. \A c \in Clients, n \in Names : <<c, n>> \in adrift => <<c, n>> \in adrift'
      BY <3>1
    <3>4. inst.url = Original[Client][Server]
      BY <2>1, <2>5 DEF EntryInv
    <3>5. \A c \in Clients, n \in Names : config'[c][n].kind = "local" =>
            <<c, n>> \in adrift' \/ Vouched(c, n, config[c][n])'
      BY <2>3, <2>4, <3>2, <3>3 DEF EntryInv, Vouched, HasRecord
    <3>6. \A n \in Names : work'[n].kind = "local" =>
            (<<Client, n>> \in adrift' /\ n \notin fresh') \/ Vouched(Client, n, work[n])'
      <4> SUFFICES ASSUME NEW n \in Names, work'[n].kind = "local"
                   PROVE  (<<Client, n>> \in adrift' /\ n \notin fresh')
                            \/ (HasRecord(n)' /\ record'[n].port = work'[n].port
                                  /\ record'[n].url = Original[Client][n])
        BY <2>2 DEF Vouched
      <4>1. CASE n = Server
        BY <2>3, <3>1, <3>4, <4>1 DEF HasRecord
      <4>2. CASE n # Server
        BY <2>1, <2>3, <3>1, <3>3, <4>2 DEF EntryInv, Vouched, HasRecord
      <4> QED
        BY <4>1, <4>2
    <3>7. \A n \in Names : config'[Client'][n].kind = "local" => work'[n].kind = "local"
      <4>1. \A n \in Names : config[Client][n].kind = "local" => work[n].kind = "local"
        BY <2>1 DEF EntryInv
      <4>2. \A n \in Names : work[n].kind = "local" => work'[n].kind = "local"
        BY <3>1
      <4> QED
        BY <2>2, <2>4, <4>1, <4>2
    <3> QED
      BY <2>2, <3>5, <3>6, <3>7 DEF EntryInv, Starting
  <2>6. CASE ~inst.anew
    <3>1. UNCHANGED <<work, fresh, adrift>>
      BY <1>10, <2>6 DEF SaveRecord
    <3>2. /\ (<<Client, Server>> \in adrift /\ Server \notin fresh) \/ Fits(Client, work[Server])
          /\ work[Server].kind = "local"
          /\ \A c \in Clients : config[c][Server].kind = "local" =>
               <<c, Server>> \in adrift \/ Fits(c, config[c][Server])
      BY <2>1, <2>6 DEF EntryInv
    <3>3. \A c \in Clients, n \in Names : config'[c][n].kind = "local" =>
            <<c, n>> \in adrift' \/ Vouched(c, n, config[c][n])'
      BY <2>1, <2>3, <2>4, <3>1, <3>2 DEF EntryInv
    <3>4. \A n \in Names : work'[n].kind = "local" =>
            (<<Client, n>> \in adrift' /\ n \notin fresh') \/ Vouched(Client, n, work[n])'
      BY <2>1, <2>2, <2>3, <3>1, <3>2 DEF EntryInv
    <3> QED
      BY <2>1, <2>2, <2>4, <3>1, <3>3, <3>4 DEF EntryInv, Starting
  <2> QED
    BY <2>5, <2>6
<1>11. CASE Interrupt
  <2>1. inst'.at = "idle" /\ UNCHANGED <<config, record, adrift>>
    BY <1>11, RestingTypes DEF Interrupt
  <2> QED
    BY <2>1 DEF EntryInv, Starting
<1>12. CASE EndInstall
  <2>1. inst'.at = "idle" /\ inst.at # "idle" /\ UNCHANGED record
    BY <1>12, RestingTypes DEF EndInstall
  <2>2. CASE config' = [config EXCEPT ![Client] = work] /\ adrift' = adrift \ ({Client} \X fresh)
    <3>1. /\ \A n \in Names : config'[Client][n] = work[n]
          /\ \A c \in Clients : c # Client => config'[c] = config[c]
      BY <2>2 DEF TypeInv, ConfigType, InstType
    <3>2. /\ \A n \in Names : <<Client, n>> \in adrift /\ n \notin fresh => <<Client, n>> \in adrift'
          /\ \A c \in Clients, n \in Names : c # Client /\ <<c, n>> \in adrift => <<c, n>> \in adrift'
      BY <2>2
    <3> QED
      BY <2>1, <3>1, <3>2 DEF EntryInv, Starting
  <2>3. CASE UNCHANGED <<config, adrift>>
    BY <2>1, <2>3 DEF EntryInv, Starting
  <2> QED
    BY <1>12, <2>2, <2>3 DEF EndInstall
<1>13. CASE DeleteRecord
  <2> DEFINE n == Head(cmd.left)
  <2>1. /\ record' = [record EXCEPT ![n] = NoRecord]
        /\ adrift' = adrift \cup (Clients \X {n}) /\ fresh' = fresh \ {n}
    BY <1>13 DEF DeleteRecord
  <2>2. UNCHANGED <<config, inst, work>>
    BY <1>13 DEF DeleteRecord
  <2> HIDE DEF n
  <2>3. \A m \in Names : m # n => record'[m] = record[m]
    BY <2>1 DEF TypeInv
  <2>4. \A c \in Clients : <<c, n>> \in adrift' /\ n \notin fresh'
    BY <2>1
  <2>5. \A c \in Clients, m \in Names : /\ <<c, m>> \in adrift => <<c, m>> \in adrift'
                                        /\ m \notin fresh => m \notin fresh'
    BY <2>1
  <2>6. Server' = Server /\ Starting' = Starting
    BY <2>2 DEF Server, Starting
  <2>7. Client \in Clients /\ (Starting => Server \in Names)
    BY ServerIsName DEF TypeInv, InstType
  <2>8. \A c \in Clients, m \in Names : config'[c][m].kind = "local" =>
          <<c, m>> \in adrift' \/ Vouched(c, m, config[c][m])'
    BY <2>2, <2>3, <2>4, <2>5 DEF EntryInv
  <2>9. inst.at # "idle" => \A m \in Names : work[m].kind = "local" =>
          (<<Client, m>> \in adrift' /\ m \notin fresh') \/ Vouched(Client, m, work[m])'
    BY <2>2, <2>3, <2>4, <2>5, <2>7 DEF EntryInv
  <2> QED
    BY <2>2, <2>5, <2>6, <2>7, <2>8, <2>9 DEF EntryInv
<1>14. CASE UNCHANGED <<config, record, inst, work, adrift, fresh>>
  BY <1>14 DEF EntryInv, Starting, Server
<1>15. \/ \E k \in Pids : Bind(k) \/ Exit(k) \/ \E p \in Ports \cup {NoPort} : OtherStarts(k, p)
       \/ \E n \in Names : Stop(n) \/ Remove(n)
       \/ StopAll \/ Clean \/ CheckAlive \/ KillOld \/ UNCHANGED vars
       => UNCHANGED <<config, record, inst, work, adrift, fresh>>
  BY DEF Bind, Exit, OtherStarts, Stop, Remove, StopAll, Clean, BeginCommand, CheckAlive,
         KillOld, vars
<1> QED
  BY <1>2, <1>3, <1>4, <1>5, <1>6, <1>7, <1>8, <1>9, <1>10, <1>11, <1>12, <1>13, <1>14, <1>15
     DEF Next

-------------------------------------------------------------------------------
LEMMA PassedStep == DaemonInv /\ [Next]_vars => PassedInv'
<1> SUFFICES ASSUME TypeInv, EntryInv, PassedInv, [Next]_vars PROVE PassedInv'
  BY DEF DaemonInv
<1> USE DEF instVars, files
<1> DEFINE Passed(entry) == entry.kind \in {"absent", "wrapped", "local"}
<1>1. \A j \in 1..Len(Order) : Order[j] \in Names
  BY DEF Names
\* The install goes on when the entry of the server it leaves behind is passed.
<1>2. ASSUME inst.at # "idle", inst'.i = inst.i + 1, Passed(work'[Server]),
             \A m \in Names : Passed(work[m]) => Passed(work'[m])
      PROVE  PassedInv'
  <2> SUFFICES ASSUME NEW j \in 1..Len(Order), j < inst'.i PROVE Passed(work'[Order[j]])
    BY DEF PassedInv
  <2>1. j < inst.i \/ j = inst.i
    BY <1>2 DEF TypeInv, InstType
  <2>2. CASE j = inst.i
    BY <2>2, <1>2 DEF Server
  <2>3. CASE j < inst.i
    BY <2>3, <1>1, <1>2 DEF PassedInv
  <2> QED
    BY <2>1, <2>2, <2>3
<1>3. ASSUME inst'.at = "idle" PROVE PassedInv'
  BY <1>3 DEF PassedInv
<1>4. ASSUME inst.at # "idle", inst'.i = inst.i, UNCHANGED work PROVE PassedInv'
  BY <1>4 DEF PassedInv
<1>5. ASSUME NEW c \in Clients, StartInstall(c) PROVE PassedInv'
  <2>1. CASE UNCHANGED instVars
    BY <2>1 DEF PassedInv
  <2>2. CASE inst' = [Resting EXCEPT !.client = c, !.at = "server"]
    <3>1. inst'.i = 1
      BY <2>2 DEF Resting
    <3> QED
      BY <3>1 DEF PassedInv
  <2> QED
    BY <1>5, <2>1, <2>2 DEF StartInstall
<1>6. CASE WrapCommand
  <2>1. Server \in Names /\ inst.at # "idle" /\ inst'.i = inst.i + 1
    BY <1>6, ServerIsName, OnwardTypes DEF WrapCommand, InLoop, TypeInv, InstType
  <2>2. work' = [work EXCEPT ![Server] = Entry("wrapped", NoPort)]
    BY <1>6 DEF WrapCommand
  <2>3. Passed(work'[Server]) /\ \A m \in Names : m # Server => work'[m] = work[m]
    BY <2>1, <2>2 DEF Entry, TypeInv
  <2> QED
    BY <2>1, <2>3, <1>2
<1>7. CASE NewProxy
  <2>1. inst.at # "idle" /\ UNCHANGED work /\ (inst'.at = "idle" \/ inst'.i = inst.i)
    BY <1>7, RestingTypes DEF NewProxy, PickPort, InLoop, TypeInv, InstType
  <2> QED
    BY <2>1, <1>3, <1>4
<1>8. CASE Respawn \/ StopOld \/ Spawn
  <2>1. inst.at # "idle" /\ UNCHANGED work /\ inst'.i = inst.i
    BY <1>8 DEF Respawn, StopOld, Spawn, InLoop, TypeInv, InstType
  <2> QED
    BY <2>1, <1>4
<1>9. CASE Skip \/ LeaveProxied
  <2>1. /\ inst.at # "idle" /\ inst'.i = inst.i + 1 /\ UNCHANGED work
        /\ Passed(work[Server])
    BY <1>9, OnwardTypes DEF Skip, LeaveProxied, InLoop
  <2> QED
    BY <2>1, <1>2
<1>10. CASE SaveRecord
  <2>1. Server \in Names /\ inst.at # "idle" /\ Starting
    BY <1>10, ServerIsName DEF SaveRecord, Starting, TypeInv, InstType
  <2>2. inst'.i = inst.i + 1
    <3>1. Onward(TRUE) \in InstType /\ Onward(TRUE).i = inst.i + 1
      BY OnwardTypes
    <3> QED
      BY <1>10, <3>1 DEF SaveRecord, InstType
  <2>3. Passed(work'[Server]) /\ \A m \in Names : Passed(work[m]) => Passed(work'[m])
    <3>1. CASE inst.anew
      <4>1. work' = [work EXCEPT ![Server] = Entry("local", inst.port)]
        BY <1>10, <3>1 DEF SaveRecord
      <4> QED
        BY <2>1, <4>1 DEF Entry, TypeInv
    <3>2. CASE ~inst.anew
      <4>1. UNCHANGED work
        BY <1>10, <3>2 DEF SaveRecord
      <4> QED
        BY <2>1, <3>2, <4>1 DEF EntryInv
    <3> QED
      BY <3>1, <3>2
  <2> QED
    BY <2>1, <2>2, <2>3, <1>2
<1>11. CASE Interrupt \/ EndInstall
  BY <1>11, <1>3, RestingTypes DEF Interrupt, EndInstall
<1>12. CASE UNCHANGED <<work, inst>>
  BY <1>12 DEF PassedInv
<1>13. \/ \E k \in Pids : Bind(k) \/ Exit(k) \/ \E p \in Ports \cup {NoPort} : OtherStarts(k, p)
       \/ \E n \in Names : Stop(n) \/ Remove(n) \/ \E c \in Clients : Edit(c, n) \/ InstallOne(c, n)
       \/ StopAll \/ Clean \/ CheckAlive \/ KillOld \/ DeleteRecord \/ UNCHANGED vars
       => UNCHANGED <<work, inst>>
  BY DEF Bind, Exit, OtherStarts, Edit, InstallOne, Stop, Remove, StopAll, Clean, BeginCommand, CheckAlive,
         KillOld, DeleteRecord, vars
<1> QED
  BY <1>5, <1>6, <1>7, <1>8, <1>9, <1>10, <1>11, <1>12, <1>13 DEF Next

-------------------------------------------------------------------------------
\* Fewer processes and fewer records keep ports apart.
LEMMA FewerPorts ==
  ASSUME TypeInv, PortInv,
         \A k \in Pids : proc'[k] = proc[k] \/ proc'[k].kind # "proxy"
                         \/ proc'[k] = [proc[k] EXCEPT !.up = TRUE],
         \A n \in Names : HasRecord(n)' => HasRecord(n) /\ record'[n] = record[n],
         \/ inst'.at = "idle"
         \/ inst.at # "idle" /\ used' = used
            /\ (Starting' => Starting /\ Server' = Server /\ inst'.port = inst.port
                             /\ inst'.url = inst.url)
  PROVE  PortInv'
<1>1. \A k \in Pids : proc'[k].kind = "proxy" =>
        /\ proc[k].kind = "proxy" /\ proc'[k].port = proc[k].port /\ proc'[k].name = proc[k].name
        /\ proc'[k].url = proc[k].url
        /\ ~proc'[k].up => ~proc[k].up
  <2> SUFFICES ASSUME NEW k \in Pids, proc'[k].kind = "proxy"
               PROVE  /\ proc[k].kind = "proxy" /\ proc'[k].port = proc[k].port
                      /\ proc'[k].name = proc[k].name /\ proc'[k].url = proc[k].url
                      /\ (~proc'[k].up => ~proc[k].up)
    OBVIOUS
  <2>1. proc[k] \in ProcType
    BY DEF TypeInv
  <2>2. CASE proc'[k] = [proc[k] EXCEPT !.up = TRUE]
    BY <2>1, <2>2 DEF ProcType
  <2> QED
    BY <2>2
<1>2. Starting' => inst'.at # "idle"
  BY DEF Starting
<1>3. \A m, n \in Names : HasRecord(m)' /\ HasRecord(n)' /\ record'[m].port = record'[n].port => m = n
  BY DEF PortInv
<1>4. \A k \in Pids, n \in Names :
        proc'[k].kind = "proxy" /\ HasRecord(n)' /\ proc'[k].port = record'[n].port =>
          proc'[k].name = n /\ proc'[k].url = record'[n].url
  BY <1>1 DEF PortInv
<1>5. inst'.at # "idle" =>
        /\ \A n \in Names : HasRecord(n)' => record'[n].port \in used'
        /\ \A k \in Pids : proc'[k].kind = "proxy" /\ ~proc'[k].up => proc'[k].port \in used'
  BY <1>1, <1>2 DEF PortInv
<1>6. Starting' =>
        /\ inst'.port \in used'
        /\ \A k \in Pids : proc'[k].kind = "proxy" /\ proc'[k].port = inst'.port =>
                             proc'[k].name = Server' /\ proc'[k].url = inst'.url
        /\ \A n \in Names : HasRecord(n)' /\ record'[n].port = inst'.port =>
                             n = Server' /\ record'[n].url = inst'.url
  BY <1>1, <1>2 DEF PortInv
<1> QED
  BY <1>3, <1>4, <1>5, <1>6 DEF PortInv

LEMMA KillStep ==
  ASSUME TypeInv, NEW k, Kill(k)
  PROVE  \A j \in Pids : proc'[j] = proc[j] \/ proc'[j].kind # "proxy"
  BY DEF Kill, NoProc, TypeInv

LEMMA PortStep == DaemonInv /\ [Next]_vars => PortInv'
<1> SUFFICES ASSUME TypeInv, PortInv, [Next]_vars PROVE PortInv'
  BY DEF DaemonInv
<1> USE DEF instVars, files
<1>1. ASSUME UNCHANGED <<record, inst, used>>,
             \A k \in Pids : proc'[k] = proc[k] \/ proc'[k].kind # "proxy"
                             \/ proc'[k] = [proc[k] EXCEPT !.up = TRUE]
      PROVE  PortInv'
  BY <1>1, FewerPorts DEF HasRecord, Starting, Server
<1>2. ASSUME NEW k \in Pids, Bind(k) PROVE PortInv'
  <2>1. \A j \in Pids : proc'[j] = proc[j] \/ proc'[j].kind # "proxy"
                        \/ proc'[j] = [proc[j] EXCEPT !.up = TRUE]
    <3>1. CASE proc' = [proc EXCEPT ![k] = [proc[k] EXCEPT !.up = TRUE]]
      BY <3>1 DEF TypeInv
    <3>2. CASE Kill(k)
      BY <3>2, KillStep
    <3> QED
      BY <1>2, <3>1, <3>2 DEF Bind
  <2> QED
    BY <1>2, <2>1, <1>1 DEF Bind
<1>3. ASSUME NEW k \in Pids, Exit(k) PROVE PortInv'
  BY <1>3, <1>1, KillStep DEF Exit
<1>4. ASSUME NEW k \in Pids, NEW p \in Ports \cup {NoPort}, OtherStarts(k, p) PROVE PortInv'
  <2>1. \A j \in Pids : proc'[j] = proc[j] \/ proc'[j].kind # "proxy"
    BY <1>4 DEF OtherStarts, TypeInv
  <2> QED
    BY <1>4, <2>1, <1>1 DEF OtherStarts
<1>5. CASE KillOld
  BY <1>5, <1>1, KillStep DEF KillOld
<1>6. CASE StopOld
  <2>1. \A j \in Pids : proc'[j] = proc[j] \/ proc'[j].kind # "proxy"
    BY <1>6, KillStep DEF StopOld
  <2>2. /\ inst.at # "idle" /\ Starting /\ Server' = Server /\ inst'.port = inst.port
        /\ inst'.url = inst.url /\ UNCHANGED <<record, used>>
    BY <1>6 DEF StopOld, Starting, Server, TypeInv, InstType
  <2> QED
    BY <2>1, <2>2, FewerPorts DEF HasRecord
<1>7. ASSUME NEW c \in Clients, StartInstall(c) PROVE PortInv'
  <2>1. CASE UNCHANGED instVars
    BY <1>7, <2>1, <1>1 DEF StartInstall
  <2>2. CASE used' = RecordedPorts /\ inst' = [Resting EXCEPT !.client = c, !.at = "server"]
    <3>1. inst'.at = "server" /\ UNCHANGED <<record, proc>> /\ Settled
      BY <1>7, <2>2 DEF StartInstall, Resting
    <3> QED
      BY <2>2, <3>1 DEF PortInv, Settled, RecordedPorts, HasRecord, Starting
  <2> QED
    BY <1>7, <2>1, <2>2 DEF StartInstall
<1>8. CASE NewProxy
  <2>1. CASE inst' = Resting
    BY <1>8, <2>1, FewerPorts, RestingTypes DEF NewProxy, HasRecord
  <2>2. ASSUME NEW p \in FreePorts, used' = used \cup {p},
               inst' = [inst EXCEPT !.at = "spawn", !.port = p,
                                    !.url = Original[Client][Server], !.anew = TRUE]
        PROVE  PortInv'
    <3>1. /\ inst.at # "idle" /\ UNCHANGED <<record, proc>>
          /\ inst'.port = p /\ Server' = Server
      BY <1>8, <2>2 DEF NewProxy, InLoop, TypeInv, InstType, Server
    <3>2. p \notin used /\ ~Bound(p)
      BY DEF FreePorts
    <3>3. \A n \in Names : HasRecord(n) => record[n].port # p
      BY <3>1, <3>2 DEF PortInv
    <3>4. \A k \in Pids : proc[k].kind = "proxy" => proc[k].port # p
      BY <3>1, <3>2 DEF PortInv, Bound
    <3> QED
      BY <2>2, <3>1, <3>3, <3>4 DEF PortInv, HasRecord
  <2> QED
    BY <1>8, <2>1, <2>2 DEF NewProxy, PickPort
<1>9. CASE Respawn
  <2>1. Server \in Names /\ HasRecord(Server) /\ inst.at # "idle"
    BY <1>9, ServerIsName DEF Respawn, InLoop, TypeInv, InstType
  <2>2. /\ Server' = Server /\ inst'.port = record[Server].port
        /\ inst'.url = record[Server].url /\ UNCHANGED <<record, proc, used>>
    BY <1>9 DEF Respawn, PortAgain, Server, TypeInv, InstType
  <2> QED
    BY <2>1, <2>2 DEF PortInv, HasRecord
<1>10. CASE Spawn
  <2>1. PICK k \in Pids : /\ proc' = [proc EXCEPT ![k] = Proxy(Server, inst.url, inst.port)]
                          /\ inst' = [inst EXCEPT !.at = "save", !.pid = k]
    BY <1>10 DEF Spawn
  <2>2. /\ Starting /\ inst.at # "idle" /\ Server' = Server /\ inst'.port = inst.port
        /\ inst'.url = inst.url /\ UNCHANGED <<record, used>>
    BY <1>10, <2>1 DEF Spawn, Starting, Server, TypeInv, InstType
  <2>3. /\ \A j \in Pids : j # k => proc'[j] = proc[j]
        /\ proc'[k].name = Server /\ proc'[k].port = inst.port /\ proc'[k].url = inst.url
    BY <2>1 DEF Proxy, TypeInv
  <2>4. \A n \in Names : HasRecord(n)' = HasRecord(n)
    BY <2>2 DEF HasRecord
  <2>5. \A j \in Pids, n \in Names :
          proc'[j].kind = "proxy" /\ HasRecord(n) /\ proc'[j].port = record[n].port =>
            proc'[j].name = n /\ proc'[j].url = record[n].url
    BY <2>2, <2>3 DEF PortInv
  <2>6. \A j \in Pids : proc'[j].kind = "proxy" /\ ~proc'[j].up => proc'[j].port \in used
    BY <2>2, <2>3 DEF PortInv
  <2>7. \A j \in Pids : proc'[j].kind = "proxy" /\ proc'[j].port = inst.port =>
                         proc'[j].name = Server /\ proc'[j].url = inst.url
    BY <2>2, <2>3 DEF PortInv
  <2> QED
    BY <2>2, <2>4, <2>5, <2>6, <2>7 DEF PortInv
<1>11. CASE SaveRecord
  <2>1. Server \in Names /\ inst.at # "idle" /\ Starting
    BY <1>11, ServerIsName DEF SaveRecord, Starting, TypeInv, InstType
  <2>2. inst'.at = "server"
    <3>1. Onward(TRUE) \in InstType /\ Onward(TRUE).at = "server"
      BY OnwardTypes
    <3> QED
      BY <1>11, <3>1 DEF SaveRecord, InstType
  <2>3. /\ \A m \in Names : m # Server => record'[m] = record[m]
        /\ record'[Server].port = inst.port /\ record'[Server].url = inst.url
        /\ UNCHANGED <<proc, used>>
    BY <1>11, <2>1 DEF SaveRecord, TypeInv
  <2>4. /\ inst.port \in used
        /\ \A k \in Pids : proc[k].kind = "proxy" /\ proc[k].port = inst.port =>
                             proc[k].name = Server /\ proc[k].url = inst.url
        /\ \A n \in Names : HasRecord(n) /\ record[n].port = inst.port => n = Server
        /\ \A k \in Pids : proc[k].kind = "proxy" /\ ~proc[k].up => proc[k].port \in used
        /\ \A n \in Names : HasRecord(n) => record[n].port \in used
    BY <2>1 DEF PortInv
  <2>5. \A m \in Names : m # Server => HasRecord(m)' = HasRecord(m)
    BY <2>3 DEF HasRecord
  <2>6. \A m, n \in Names : HasRecord(m)' /\ HasRecord(n)' /\ record'[m].port = record'[n].port =>
                            m = n
    BY <2>3, <2>4, <2>5 DEF PortInv
  <2>7. \A k \in Pids, n \in Names :
          proc'[k].kind = "proxy" /\ HasRecord(n)' /\ proc'[k].port = record'[n].port =>
            proc'[k].name = n /\ proc'[k].url = record'[n].url
    BY <2>3, <2>4, <2>5 DEF PortInv
  <2>8. \A n \in Names : HasRecord(n)' => record'[n].port \in used'
    BY <2>3, <2>4, <2>5
  <2> QED
    BY <2>2, <2>3, <2>4, <2>6, <2>7, <2>8 DEF PortInv, Starting
<1>12. CASE Interrupt \/ EndInstall
  BY <1>12, FewerPorts, RestingTypes DEF Interrupt, EndInstall, HasRecord
<1>13. CASE WrapCommand \/ Skip \/ LeaveProxied
  <2>1. inst.at # "idle" /\ inst'.at = "server" /\ UNCHANGED <<record, proc, used>>
    BY <1>13, OnwardTypes DEF WrapCommand, Skip, LeaveProxied, InLoop
  <2> QED
    BY <2>1, FewerPorts DEF Starting, HasRecord
<1>14. CASE DeleteRecord
  <2>1. UNCHANGED <<proc, inst, used>>
    BY <1>14 DEF DeleteRecord
  <2>2. \A n \in Names : HasRecord(n)' => HasRecord(n) /\ record'[n] = record[n]
    BY <1>14 DEF DeleteRecord, HasRecord, NoRecord, TypeInv
  <2> QED
    BY <2>1, <2>2, FewerPorts DEF Starting, Server
<1>15. \/ \E n \in Names : Stop(n) \/ Remove(n) \/ \E c \in Clients : Edit(c, n) \/ InstallOne(c, n)
       \/ StopAll \/ Clean \/ CheckAlive \/ UNCHANGED vars
       => UNCHANGED <<record, proc, inst, used>>
  BY DEF Edit, InstallOne, Stop, Remove, StopAll, Clean, BeginCommand, CheckAlive, vars
<1> QED
  BY <1>1, <1>2, <1>3, <1>4, <1>5, <1>6, <1>7, <1>8, <1>9, <1>10, <1>11, <1>12, <1>13, <1>14,
     <1>15 DEF Next

-------------------------------------------------------------------------------
LEMMA DaemonInit == Init => DaemonInv
<1> SUFFICES ASSUME Init PROVE DaemonInv
  OBVIOUS
<1>1. inst.at = "idle" /\ inst \in InstType /\ ~Starting
  BY RestingTypes DEF Init, Starting
<1>2. \A c \in Clients, n \in Names :
        Before(c, n) \in EntryType /\ Before(c, n).kind # "local"
        /\ (Before(c, n).kind = "url" => Remote(c, n))
  BY DEF Before, Own, Absent, Entry, EntryType, NoPort
<1>3. Absent \in EntryType /\ NoRecord \in RecordType /\ NoProc \in ProcType
  BY FirstIsName DEF Absent, Entry, EntryType, NoRecord, RecordType, NoProc, ProcType, NoPort,
     NoPid, NoUrl, UrlType
<1>4. work \in [Names -> EntryType]
  BY <1>3 DEF Init
<1>5. CASE NothingInstalled
  <2>1. config \in ConfigType /\ backup \in ConfigType
    BY <1>2, <1>3, <1>5 DEF NothingInstalled, ConfigType
  <2>2. TypeInv
    BY <1>1, <1>3, <1>4, <1>5, <2>1 DEF NothingInstalled, TypeInv, Starting
  <2>3. BackupInv
    BY <1>5 DEF NothingInstalled, BackupInv
  <2>4. EntryInv /\ PassedInv /\ PortInv
    BY <1>1, <1>2, <1>5 DEF NothingInstalled, EntryInv, PassedInv, PortInv, HasRecord, NoRecord,
       NoProc
  <2> QED
    BY <2>2, <2>3, <2>4 DEF DaemonInv
<1>6. ASSUME NEW d \in Clients, OldInstalled(d) PROVE DaemonInv
  <2> DEFINE Old == OldProxies(d)
  <2>1. \A n \in Names : PidOf(n) \in Pids /\ PidOf(n) \in Nat /\ PidOf(n) # NoPid
    BY PidOfName
  <2>2. \A m, n \in Names : PidOf(m) = PidOf(n) => m = n
    BY PidOfName
  <2>3. Old \subseteq Names
    BY DEF OldProxies
  <2>4. \A n \in Names : /\ OldEntry(d, n) \in EntryType
                         /\ OldEntry(d, n).kind = "local" => n \in Old /\ OldEntry(d, n).port = PidOf(n)
    BY <2>1 DEF OldEntry, Absent, Entry, EntryType, NoPort
  <2>5. config \in ConfigType /\ backup \in ConfigType
    BY <1>2, <1>3, <1>6, <2>4 DEF OldInstalled, ConfigType
  <2>6. ASSUME NEW k \in Pids, \E n \in Old : k = PidOf(n)
        PROVE  \E n \in Old : k = PidOf(n) /\
                 proc[k] = [kind |-> "proxy", name |-> n, url |-> Original[d][n], port |-> k, up |-> TRUE]
    <3> DEFINE n == CHOOSE n \in Old : k = PidOf(n)
    <3>1. n \in Old /\ k = PidOf(n)
      BY <2>6
    <3>2. proc[k] = [Proxy(n, Original[d][n], k) EXCEPT !.up = TRUE]
      BY <1>6, <2>6 DEF OldInstalled
    <3> HIDE DEF n
    <3>3. proc[k] = [kind |-> "proxy", name |-> n, url |-> Original[d][n], port |-> k, up |-> TRUE]
      BY <3>2 DEF Proxy
    <3> QED
      BY <3>1, <3>3
  <2>7. ASSUME NEW k \in Pids, ~\E n \in Old : k = PidOf(n) PROVE proc[k] = NoProc
    BY <1>6, <2>7 DEF OldInstalled
  <2>8. proc \in [Pids -> ProcType]
    <3>1. \A k \in Pids : proc[k] \in ProcType
      <4> TAKE k \in Pids
      <4>1. CASE \E n \in Old : k = PidOf(n)
        <5>1. PICK n \in Old : proc[k] =
                [kind |-> "proxy", name |-> n, url |-> Original[d][n], port |-> k, up |-> TRUE]
          BY <2>6, <4>1
        <5>2. Original[d][n] \in UrlType
          BY <2>3, UrlTypes
        <5> QED
          BY <5>1, <5>2, <2>3 DEF ProcType
      <4> QED
        BY <4>1, <2>7, <1>3
    <3>2. proc = [k \in Pids |-> proc[k]]
      BY <1>6 DEF OldInstalled
    <3> QED
      BY <3>1, <3>2
  <2> HIDE DEF Old
  <2>9. record = [n \in Names |-> IF n \in Old
          THEN [pid |-> PidOf(n), port |-> PidOf(n), url |-> Original[d][n], current |-> FALSE]
          ELSE NoRecord]
    BY <1>6 DEF OldInstalled, Old
  <2>10. record \in [Names -> RecordType]
    BY <1>3, <2>1, <2>9, UrlTypes DEF RecordType
  <2>11. TypeInv
    BY <1>1, <1>4, <2>5, <2>8, <2>10 DEF TypeInv
  <2>12. BackupInv
    <3>1. /\ known = {d} \X Old /\ saved = {d}
          /\ \A n \in Names : backup[d][n] = Before(d, n)
      BY <1>6 DEF OldInstalled, Old
    <3>2. \A n \in Old : Before(d, n).kind = "url"
      BY DEF Old, OldProxies
    <3> QED
      BY <3>1, <3>2 DEF BackupInv
  <2>13. \A n \in Names :
           /\ HasRecord(n) => n \in Old
           /\ n \in Old => /\ HasRecord(n) /\ record[n].port = PidOf(n)
                           /\ record[n].url = Original[d][n]
    BY <2>1, <2>9 DEF HasRecord, NoRecord
  <2>14. EntryInv
    <3>1. \A c \in Clients, n \in Names : config[c][n].kind = "local" =>
            c = d /\ n \in Old /\ config[c][n].port = PidOf(n)
      BY <1>2, <1>6, <2>4 DEF OldInstalled
    <3> QED
      BY <1>1, <2>13, <3>1 DEF EntryInv, Vouched
  <2>15. PortInv
    <3>1. \A k \in Pids : proc[k].kind = "proxy" =>
            \E n \in Old : /\ k = PidOf(n) /\ proc[k].name = n /\ proc[k].port = k
                           /\ proc[k].url = Original[d][n]
      <4> SUFFICES ASSUME NEW k \in Pids, proc[k].kind = "proxy"
                   PROVE  \E n \in Old : /\ k = PidOf(n) /\ proc[k].name = n /\ proc[k].port = k
                                         /\ proc[k].url = Original[d][n]
        OBVIOUS
      <4>1. \E n \in Old : k = PidOf(n)
        BY <2>7 DEF NoProc
      <4>2. PICK n \in Old : k = PidOf(n) /\ proc[k] =
              [kind |-> "proxy", name |-> n, url |-> Original[d][n], port |-> k, up |-> TRUE]
        BY <2>6, <4>1
      <4>3. proc[k].name = n /\ proc[k].port = k /\ proc[k].url = Original[d][n]
        BY <4>2
      <4> QED
        BY <4>2, <4>3
    <3> QED
      BY <1>1, <2>2, <2>3, <2>13, <3>1 DEF PortInv
  <2>16. PassedInv
    BY <1>1 DEF PassedInv
  <2> QED
    BY <2>11, <2>12, <2>14, <2>15, <2>16 DEF DaemonInv
<1> QED
  BY <1>5, <1>6 DEF Init

\* What holds of every client's entries, of the records they share, of the ports and the
\* processes at every step of an install, wherever an earlier one has ended, for whichever
\* client it was (install.go:149-330, daemon.go:44-46).
THEOREM DaemonsAgree == Spec => []DaemonInv
<1>1. DaemonInv /\ [Next]_vars => DaemonInv'
  BY TypeStep, BackupStep, EntryStep, PassedStep, PortStep DEF DaemonInv
<1> QED
  BY <1>1, DaemonInit, PTL DEF Spec

\* No run, and no end of one, loses the URL of a server that points at a proxy, unless it
\* was added after the configuration's backup and its record is gone or another client's.
THEOREM UpstreamsAreKept == Spec => []UpstreamKept
<1>1. DaemonInv => UpstreamKept
  BY DEF DaemonInv, BackupInv, EntryInv, Vouched, UpstreamKept
<1> QED
  BY <1>1, DaemonsAgree, PTL

\* No client's server is ever sent to the proxy of another server or URL, unless its record was
\* removed, or overwritten by an install for another client.
THEOREM ProxiesAreOwn == Spec => []OwnProxy
<1>1. DaemonInv => OwnProxy
  BY DEF DaemonInv, EntryInv, PortInv, Vouched, OwnProxy
<1> QED
  BY <1>1, DaemonsAgree, PTL

\* An install that comes to its end leaves no server behind that it has read, with the same
\* exception of one that was already local.
THEOREM InstallsProtect == Spec => InstallProtects
<1>1. DaemonInv /\ [Next]_vars => [EndInstall => \A n \in Names : Protected(n)]_vars
  <2> SUFFICES ASSUME DaemonInv, EndInstall, NEW n \in Names PROVE Protected(n)
    OBVIOUS
  <2>1. PICK j \in 1..Len(Order) : Order[j] = n
    BY DEF Names
  <2>2. inst.at # "idle" /\ j < inst.i
    BY DEF EndInstall, DaemonInv, TypeInv, InstType
  <2>3. work[n].kind \in {"absent", "wrapped", "local"}
    BY <2>1, <2>2 DEF DaemonInv, PassedInv
  <2> QED
    BY <2>2, <2>3 DEF DaemonInv, EntryInv, Protected
<1> QED
  BY <1>1, DaemonsAgree, PTL DEF Spec, InstallProtects
================================================================================
