------------------------------- MODULE AuditView ------------------------------
(***************************************************************************)
(* The log that the HTTP gateways write (Transports), as `dvarapala logs`  *)
(* shows it (LogFormatter).  The servers choose nothing here: the ids are  *)
(* the clients', and those of two servers may be the same.                 *)
(***************************************************************************)
EXTENDS Transports

CONSTANTS Ids, NoId, Nameless, Hidden, Whitelist, DenyOnly

ASSUME IdAssumption == NoId \notin Ids
ASSUME FilterAssumption == DenyOnly \in BOOLEAN
\* A reply has the id of its post; only a tools/call names a tool.
ASSUME AttributesAssumption ==
  /\ Nameless # "tools/call"
  /\ \A m \in Messages :
       /\ Attributes[m].id \in Ids \cup {NoId}
       /\ Attributes[m].tool # Nameless => Attributes[m].method = "tools/call"
       /\ m[1] = "out" /\ m[2] \in Posts => Attributes[m].id = Attributes[<<"in", m[2]>>].id

Formatter == INSTANCE LogFormatter

\* What is shown when the reader begins at line k: the end of the log that
\* `logs -n` keeps, or the file that a rotation has left.
Window(k) == Formatter!Format(SubSeq(audit, k, Len(audit)))

Alone(lines, j) ==
  \A i \in DOMAIN lines : lines[i].of.id = lines[j].of.id => lines[i].of.name = lines[j].of.name

\* A response whose id nobody else uses in the part of the log that is read is
\* shown under the method and the tool of the request it answers, or, when that
\* is not in the part, under no name ("so outbound responses can be labelled by
\* what they're responding to", logs.go:313-314).
ResponsesNamed ==
  \A k \in 1..Len(audit) :
    LET lines == Window(k)
        Asked(j) == {i \in 1..j : lines[i].of.dir = "in" /\ lines[i].of.name = lines[j].of.name}
    IN  \A j \in {i \in DOMAIN lines : lines[i].of.dir = "out" /\ lines[i].of.id # NoId} :
          (Alone(lines, j) /\ lines[j].of.method = Nameless) =>
            /\ \A i \in Asked(j) : lines[j].as = [method |-> lines[i].of.method,
                                                  tool |-> lines[i].of.tool]
            /\ Asked(j) = {} => lines[j].as.method = Nameless
===============================================================================
