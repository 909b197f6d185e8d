----------------------------- MODULE Enforcement ------------------------------
(***************************************************************************)
(* What the gateway promises about each message that passes it, whatever   *)
(* the transport: the policy decides once, the audit log records that      *)
(* decision once, and what leaves the gateway is what was decided - the    *)
(* message as it came, its redacted form, or a refusal sent back.          *)
(***************************************************************************)
CONSTANTS
  Messages,
  Refusable,    \* those a denial is answered to
  Droppable,    \* those a denial keeps back: another one passes as it came
  Rewritable    \* those whose text can be redacted: another one passes as it came

VARIABLES
  decided,    \* Messages -> none, allow, redact, deny
  logged,     \* Messages -> what the audit log says was done, or none
  left        \* Messages -> none, raw, redacted, refusal

vars == <<decided, logged, left>>

Actions == {"allow", "redact", "deny"}

\* What a decision lets out of the gateway.
Outcome(m, action) ==
  IF action = "deny"
  THEN IF m \in Refusable THEN {"refusal"} ELSE IF m \in Droppable THEN {} ELSE {"raw"}
  ELSE IF action = "redact" /\ m \in Rewritable THEN {"redacted"} ELSE {"raw"}

Init ==
  /\ decided = [m \in Messages |-> "none"]
  /\ logged = [m \in Messages |-> "none"]
  /\ left = [m \in Messages |-> "none"]

Decide(m) ==
  /\ decided[m] = "none"
  /\ \E a \in Actions : decided' = [decided EXCEPT ![m] = a]
  /\ UNCHANGED <<logged, left>>

Log(m) ==
  /\ decided[m] # "none" /\ logged[m] = "none"
  /\ logged' = [logged EXCEPT ![m] = decided[m]]
  /\ UNCHANGED <<decided, left>>

Leave(m) ==
  /\ decided[m] # "none" /\ left[m] = "none"
  /\ \E o \in Outcome(m, decided[m]) : left' = [left EXCEPT ![m] = o]
  /\ UNCHANGED <<decided, logged>>

Next == \E m \in Messages : Decide(m) \/ Log(m) \/ Leave(m)

Spec == Init /\ [][Next]_vars
===============================================================================
