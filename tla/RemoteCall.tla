------------------------------ MODULE RemoteCall ------------------------------
(***************************************************************************)
(* What a caller of a hub backend is promised, without ids, pipes, a map   *)
(* or a reader: a request that the server has read may be answered, and a  *)
(* call returns once, either with the answer to that very request or with  *)
(* a failure.                                                              *)
(***************************************************************************)
CONSTANTS Calls, NoCall

VARIABLES
  asked,      \* requests the server has read
  answered,   \* requests it has answered
  outcome,    \* how each call returned
  reply       \* the request whose answer it returned

vars == <<asked, answered, outcome, reply>>

Init ==
  /\ asked = {} /\ answered = {}
  /\ outcome = [c \in Calls |-> "none"]
  /\ reply = [c \in Calls |-> NoCall]

Ask(c) ==
  /\ asked' = asked \cup {c}
  /\ UNCHANGED <<answered, outcome, reply>>

Answer(c) ==
  /\ c \in asked
  /\ answered' = answered \cup {c}
  /\ UNCHANGED <<asked, outcome, reply>>

Return(c) ==
  /\ c \in answered /\ outcome[c] = "none"
  /\ outcome' = [outcome EXCEPT ![c] = "reply"]
  /\ reply' = [reply EXCEPT ![c] = c]
  /\ UNCHANGED <<asked, answered>>

\* A timeout or an error; "sent" is all a notification returns.
ReturnNothing(c) ==
  /\ outcome[c] = "none"
  /\ \E o \in {"sent", "expired", "error"} : outcome' = [outcome EXCEPT ![c] = o]
  /\ UNCHANGED <<asked, answered, reply>>

Next == \E c \in Calls : Ask(c) \/ Answer(c) \/ Return(c) \/ ReturnNothing(c)

Spec == Init /\ [][Next]_vars
===============================================================================
