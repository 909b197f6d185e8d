------------------------------- MODULE MCDaemons -------------------------------
(* Two clients that share both names: a is another URL for each of them, b a command of *)
(* one and a URL of the other, which has its servers added later on.                    *)
EXTENDS Daemons

CONSTANTS c1, c2, a, b, u1, u2, u3
ServersInOrder == <<a, b>>
AtFirst == [c \in {c1, c2} |-> [n \in {a, b} |->
  IF n = a THEN (IF c = c1 THEN u1 ELSE u2) ELSE (IF c = c1 THEN "stdio" ELSE u3)]]
AddedLater == {<<c2, a>>, <<c2, b>>}
================================================================================
