------------------------------ MODULE MCAuditView -----------------------------
(***************************************************************************)
(* A small instance of AuditView for TLC: a POST and a GET through the     *)
(* proxy, requests through both kinds of hub backend, to the stdio one     *)
(* also one of wrong types and a body that is not JSON; one event of a     *)
(* server.                                                                 *)
(***************************************************************************)
EXTENDS AuditView, TLC

CONSTANTS p, h, q, w, n, g, s

ThePosts == {p, h, q, w, n}
TheGets == {g}
Served == p :> "proxy" @@ g :> "proxy" @@ h :> "hub-http" @@ q :> "hub-stdio"
       @@ w :> "hub-stdio" @@ n :> "hub-stdio"
TheNotes == {n}
FromServer == {s}
Undecodable == {<<"in", w>>, <<"in", n>>, <<"out", s>>}
Decodable == {<<"in", p>>, <<"in", h>>, <<"in", q>>, <<"out", p>>, <<"out", h>>}

\* Two clients number their requests alike.
Requests == p :> [server |-> "a", id |-> 1, method |-> "tools/call", tool |-> "read"]
         @@ h :> [server |-> "b", id |-> 1, method |-> "tools/list", tool |-> ""]
         @@ q :> [server |-> "c", id |-> 2, method |-> "initialize", tool |-> ""]
         @@ w :> [server |-> "c", id |-> 2, method |-> "tools/list", tool |-> ""]
         @@ n :> [server |-> "b", id |-> 0, method |-> "notifications/initialized", tool |-> ""]
         @@ s :> [server |-> "a", id |-> 0, method |-> "notifications/message", tool |-> ""]
Described ==
  [m \in Messages |-> IF m[1] = "in" \/ m[2] = s THEN Requests[m[2]]
                      ELSE [Requests[m[2]] EXCEPT !.method = "", !.tool = ""]]
UsedIds == {1, 2}
Boilerplate == {"initialize", "notifications/initialized", "notifications/message"}
NoWhitelist == {}
===============================================================================
