------------------------------ MODULE MCDetection ------------------------------
(***************************************************************************)
(* A small instance of Detection for TLC: the HTTP handlers of a hub, one  *)
(* tool list before and after a change, one that holds a secret inside a   *)
(* longer match, and a call to a host.                                     *)
(***************************************************************************)
EXTENDS Detection, TLC

CONSTANTS h1, h2

Pattern(texts) == [ok |-> TRUE, accepts |-> texts]
BadPattern == [ok |-> FALSE, accepts |-> {}]

NoArguments == [k \in {} |-> {}]
RuleNamed(name, action) ==
  [name |-> name, direction |-> Absent, method |-> Absent, tool |-> Absent, toolName |-> Absent,
   description |-> {}, args |-> NoArguments, urlHostNotIn |-> Absent,
   content |-> Absent, score |-> Absent, threshold |-> 0, action |-> action]

\* As in policies/tool-mutation.yaml, secrets.yaml and egress-allowlist.yaml.
Changed_ == [RuleNamed("changed", "deny") EXCEPT !.direction = "outbound", !.content = "tool-mutation"]
Secret == [RuleNamed("secret", "redact") EXCEPT !.direction = "outbound", !.score = "scanner", !.threshold = 5]
Egress == [RuleNamed("egress", "deny") EXCEPT !.method = "tools/call", !.urlHostNotIn = {"good.example"},
             !.toolName = Pattern({"fetch"}), !.args = [url |-> {NotText}]]
Greedy == [Changed_ EXCEPT !.name = "greedy", !.score = "scanner", !.threshold = 5, !.action = "log_only"]
Broken == [RuleNamed("broken", "deny") EXCEPT !.description = {BadPattern}]

ThePacks == [mutation |-> <<Changed_>>, secrets |-> <<Secret>>]
Doc(rules, defaults) == [wellFormed |-> TRUE, rules |-> rules, defaults |-> defaults]
Mutations == Doc(<<Egress>>, <<"mutation", "secrets">>)
Wasteful  == Doc(<<Greedy, Secret>>, <<"mutation">>)
Useless   == Doc(<<Broken>>, << >>)
TheDocs == {Mutations, Wasteful, Useless}

ThisTool(name, definition) == [name |-> name, definition |-> definition]
List(tools, text) ==
  [dir |-> "outbound", method |-> NoName, name |-> NoName, args |-> NoArguments, tools |-> tools, text |-> text]
Lists ==
  {List(<<ThisTool("t", 1)>>, << >>),
   List(<<ThisTool("t", 2), ThisTool("u", 1)>>, << >>),
   List(<<ThisTool("u", 2)>>, <<"x", "a", "b", "y", "a", "b", "x">>)}
Call ==
  [dir |-> "inbound", method |-> "tools/call", name |-> "fetch", args |-> [url |-> "page"],
   tools |-> << >>, text |-> << >>]
TheMessages == Lists \cup {Call}
TheHosts == [page |-> "other.example"]
TheWords == [scanner |-> {[word |-> <<"a", "b">>, score |-> 8], [word |-> <<"x", "a", "b", "y">>, score |-> 3]}]
TheDetectors == {"scanner", "tool-mutation"}
TwoHandlers == {h1, h2}
Symmetry == Permutations(TwoHandlers)
===============================================================================
