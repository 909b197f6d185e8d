------------------------------- MODULE RuleMatch -------------------------------
(***************************************************************************)
(* Policy documents and what their rules match (src/internal/config/       *)
(* loader.go, src/internal/policy/engine.go), as operators without state.  *)
(*                                                                         *)
(* A document is [wellFormed, rules, defaults]; a rule as written has the  *)
(* fields of Rule.match.  Absent is the value of a field left out.          *)
(* A pattern is [ok, accepts]: does it compile, and the texts it matches - *)
(* a slash regex those that contain a match, a glob or a literal those it  *)
(* spells as a whole.  A message is [dir, method, name, args, tools, text]:*)
(* args maps the arguments of a tools/call to their values, tools are the  *)
(* definitions a tools/list result holds, text is its string content.      *)
(***************************************************************************)
EXTENDS Naturals, Sequences, SequencesExt

CONSTANTS
  Absent,   \* a condition that is not there
  NoName,   \* the empty string, the tool name of a message that calls none
  NotText,  \* a YAML scalar that is not a string
  HostOf,   \* the host of each argument value, Absent if it is no http(s) URL
  Packs     \* the rules of each embedded rulepack, by name

IsList(s) == s \in Seq(Range(s))
AreRules(s) == IsList(s) /\ \A i \in DOMAIN s : {"name", "action"} \subseteq DOMAIN s[i]

-------------------------------------------------------------------------------
\* Loading.

\* flattenArgs: an item that is not a string is dropped, and with the last of its
\* items the whole condition.
LoadedArgs(written) ==
  LET strings(k) == {p \in written[k] : p # NotText}
  IN  [k \in {j \in DOMAIN written : strings(j) # {}} |-> strings(k)]

LoadedRule(rule) == [rule EXCEPT !.args = LoadedArgs(@)]

\* The rules of the packs follow those of the user, in the order of `defaults`.
PackRules(doc) == FlattenSeq([i \in DOMAIN doc.defaults |-> Packs[doc.defaults[i]]])
Combined(doc) == doc.rules \o PackRules(doc)

Rules(doc) == LET all == Combined(doc) IN [i \in DOMAIN all |-> LoadedRule(all[i])]

\* compileRules: the patterns of a description are compiled, and used nowhere.
PatternsOf(rule) ==
  (IF rule.toolName = Absent THEN {} ELSE {rule.toolName}) \cup rule.description
    \cup UNION {rule.args[k] : k \in DOMAIN rule.args}

Loads(doc) ==
  /\ doc.wellFormed
  /\ \A i \in DOMAIN doc.defaults : doc.defaults[i] \in DOMAIN Packs
  /\ \A i \in DOMAIN Rules(doc) : \A p \in PatternsOf(Rules(doc)[i]) : p.ok

-------------------------------------------------------------------------------
\* Matching.

NoArgs == [k \in {} |-> NoName]
ToolOf(m) == IF m.method = "tools/call" THEN m.name ELSE NoName
ArgsOf(m) == IF m.method = "tools/call" THEN m.args ELSE NoArgs

Asked(wanted, got) == wanted \in {Absent, got}

MatchArgs(patterns, args) ==
  \A k \in DOMAIN patterns :
    k \in DOMAIN args /\ \E p \in patterns[k] : args[k] \in p.accepts

\* url_host_not_in: some argument is a URL and its host is not listed.
MatchURLHostNotIn(listed, args) ==
  \/ listed = Absent
  \/ \E k \in DOMAIN args : HostOf[args[k]] \notin {Absent} \cup listed

\* All that a rule asks for but what its detectors find.
Matches(rule, m) ==
  /\ Asked(rule.direction, m.dir)
  /\ Asked(rule.method, m.method)
  /\ Asked(rule.tool, ToolOf(m))
  /\ rule.toolName = Absent \/ ToolOf(m) \in rule.toolName.accepts
  /\ MatchArgs(rule.args, ArgsOf(m))
  /\ MatchURLHostNotIn(rule.urlHostNotIn, ArgsOf(m))
===============================================================================
