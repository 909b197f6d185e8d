------------------------------- MODULE Detection -------------------------------
(***************************************************************************)
(* Engine.Evaluate (src/internal/policy/engine.go) as the handlers of a    *)
(* gateway run it side by side, rule by rule, while the policy is reloaded *)
(* and the process restarted; the detectors it consults, one of which, the *)
(* tool-mutation detector (src/internal/detectors/toolmutation), remembers *)
(* the definition of each tool it was shown; and the redaction of what a   *)
(* redact rule has matched (src/internal/proxy/stdio.go:220-341,           *)
(* src/internal/hub/redact.go).                                            *)
(*                                                                         *)
(* A definition stands for its fingerprint.  The commands use New, which   *)
(* keeps the fingerprints in memory; NewPersistent is modelled too.  The   *)
(* other detectors are external: they find the words they know, or fail    *)
(* (a sidecar that is down).  Texts are sequences of symbols, so that a    *)
(* match can lie inside another.                                           *)
(***************************************************************************)
EXTENDS RuleMatch, FiniteSets

CONSTANTS
  Handlers,       \* what evaluates side by side: HTTP requests of the hub, the two relays
  Docs,           \* what the policy file may hold
  FirstDoc,       \* what it holds at the start
  Messages,
  Knows,          \* the words each stateless detector finds, and their score
  Registered,     \* the names in the registry, "tool-mutation" among them
  NoDefinition,
  Marker,         \* what a match is replaced by
  MaxEvaluations, \* bound: messages evaluated
  MaxUpsets       \* bound: reloads, restarts, detectors and writes that fail

ASSUME FirstDocAssumption == FirstDoc \in Docs /\ Loads(FirstDoc)
ASSUME RegisteredAssumption == DOMAIN Knows \cup {"tool-mutation"} \subseteq Registered
ASSUME AbsentAssumption == Absent # "tool-mutation"
ASSUME ListsAssumption ==
  /\ \A d \in Docs : AreRules(d.rules) /\ IsList(d.defaults)
  /\ \A k \in DOMAIN Packs : AreRules(Packs[k])
  /\ \A m \in Messages :
       /\ IsList(m.tools) /\ \A i \in DOMAIN m.tools : m.tools[i].definition # NoDefinition
       /\ IsList(m.text)
Words == {k.word : k \in UNION {Knows[d] : d \in DOMAIN Knows}}
ASSUME WordsAssumption ==
  IsFiniteSet(Words) /\ \A w \in Words : IsList(w) /\ Marker \notin Range(w)
ASSUME DetectionBounds == MaxEvaluations \in Nat /\ MaxUpsets \in Nat

VARIABLES
  persistent, \* was the detector made by NewPersistent
  active,     \* the document whose rules the engine's state holds
  at,         \* where each handler is
  eval,       \* its evaluation
  seen,       \* Detector.seen: tool -> definition
  store,      \* tool-fingerprints.jsonl: pairs of a tool and a definition
  started,    \* how many evaluations have begun
  upsets,     \* reloads, restarts and failures so far
  done,       \* history: the evaluations that have come to a decision
  compared,   \* history: how often each tool was compared, or may have been forgotten
  cut,        \* history: tools whose last record may not be that of the last comparison
  forgotten,  \* history: when a tool may have been forgotten: its name, and compared
  lost        \* history: the comparisons of evaluations that ended with their process

vars == <<persistent, active, at, eval, seen, store, started, upsets, done, compared, cut,
          forgotten, lost>>
engineVars   == <<persistent, active, started>>
detectorVars == <<seen, store, compared, cut, forgotten, lost>>


Mutation == "tool-mutation"
Given(m) == {m.tools[i].name : i \in DOMAIN m.tools} \ {NoName}
ToolNames == UNION {Given(m) : m \in Messages}
AllowAll == [name |-> NoName, action |-> "allow"]
Fresh(m, doc) ==
  [msg |-> m, doc |-> doc, rule |-> 1, field |-> "content", tool |-> 1, found |-> {},
   hits |-> {}, missed |-> {}, shown |-> {}, unused |-> {}, action |-> "none",
   by |-> NoName, out |-> << >>, blind |-> FALSE]
Nothing == Fresh(CHOOSE m \in Messages : TRUE, FirstDoc)

Init ==
  /\ persistent \in BOOLEAN
  /\ active = FirstDoc
  /\ at = [h \in Handlers |-> "idle"]
  /\ eval = [h \in Handlers |-> Nothing]
  /\ seen = [t \in ToolNames |-> NoDefinition] /\ store = << >>
  /\ started = 0 /\ upsets = 0 /\ done = {}
  /\ compared = [t \in ToolNames |-> 0] /\ cut = {} /\ forgotten = {} /\ lost = {}

Upset == upsets < MaxUpsets /\ upsets' = upsets + 1

-------------------------------------------------------------------------------
\* The engine.

\* Reload: a document that does not load or compile changes nothing.
Reload(doc) ==
  /\ Upset /\ doc # active
  /\ active' = IF Loads(doc) THEN doc ELSE active
  /\ UNCHANGED <<persistent, at, eval, detectorVars, started, done>>

\* Evaluate loads the state once, and walks over the rules it found.
StateNow(e) == active
StateLoaded(e) == e.doc

RulesOf(e) == Rules(StateLoaded(e))
Current(e) == RulesOf(e)[e.rule]

\* The evaluation e of h comes to a rule: those whose conditions do not hold are
\* passed over.
Matching(e) == {i \in DOMAIN RulesOf(e) : i >= e.rule /\ Matches(RulesOf(e)[i], e.msg)}

\* content_matches is looked at before content_score; a detector is consulted in
\* steps of its own.
Enter(h, e, field) ==
  /\ eval' = [eval EXCEPT ![h] = [e EXCEPT !.field = field, !.tool = 1, !.found = {}]]
  /\ at' = [at EXCEPT ![h] = IF field = "none" THEN "decide"
                             ELSE IF Current(e)[field] = Mutation THEN "compare" ELSE "scan"]

Walk(h, e) ==
  IF Matching(e) = {} THEN Enter(h, [e EXCEPT !.rule = Len(RulesOf(e)) + 1], "none")
  ELSE \E i \in Matching(e) :
         LET rule == RulesOf(e)[i]
         IN  /\ \A j \in Matching(e) : i <= j
             /\ Enter(h, [e EXCEPT !.rule = i],
                  IF rule.content # Absent THEN "content"
                  ELSE IF rule.score # Absent THEN "score" ELSE "none")

Begin(h, m) ==
  /\ at[h] = "idle" /\ started < MaxEvaluations
  /\ started' = started + 1
  /\ Walk(h, Fresh(m, active))
  /\ UNCHANGED <<persistent, active, detectorVars, upsets, done>>

\* content_matches wants a finding, content_score one of at least the threshold;
\* without it the next rules are looked at, and what was found is of no more use.
Enough(e, found) ==
  IF e.field = "content" THEN found ELSE {f \in found : f.score >= Current(e).threshold}

Conclude(h, found) ==
  LET e == eval[h]
  IN  IF Enough(e, found) = {}
      THEN Walk(h, [e EXCEPT !.rule = @ + 1, !.hits = {}, !.missed = @ \cup {e.rule},
                            !.unused = @ \cup e.hits \cup found])
      ELSE Enter(h, [e EXCEPT !.hits = @ \cup Enough(e, found)],
             IF e.field = "content" /\ Current(e).score # Absent THEN "score" ELSE "none")

Occurs(word, text, i) ==
  i + Len(word) - 1 <= Len(text) /\ SubSeq(text, i, i + Len(word) - 1) = word
Findings(detector, text) ==
  IF detector \notin Registered THEN {}
  ELSE {[detector |-> detector, match |-> k.word, score |-> k.score] :
          k \in {j \in Knows[detector] : \E i \in DOMAIN text : Occurs(j.word, text, i)}}

\* A detector that fails is one that finds nothing.
Scan(h) ==
  /\ at[h] = "scan"
  /\ \/ Conclude(h, Findings(Current(eval[h])[eval[h].field], eval[h].msg.text)) /\ UNCHANGED upsets
     \/ Conclude(h, {}) /\ Upset
  /\ UNCHANGED <<engineVars, detectorVars, done>>

-------------------------------------------------------------------------------
\* The tool-mutation detector, tool by tool.

ToolsLeft(h) == eval[h].tool <= Len(eval[h].msg.tools)
Tool(h) == eval[h].msg.tools[eval[h].tool]
Finding(t) == [detector |-> Mutation, match |-> t.name, score |-> 10]
Changed(t) == seen[t.name] \notin {NoDefinition, t.definition}

\* The definition it compares with the next time: always the one shown last.
KeepFirst(t) == IF seen[t.name] = NoDefinition THEN t.definition ELSE seen[t.name]
Remembered(t) == t.definition

\* The tools that were compared, and whose record is still to be written.
Pending == {Tool(h).name : h \in {g \in Handlers : at[g] = "persist"}}

\* The critical section of mu, and the finding.
Compare(h) ==
  LET t == Tool(h)
  IN  /\ at[h] = "compare" /\ ToolsLeft(h)
      /\ IF t.name = NoName
         THEN eval' = [eval EXCEPT ![h].tool = @ + 1] /\ UNCHANGED <<at, seen, compared, cut>>
         ELSE /\ seen' = [seen EXCEPT ![t.name] = Remembered(t)]
              /\ compared' = [compared EXCEPT ![t.name] = @ + 1]
              /\ cut' = cut \cup ({t.name} \cap Pending)
              /\ eval' = [eval EXCEPT
                   ![h].found = IF Changed(t) THEN @ \cup {Finding(t)} ELSE @,
                   ![h].shown = @ \cup {[name |-> t.name, definition |-> t.definition,
                                        n |-> compared[t.name] + 1]},
                   ![h].tool = IF persistent THEN @ ELSE @ + 1]
              /\ at' = [at EXCEPT ![h] = IF persistent THEN "persist" ELSE @]
      /\ UNCHANGED <<engineVars, upsets, store, done, forgotten, lost>>

\* The record is appended once the mutex is released, changed or not; errors are ignored.
Persist(h) ==
  /\ at[h] = "persist"
  /\ \/ store' = Append(store, Tool(h)) /\ UNCHANGED <<cut, upsets>>
     \/ Upset /\ cut' = cut \cup {Tool(h).name} /\ UNCHANGED store
  /\ eval' = [eval EXCEPT ![h].tool = @ + 1]
  /\ at' = [at EXCEPT ![h] = "compare"]
  /\ UNCHANGED <<engineVars, seen, done, compared, forgotten, lost>>

EndCompare(h) ==
  /\ at[h] = "compare" /\ ~ToolsLeft(h)
  /\ Conclude(h, eval[h].found)
  /\ UNCHANGED <<engineVars, upsets, detectorVars, done>>

-------------------------------------------------------------------------------
\* The decision, and redaction.

\* strings.ReplaceAll.
Replaced(text, word) ==
  LET from[i \in 1..(Len(text) + 1)] ==
        IF i > Len(text) THEN << >>
        ELSE IF Occurs(word, text, i) THEN <<Marker>> \o from[i + Len(word)]
        ELSE <<text[i]>> \o from[i + 1]
  IN  from[1]

ShorterFirst(v, w) == Len(v) < Len(w)
LongerFirst(v, w) == Len(v) > Len(w)

\* redactString: what all registered detectors that answer have found is replaced, the
\* longer matches before the shorter; an empty match is passed over.
Matched(text, answering) ==
  {f.match : f \in UNION {Findings(d, text) : d \in answering}} \ {<< >>}
Orders(words) ==
  {s \in SetToSeqs(words) : \A i, j \in DOMAIN s : i < j => ~LongerFirst(s[j], s[i])}
Redacted(text, words) ==
  LET after[n \in 0..Len(words)] ==
        IF n = 0 THEN text ELSE Replaced(after[n - 1], words[n])
  IN  after[Len(words)]

Decide(h) ==
  LET e == eval[h]
      rule == IF e.rule > Len(RulesOf(e)) THEN AllowAll ELSE Current(e)
  IN  /\ at[h] = "decide"
      /\ \E answering \in SUBSET DOMAIN Knows :
           /\ \/ answering = DOMAIN Knows /\ UNCHANGED upsets
              \/ answering # DOMAIN Knows /\ rule.action = "redact" /\ Upset
           /\ \E words \in Orders(Matched(e.msg.text, answering)) :
                done' = done \cup
                  {[e EXCEPT !.action = rule.action, !.by = rule.name,
                             !.out = CASE rule.action = "deny" -> << >>
                                       [] rule.action = "redact" -> Redacted(e.msg.text, words)
                                       [] OTHER -> e.msg.text,
                             !.blind = answering # DOMAIN Knows]}
      /\ at' = [at EXCEPT ![h] = "idle"] /\ eval' = [eval EXCEPT ![h] = Nothing]
      /\ UNCHANGED <<engineVars, detectorVars>>

\* The process ends anywhere, and another one loads the document and, if it is to,
\* the fingerprints: the last of each tool.
LastOf(t) ==
  IF \E i \in DOMAIN store : store[i].name = t
  THEN store[CHOOSE i \in DOMAIN store :
               store[i].name = t /\ \A j \in DOMAIN store : store[j].name = t => j <= i].definition
  ELSE NoDefinition

\* What a restart may forget: all that is in memory only.
Forgettable == IF persistent THEN cut \cup Pending ELSE ToolNames

Restart ==
  /\ Upset
  /\ at' = [h \in Handlers |-> "idle"] /\ eval' = [h \in Handlers |-> Nothing]
  /\ seen' = [t \in ToolNames |-> IF persistent THEN LastOf(t) ELSE NoDefinition]
  /\ compared' = [t \in ToolNames |-> compared[t] + IF t \in Forgettable THEN 1 ELSE 0]
  /\ forgotten' = forgotten \cup {<<t, compared[t] + 1>> : t \in Forgettable}
  /\ cut' = {}
  /\ lost' = lost \cup UNION {eval[h].shown : h \in {g \in Handlers : at[g] # "idle"}}
  /\ UNCHANGED <<persistent, active, store, started, done>>

-------------------------------------------------------------------------------
HandlerStep(h) ==
  \/ \E m \in Messages : Begin(h, m)
  \/ Scan(h) \/ Compare(h) \/ Persist(h) \/ EndCompare(h)
  \/ Decide(h)

Next == (\E h \in Handlers : HandlerStep(h)) \/ (\E doc \in Docs : Reload(doc)) \/ Restart

Spec == Init /\ [][Next]_vars

-------------------------------------------------------------------------------
\* A reader's definition of the decision: the first of the user's own rules that
\* matches, and whose detectors found what it asks for, else the first of the packs'.
Firing(e, rules, before) ==
  {i \in DOMAIN rules : Matches(LoadedRule(rules[i]), e.msg) /\ before + i \notin e.missed}
First(e, rules, before) ==
  rules[CHOOSE i \in Firing(e, rules, before) : \A j \in Firing(e, rules, before) : i <= j]
Verdict(e) ==
  LET own   == e.doc.rules
      packs == PackRules(e.doc)
  IN  IF Firing(e, own, 0) # {} THEN First(e, own, 0)
      ELSE IF Firing(e, packs, Len(own)) # {} THEN First(e, packs, Len(own))
      ELSE AllowAll

\* An evaluation decides by the rules of one policy, the one that was active when it
\* began, whatever is reloaded meanwhile (engine.go:137).
DecidedByOnePolicy == \A e \in done : e.by = Verdict(e).name /\ e.action = Verdict(e).action

\* Between two evaluations that show the detector different definitions of a tool, or
\* by the second of them, the change is told, whatever the order of their comparisons and
\* however often it happens (detector.go:149-156): an evaluation has found it, though a
\* rule that asks for more may have used it up.  Excused are what an evaluation has seen
\* that ended with its process, and a restart, unless NewPersistent was used and the
\* records are complete and in order.  The commands use New (wrap.go:124): with them
\* every restart is such a gap.  Each tool of a message is shown.
Asking(e) == {i \in DOMAIN Rules(e.doc) : Rules(e.doc)[i].content = Mutation}
Consulted(e) == Asking(e) \cap (e.missed \cup {e.rule}) # {}
Tells(e, t) == \E f \in e.hits \cup e.found \cup e.unused : f.detector = Mutation /\ f.match = t

Evaluations == done \cup {eval[h] : h \in {g \in Handlers : at[g] # "idle"}}
Comparisons == UNION {e.shown : e \in Evaluations}
Told == {<<s.name, s.n>> : s \in UNION {{c \in e.shown : Tells(e, c.name)} : e \in Evaluations}}
Unheard == {<<s.name, s.n>> : s \in lost}

ToldUnless(gaps) ==
  \A s, t \in Comparisons :
    s.name = t.name /\ s.definition # t.definition /\ s.n < t.n =>
      \E k \in (s.n + 1)..t.n : <<s.name, k>> \in Told \cup gaps

NoSilentChange ==
  /\ ToldUnless(Unheard \cup forgotten)
  /\ \A e \in done : Consulted(e) =>
       \A t \in Range(e.msg.tools) : t.name # NoName =>
         \E s \in e.shown : s.name = t.name /\ s.definition = t.definition

\* The same across restarts: "persistent SHA-256 fingerprints - always on, JSONL
\* persistence" (CHANGELOG.md:374-375), as only NewPersistent has them.
ToldAcrossRestarts == ToldUnless(Unheard)

\* A match may lie inside another.  Where two overlap otherwise, the end of one stays.
Nested(text) ==
  \A v, w \in Words : \A i, j \in DOMAIN text :
    Occurs(v, text, i) /\ Occurs(w, text, j) /\ i < j /\ j < i + Len(v) =>
      j + Len(w) <= i + Len(v)

\* Where all detectors answer, a redacted text has lost every symbol of every match,
\* of one that lies inside another too (comment at stdio.go:285-289), and no other.
Covered(text) ==
  {c \in DOMAIN text : \E i \in 1..c, w \in Words \ {<< >>} : Occurs(w, text, i) /\ c < i + Len(w)}
Plain(text) ==
  LET from[i \in 1..(Len(text) + 1)] ==
        IF i > Len(text) THEN << >>
        ELSE IF text[i] = Marker THEN from[i + 1] ELSE <<text[i]>> \o from[i + 1]
  IN  from[1]

RedactionCovers ==
  \A e \in done : e.action = "redact" /\ ~e.blind /\ Nested(e.msg.text) =>
    LET text == e.msg.text
        covered == Covered(text)
    IN  Plain(e.out) = Plain([i \in DOMAIN text |-> IF i \in covered THEN Marker ELSE text[i]])
===============================================================================
