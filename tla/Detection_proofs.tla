--------------------------- MODULE Detection_proofs ---------------------------
(***************************************************************************)
(* Proofs about Detection: an evaluation decides by the rules of one       *)
(* policy (DecidedByOnePolicy), no change of a tool's definition passes    *)
(* unreported (NoSilentChange), and a redacted text has lost its matches   *)
(* and nothing else (RedactionCovers), for any policies, messages, words   *)
(* and number of handlers.                                                 *)
(***************************************************************************)
EXTENDS Detection, WellFoundedInduction, FiniteSetTheorems, SequenceTheorems, TLAPS

-------------------------------------------------------------------------------
Tools == UNION {Range(m.tools) : m \in Messages}

\* What is known of a running evaluation, by the place of its handler.

Fields == {"msg", "doc", "rule", "field", "tool", "found", "hits", "missed", "shown", "unused",
           "action", "by", "out", "blind"}
Shape(e) == e = [k \in Fields |-> e[k]]

\* The rules passed over are those that do not match, or whose detectors found nothing.
Walked(e) ==
  /\ e.msg \in Messages /\ e.doc \in Docs /\ Loads(e.doc)
  /\ e.rule \in 1..(Len(Rules(e.doc)) + 1) /\ e.missed \subseteq 1..(e.rule - 1)
  /\ \A i \in 1..(e.rule - 1) : Matches(Rules(e.doc)[i], e.msg) => i \in e.missed
  /\ e.rule <= Len(Rules(e.doc)) => Matches(Rules(e.doc)[e.rule], e.msg)

Placed(p, e) ==
  /\ Shape(e) /\ Walked(e)
  /\ p \in {"scan", "compare", "persist"} =>
       /\ e.field \in {"content", "score"} /\ e.rule \in DOMAIN Rules(e.doc)
       /\ (p = "scan") <=> (Rules(e.doc)[e.rule][e.field] # Mutation)
       /\ e.field = "score" => Rules(e.doc)[e.rule].score # Absent
  /\ p \in {"scan", "decide"} => e.found = {}
  /\ p = "decide" => e.field = "none"
  /\ p \in {"compare", "persist"} =>
       /\ e.tool \in 1..(Len(e.msg.tools) + 1)
       /\ \A f \in e.found : f.detector = Mutation /\ f.score = 10
  /\ p = "persist" => e.tool <= Len(e.msg.tools) /\ e.msg.tools[e.tool].name # NoName

PlaceInv ==
  /\ persistent \in BOOLEAN /\ active \in Docs /\ Loads(active)
  /\ at \in [Handlers -> {"idle", "scan", "compare", "persist", "decide"}]
  /\ eval = [h \in Handlers |-> eval[h]]
  /\ seen = [t \in ToolNames |-> seen[t]]
  /\ store \in Seq(Tools)
  /\ \A h \in Handlers :
       /\ at[h] # "idle" => Placed(at[h], eval[h])
       /\ at[h] = "persist" => persistent
  /\ ~persistent => store = << >>

-------------------------------------------------------------------------------
\* What the detector remembers, and what it has been shown.

Running == {h \in Handlers : at[h] # "idle"}
Accounted == Told \cup (Unheard \cup forgotten)

\* A comparison with another definition than the detector remembers was followed by one
\* that has told, or by a gap.
HistoryInv ==
  /\ compared \in [ToolNames -> Nat]
  /\ \A s \in Comparisons :
       s.name \in ToolNames /\ s.definition # NoDefinition /\ s.n \in 1..compared[s.name]
  /\ \A s \in Comparisons : s.definition # seen[s.name] =>
       \E k \in (s.n + 1)..compared[s.name] : <<s.name, k>> \in Accounted
  /\ ToldUnless(Unheard \cup forgotten)

\* The last record of a tool is that of its last comparison, or is to be written.
StoreInv ==
  persistent => \A t \in ToolNames \ cut :
    /\ t \notin Pending => LastOf(t) = seen[t]
    /\ \A h \in Handlers : at[h] = "persist" /\ Tool(h).name = t => Tool(h).definition = seen[t]

\* The evaluation has shown it all the tools of the message, for a rule that asks.
Passed(e) ==
  \/ Asking(e) \cap e.missed # {}
  \/ e.rule \in Asking(e) /\ e.field # "content"
\* The tools it has come past, each of which it has shown.
Past(p, e) ==
  {i \in DOMAIN e.msg.tools :
     \/ Passed(e)
     \/ p \in {"compare", "persist"} /\ i < e.tool
     \/ p = "persist" /\ i = e.tool}
Displayed(e, i) ==
  e.msg.tools[i].name # NoName =>
    \E s \in e.shown : s.name = e.msg.tools[i].name /\ s.definition = e.msg.tools[i].definition

ShownInv ==
  /\ \A h \in Running : \A i \in Past(at[h], eval[h]) : Displayed(eval[h], i)
  /\ \A d \in done : Consulted(d) => \A i \in DOMAIN d.msg.tools : Displayed(d, i)

DoneInv == \A d \in done : d.msg \in Messages

\* What a redact rule lets out was redacted for what the detectors found.
RedactedInv ==
  \A d \in done : d.action = "redact" /\ ~d.blind =>
    \E words \in Orders(Matched(d.msg.text, DOMAIN Knows)) : d.out = Redacted(d.msg.text, words)

DetectionInv ==
  PlaceInv /\ HistoryInv /\ StoreInv /\ ShownInv /\ DoneInv /\ DecidedByOnePolicy /\ RedactedInv

-------------------------------------------------------------------------------
\* Induction over the natural numbers, from the well-foundedness of <.

LEMMA LeastNumber ==
  ASSUME NEW S, S \subseteq Nat, S # {}
  PROVE  \E m \in S : \A k \in S : m <= k
<1>1. PICK m \in S : \A k \in S : ~ (<<k, m>> \in OpToRel(<, Nat))
  BY NatLessThanWellFounded, WFMin, Zenon
<1>2. \A k \in S : ~ (k < m)
  BY <1>1, Zenon DEF OpToRel
<1> QED BY <1>2

LEMMA Induction ==
  ASSUME NEW S, S \subseteq Nat, 0 \in S, \A n \in S : n + 1 \in S
  PROVE  S = Nat
<1> SUFFICES ASSUME Nat \ S # {} PROVE FALSE
  OBVIOUS
<1>1. PICK m \in Nat \ S : \A k \in Nat \ S : m <= k
  BY LeastNumber
<1>2. m - 1 \in S
  BY <1>1
<1> QED BY <1>1, <1>2

\* The recursive function that FlattenSeq is defined with: there is one, and its
\* values are sequences.
IsFlatten(f, seqs, n) ==
  f = [i \in 1..n |-> IF i = 1 THEN seqs[i] ELSE f[i-1] \o seqs[i]]

LEMMA FlattenExists ==
  ASSUME NEW X, NEW seqs \in Seq(Seq(X)), NEW n \in Nat, n <= Len(seqs)
  PROVE  \E f \in [1..n -> Seq(X)] : IsFlatten(f, seqs, n)
<1> DEFINE S == {k \in Nat : k <= Len(seqs) => \E f \in [1..k -> Seq(X)] : IsFlatten(f, seqs, k)}
<1>1. 0 \in S
  <2> DEFINE f == [i \in 1..0 |-> << >>]
  <2>1. f \in [1..0 -> Seq(X)] /\ IsFlatten(f, seqs, 0)
    BY DEF IsFlatten
  <2> QED BY <2>1
<1>2. ASSUME NEW k \in S PROVE k + 1 \in S
  <2> SUFFICES ASSUME k + 1 <= Len(seqs)
               PROVE  \E f \in [1..(k+1) -> Seq(X)] : IsFlatten(f, seqs, k + 1)
    OBVIOUS
  <2>1. PICK f \in [1..k -> Seq(X)] : IsFlatten(f, seqs, k)
    BY k <= Len(seqs)
  <2> DEFINE g == [i \in 1..(k + 1) |->
                     IF i <= k THEN f[i] ELSE IF i = 1 THEN seqs[i] ELSE f[i-1] \o seqs[i]]
  <2>2. g \in [1..(k+1) -> Seq(X)]
    <3> SUFFICES ASSUME NEW i \in 1..(k + 1)
                 PROVE  (IF i <= k THEN f[i] ELSE IF i = 1 THEN seqs[i] ELSE f[i-1] \o seqs[i]) \in Seq(X)
      OBVIOUS
    <3>1. seqs[i] \in Seq(X)
      OBVIOUS
    <3> QED BY <3>1
  <2>3. \A i \in 1..k : f[i] = IF i = 1 THEN seqs[i] ELSE f[i-1] \o seqs[i]
    BY <2>1, Zenon DEF IsFlatten
  <2>4. ASSUME NEW i \in 1..(k+1)
        PROVE  g[i] = IF i = 1 THEN seqs[i] ELSE g[i-1] \o seqs[i]
    <3>1. i # 1 => i - 1 \in 1..k /\ g[i-1] = f[i-1]
      OBVIOUS
    <3>2. CASE i \in 1..k
      <4>1. g[i] = f[i]
        BY <3>2
      <4> QED BY <2>3, <3>1, <3>2, <4>1
    <3>3. CASE i = k + 1
      <4>1. g[i] = IF i = 1 THEN seqs[i] ELSE f[i-1] \o seqs[i]
        BY <3>3
      <4> QED BY <3>1, <3>3, <4>1
    <3> QED BY <3>2, <3>3
  <2>5. IsFlatten(g, seqs, k + 1)
    BY <2>4 DEF IsFlatten
  <2> QED BY <2>2, <2>5
<1>3. S = Nat
  <2>1. S \subseteq Nat
    OBVIOUS
  <2> HIDE DEF S
  <2> QED BY <1>1, <1>2, <2>1, Induction
<1>4. n \in S
  BY <1>3
<1> QED BY <1>4

LEMMA FlattenSeqType ==
  ASSUME NEW X, NEW seqs \in Seq(Seq(X))
  PROVE  FlattenSeq(seqs) \in Seq(X)
<1> DEFINE n == Len(seqs)
<1>1. CASE n = 0
  BY <1>1 DEF FlattenSeq
<1>2. CASE n # 0
  <2> DEFINE f == CHOOSE f : IsFlatten(f, seqs, n)
  <2>1. IsFlatten(f, seqs, n)
    BY FlattenExists
  <2>2. FlattenSeq(seqs) = f[n]
    BY <1>2, Zenon DEF FlattenSeq, IsFlatten
  <2> HIDE DEF f
  <2>3. \A i \in 1..n : f[i] = IF i = 1 THEN seqs[i] ELSE f[i-1] \o seqs[i]
    BY <2>1, Zenon DEF IsFlatten
  <2> DEFINE S == {k \in Nat : k + 1 \in 1..n => f[k + 1] \in Seq(X)}
  <2>4. 0 \in S
    BY <2>3
  <2>5. ASSUME NEW k \in S PROVE k + 1 \in S
    <3> SUFFICES ASSUME k + 2 \in 1..n PROVE f[k + 2] \in Seq(X)
      OBVIOUS
    <3>1. f[k + 2] = f[k + 1] \o seqs[k + 2]
      <4>1. f[k + 2] = IF k + 2 = 1 THEN seqs[k + 2] ELSE f[(k + 2) - 1] \o seqs[k + 2]
        BY <2>3
      <4>2. (k + 2) - 1 = k + 1 /\ k + 2 # 1
        OBVIOUS
      <4> QED BY <4>1, <4>2
    <3>2. f[k + 1] \in Seq(X) /\ seqs[k + 2] \in Seq(X)
      OBVIOUS
    <3> QED BY <3>1, <3>2
  <2>6. S = Nat
    <3>1. S \subseteq Nat
      OBVIOUS
    <3> HIDE DEF S
    <3> QED BY <2>4, <2>5, <3>1, Induction
  <2>7. n \in Nat /\ n - 1 \in Nat /\ (n - 1) + 1 = n /\ n \in 1..n
    BY <1>2
  <2>8. n - 1 \in S
    <3> HIDE DEF S, n
    <3> QED BY <2>6, <2>7
  <2> QED BY <2>2, <2>7, <2>8
<1> QED BY <1>1, <1>2

-------------------------------------------------------------------------------
\* The rules of a document that loads: the user's, then the packs'.

LEMMA RulesAreList ==
  ASSUME NEW doc \in Docs, Loads(doc)
  PROVE  /\ Len(doc.rules) \in Nat /\ DOMAIN doc.rules = 1..Len(doc.rules)
         /\ Len(PackRules(doc)) \in Nat /\ DOMAIN PackRules(doc) = 1..Len(PackRules(doc))
         /\ Len(Rules(doc)) = Len(doc.rules) + Len(PackRules(doc))
         /\ DOMAIN Rules(doc) = 1..Len(Rules(doc))
         /\ \A i \in 1..Len(doc.rules) : Rules(doc)[i] = LoadedRule(doc.rules[i])
         /\ \A i \in 1..Len(PackRules(doc)) :
              Rules(doc)[Len(doc.rules) + i] = LoadedRule(PackRules(doc)[i])
         /\ \A i \in DOMAIN PackRules(doc) : {"name", "action"} \subseteq DOMAIN PackRules(doc)[i]
<1> DEFINE X == Range(doc.rules) \cup UNION {Range(Packs[k]) : k \in DOMAIN Packs}
           packs == [i \in DOMAIN doc.defaults |-> Packs[doc.defaults[i]]]
<1>1. doc.rules \in Seq(X)
  <2>1. doc.rules \in Seq(Range(doc.rules))
    BY ListsAssumption DEF IsList, AreRules
  <2> QED BY <2>1
<1>2. \A k \in DOMAIN Packs : Packs[k] \in Seq(X)
  <2> SUFFICES ASSUME NEW k \in DOMAIN Packs PROVE Packs[k] \in Seq(X)
    OBVIOUS
  <2>1. Packs[k] \in Seq(Range(Packs[k])) /\ Range(Packs[k]) \subseteq X
    BY ListsAssumption DEF IsList, AreRules
  <2> HIDE DEF X
  <2> QED BY <2>1
<1>3. \A rule \in X : {"name", "action"} \subseteq DOMAIN rule
  BY ListsAssumption DEF AreRules, Range
<1>4. doc.defaults \in Seq(Range(doc.defaults))
  BY ListsAssumption DEF IsList
<1> HIDE DEF X
<1>5. packs \in Seq(Seq(X))
  BY <1>2, <1>4 DEF Loads
<1>6. PackRules(doc) \in Seq(X)
  BY <1>5, FlattenSeqType DEF PackRules
<1>7. /\ Combined(doc) \in Seq(X)
      /\ Len(Combined(doc)) = Len(doc.rules) + Len(PackRules(doc))
      /\ \A i \in 1..Len(doc.rules) : Combined(doc)[i] = doc.rules[i]
      /\ \A i \in 1..Len(PackRules(doc)) : Combined(doc)[Len(doc.rules) + i] = PackRules(doc)[i]
  BY <1>1, <1>6 DEF Combined
<1>8. /\ DOMAIN Rules(doc) = 1..Len(Combined(doc)) /\ Len(Rules(doc)) = Len(Combined(doc))
      /\ \A i \in 1..Len(Combined(doc)) : Rules(doc)[i] = LoadedRule(Combined(doc)[i])
  BY <1>7 DEF Rules
<1>9. /\ Len(doc.rules) \in Nat /\ DOMAIN doc.rules = 1..Len(doc.rules)
      /\ Len(PackRules(doc)) \in Nat /\ DOMAIN PackRules(doc) = 1..Len(PackRules(doc))
  BY <1>1, <1>6
<1>10. /\ \A i \in 1..Len(doc.rules) : i \in 1..Len(Combined(doc))
      /\ \A i \in 1..Len(PackRules(doc)) : Len(doc.rules) + i \in 1..Len(Combined(doc))
  BY <1>7, <1>9
<1>11. \A i \in DOMAIN PackRules(doc) : PackRules(doc)[i] \in X
  BY <1>6
<1> QED BY <1>3, <1>7, <1>8, <1>9, <1>10, <1>11

LEMMA ToolsAreList ==
  ASSUME NEW m \in Messages
  PROVE  /\ m.tools \in Seq(Tools) /\ Given(m) \subseteq ToolNames
         /\ \A i \in DOMAIN m.tools :
              /\ m.tools[i] \in Tools /\ m.tools[i].definition # NoDefinition
              /\ m.tools[i].name # NoName => m.tools[i].name \in Given(m)
<1>1. m.tools \in Seq(Range(m.tools)) /\ Range(m.tools) \subseteq Tools
  BY ListsAssumption DEF IsList, Tools
<1>2. m.tools \in Seq(Tools)
  BY <1>1
<1>3. \A i \in DOMAIN m.tools : m.tools[i].definition # NoDefinition
  BY ListsAssumption
<1>4. Given(m) \subseteq ToolNames
  BY DEF ToolNames
<1> QED BY <1>2, <1>3, <1>4 DEF Given
-------------------------------------------------------------------------------
\* What a step of one handler leaves alone, and how an evaluation comes to its rules.

Places == {"idle", "scan", "compare", "persist", "decide"}
OnlyOne(h) ==
  /\ at' \in [Handlers -> Places] /\ eval' = [g \in Handlers |-> eval'[g]]
  /\ \A g \in Handlers \ {h} : at'[g] = at[g] /\ eval'[g] = eval[g]

\* An evaluation between two rules: none of those before e.rule fires.
Between(e) ==
  /\ Shape(e) /\ e.msg \in Messages /\ e.doc \in Docs /\ Loads(e.doc)
  /\ e.rule \in 1..(Len(Rules(e.doc)) + 1) /\ e.missed \subseteq 1..(e.rule - 1)
  /\ \A i \in 1..(e.rule - 1) : Matches(Rules(e.doc)[i], e.msg) => i \in e.missed

LEMMA EnterResult ==
  ASSUME PlaceInv, NEW h \in Handlers, NEW e, NEW field \in {"content", "score", "none"},
         Shape(e), Enter(h, e, field)
  PROVE  /\ OnlyOne(h) /\ Shape(eval'[h])
         /\ eval'[h].msg = e.msg /\ eval'[h].doc = e.doc /\ eval'[h].rule = e.rule
         /\ eval'[h].field = field /\ eval'[h].tool = 1 /\ eval'[h].found = {}
         /\ eval'[h].hits = e.hits /\ eval'[h].missed = e.missed
         /\ eval'[h].shown = e.shown /\ eval'[h].unused = e.unused
         /\ at'[h] = IF field = "none" THEN "decide"
                     ELSE IF Rules(e.doc)[e.rule][field] = Mutation THEN "compare" ELSE "scan"
<1> DEFINE new == [e EXCEPT !.field = field, !.tool = 1, !.found = {}]
<1>1. /\ new.msg = e.msg /\ new.doc = e.doc /\ new.rule = e.rule /\ new.field = field
      /\ new.tool = 1 /\ new.found = {} /\ new.hits = e.hits /\ new.missed = e.missed
      /\ new.shown = e.shown /\ new.unused = e.unused /\ Shape(new)
  BY DEF Shape, Fields
<1>2. eval' = [eval EXCEPT ![h] = new]
  BY DEF Enter
<1>3. at' = [at EXCEPT ![h] = IF field = "none" THEN "decide"
                              ELSE IF Rules(e.doc)[e.rule][field] = Mutation THEN "compare" ELSE "scan"]
  BY DEF Enter, Current, RulesOf, StateLoaded
<1> HIDE DEF new
<1>4. eval'[h] = new /\ OnlyOne(h)
  BY <1>2, <1>3 DEF PlaceInv, OnlyOne, Places
<1>5. at'[h] = IF field = "none" THEN "decide"
               ELSE IF Rules(e.doc)[e.rule][field] = Mutation THEN "compare" ELSE "scan"
  BY <1>3 DEF PlaceInv
<1> QED BY <1>1, <1>4, <1>5

\* A rule that is come to is asked content_matches first: it has shown nothing yet.
LEMMA WalkResult ==
  ASSUME PlaceInv, NEW h \in Handlers, NEW e, Between(e), e.hits = {}, Walk(h, e)
  PROVE  /\ OnlyOne(h) /\ Placed(at'[h], eval'[h]) /\ at'[h] \in {"scan", "compare", "decide"}
         /\ eval'[h].msg = e.msg /\ eval'[h].doc = e.doc /\ eval'[h].missed = e.missed
         /\ eval'[h].tool = 1 /\ eval'[h].found = {} /\ eval'[h].hits = {}
         /\ eval'[h].shown = e.shown /\ eval'[h].unused = e.unused
         /\ Passed(eval'[h]) => Asking(e) \cap e.missed # {}
<1> DEFINE rules == Rules(e.doc)
<1>1. /\ Len(rules) \in Nat /\ DOMAIN rules = 1..Len(rules)
  BY RulesAreList DEF Between
<1>2. ASSUME NEW r \in 1..(Len(rules) + 1), NEW field \in {"content", "score", "none"},
             Enter(h, [e EXCEPT !.rule = r], field), r >= e.rule,
             \A i \in e.rule..(r - 1) : ~Matches(rules[i], e.msg),
             r <= Len(rules) => Matches(rules[r], e.msg),
             field # "none" => r \in DOMAIN rules,
             field = "content" => rules[r].content # Absent,
             field # "content" /\ r \in DOMAIN rules => rules[r].content = Absent,
             field = "score" => rules[r].score # Absent
      PROVE  /\ OnlyOne(h) /\ Placed(at'[h], eval'[h]) /\ at'[h] \in {"scan", "compare", "decide"}
             /\ eval'[h].msg = e.msg /\ eval'[h].doc = e.doc /\ eval'[h].missed = e.missed
             /\ eval'[h].tool = 1 /\ eval'[h].found = {} /\ eval'[h].hits = {}
             /\ eval'[h].shown = e.shown /\ eval'[h].unused = e.unused
             /\ Passed(eval'[h]) => Asking(e) \cap e.missed # {}
    <2> DEFINE at0 == [e EXCEPT !.rule = r]
               new == eval'[h]
    <2>1. /\ Shape(at0) /\ at0.msg = e.msg /\ at0.doc = e.doc /\ at0.rule = r
          /\ at0.hits = {} /\ at0.missed = e.missed
          /\ at0.shown = e.shown /\ at0.unused = e.unused
      BY DEF Between, Shape, Fields
    <2> HIDE DEF at0
    <2>2. Enter(h, at0, field)
      BY <1>2 DEF at0
    <2>3. /\ OnlyOne(h) /\ Shape(new) /\ new.msg = e.msg /\ new.doc = e.doc /\ new.rule = r
          /\ new.field = field /\ new.tool = 1 /\ new.found = {} /\ new.hits = {}
          /\ new.missed = e.missed /\ new.shown = e.shown /\ new.unused = e.unused
          /\ at'[h] = IF field = "none" THEN "decide"
                      ELSE IF rules[r][field] = Mutation THEN "compare" ELSE "scan"
      BY <2>1, <2>2, EnterResult
    <2> HIDE DEF new
    <2>4. Walked(new)
      <3>1. e.missed \subseteq 1..(r - 1)
        BY <1>1, <1>2 DEF Between
      <3>2. ASSUME NEW i \in 1..(r - 1), Matches(rules[i], e.msg) PROVE i \in e.missed
        <4>1. i \notin e.rule..(r - 1)
          BY <1>2, <3>2
        <4>2. i \in 1..(e.rule - 1)
          BY <1>1, <1>2, <4>1 DEF Between
        <4> QED BY <3>2, <4>2 DEF Between
      <3> QED BY <1>2, <2>3, <3>1, <3>2 DEF Walked, Between
    <2>6. Len(e.msg.tools) \in Nat
      BY ToolsAreList DEF Between
    <2>7. Placed(at'[h], new)
      <3> HIDE DEF rules
      <3> QED BY <1>2, <2>3, <2>4, <2>6 DEF Placed, rules
    <2>8. Passed(new) => Asking(e) \cap e.missed # {}
      <3>1. Asking(new) = Asking(e)
        BY <2>3 DEF Asking
      <3>2. ~(r \in Asking(e) /\ field # "content")
        BY <1>2, AbsentAssumption DEF Asking, Mutation
      <3> QED BY <2>3, <3>1, <3>2 DEF Passed
    <2>9. at'[h] \in {"scan", "compare", "decide"}
      BY <2>3
    <2> QED BY <2>3, <2>7, <2>8, <2>9 DEF new
<1>3. CASE Matching(e) = {}
  <2>1. \A i \in e.rule..Len(rules) : ~Matches(rules[i], e.msg)
    BY <1>1, <1>3 DEF Matching, RulesOf, StateLoaded, Between
  <2>2. Enter(h, [e EXCEPT !.rule = Len(rules) + 1], "none")
    BY <1>3 DEF Walk, RulesOf, StateLoaded
  <2>3. Len(rules) + 1 \in 1..(Len(rules) + 1) /\ Len(rules) + 1 >= e.rule
    BY <1>1 DEF Between
  <2>4. (Len(rules) + 1) - 1 = Len(rules) /\ ~(Len(rules) + 1 <= Len(rules))
        /\ Len(rules) + 1 \notin DOMAIN rules
    BY <1>1
  <2> HIDE DEF rules
  <2> QED BY <1>2, <2>1, <2>2, <2>3, <2>4
<1>4. CASE Matching(e) # {}
  <2>1. PICK r \in Matching(e) :
          /\ \A j \in Matching(e) : r <= j
          /\ Enter(h, [e EXCEPT !.rule = r],
               IF rules[r].content # Absent THEN "content"
               ELSE IF rules[r].score # Absent THEN "score" ELSE "none")
    BY <1>4 DEF Walk, RulesOf, StateLoaded
  <2>2. r \in DOMAIN rules /\ r >= e.rule /\ Matches(rules[r], e.msg)
    BY DEF Matching, RulesOf, StateLoaded
  <2>3. ASSUME NEW i \in e.rule..(r - 1) PROVE ~Matches(rules[i], e.msg)
    <3>1. i \in DOMAIN rules /\ i >= e.rule /\ ~(r <= i)
      BY <1>1, <2>2 DEF Between
    <3> QED BY <2>1, <3>1 DEF Matching, RulesOf, StateLoaded
  <2>4. r \in 1..(Len(rules) + 1)
    BY <1>1, <2>2
  <2> DEFINE field == IF rules[r].content # Absent THEN "content"
                      ELSE IF rules[r].score # Absent THEN "score" ELSE "none"
  <2>5. /\ field \in {"content", "score", "none"}
        /\ field = "content" => rules[r].content # Absent
        /\ field # "content" => rules[r].content = Absent
        /\ field = "score" => rules[r].score # Absent
    OBVIOUS
  <2>6. Enter(h, [e EXCEPT !.rule = r], field)
    BY <2>1
  <2> HIDE DEF field, rules
  <2> QED BY <1>2, <2>2, <2>3, <2>4, <2>5, <2>6
<1> QED BY <1>3, <1>4
\* What a detector answers decides about the rule; a finding of the mutation detector is
\* kept.
LEMMA ConcludeResult ==
  ASSUME PlaceInv, NEW h \in Handlers, at[h] \in {"scan", "compare"}, NEW found,
         IF at[h] = "scan" THEN \A f \in found : f.detector # Mutation ELSE found = eval[h].found,
         Conclude(h, found)
  PROVE  /\ OnlyOne(h) /\ Placed(at'[h], eval'[h]) /\ at'[h] \in {"scan", "compare", "decide"}
         /\ eval'[h].msg = eval[h].msg /\ eval'[h].doc = eval[h].doc /\ eval'[h].tool = 1
         /\ eval'[h].shown = eval[h].shown
         /\ \A t : Tells(eval[h], t) => Tells(eval'[h], t)
         /\ Passed(eval'[h]) => Passed(eval[h]) \/ (at[h] = "compare" /\ eval[h].field = "content")
<1> DEFINE e == eval[h]
           new == eval'[h]
           rule == Rules(e.doc)[e.rule]
           enough == Enough(e, found)
<1>1. Placed(at[h], e)
  BY DEF PlaceInv
<1>2. /\ Shape(e) /\ Walked(e) /\ e.field \in {"content", "score"}
      /\ e.rule \in DOMAIN Rules(e.doc) /\ e.msg \in Messages /\ e.doc \in Docs /\ Loads(e.doc)
      /\ (at[h] = "scan") <=> (rule[e.field] # Mutation)
      /\ e.field = "score" => rule.score # Absent
  BY <1>1 DEF Placed, Walked
<1>3. /\ Len(Rules(e.doc)) \in Nat /\ DOMAIN Rules(e.doc) = 1..Len(Rules(e.doc))
  BY <1>2, RulesAreList
<1>4. enough \subseteq found
  BY DEF Enough
<1>5. \A f \in e.found : f \in found /\ f.detector = Mutation /\ f.score = 10
  BY <1>1 DEF Placed
<1> HIDE DEF e, enough
<1>6. CASE enough = {}
  <2> DEFINE at0 == [e EXCEPT !.rule = @ + 1, !.hits = {}, !.missed = @ \cup {e.rule},
                              !.unused = @ \cup e.hits \cup found]
  <2>1. Walk(h, at0)
    BY <1>6 DEF Conclude, e, enough
  <2>2. /\ Shape(at0) /\ at0.msg = e.msg /\ at0.doc = e.doc /\ at0.rule = e.rule + 1
        /\ at0.hits = {} /\ at0.missed = e.missed \cup {e.rule}
        /\ at0.shown = e.shown /\ at0.unused = e.unused \cup e.hits \cup found
    BY <1>2 DEF Shape, Fields
  <2> HIDE DEF at0
  <2>3. Between(at0)
    <3>1. at0.rule \in 1..(Len(Rules(at0.doc)) + 1) /\ at0.missed \subseteq 1..(at0.rule - 1)
      BY <1>2, <1>3, <2>2 DEF Walked
    <3>2. ASSUME NEW i \in 1..(at0.rule - 1), Matches(Rules(at0.doc)[i], at0.msg)
          PROVE  i \in at0.missed
      <4>1. i = e.rule \/ i \in 1..(e.rule - 1)
        BY <1>2, <1>3, <2>2
      <4> QED BY <1>2, <2>2, <3>2, <4>1 DEF Walked
    <3> QED BY <1>2, <2>2, <3>1, <3>2 DEF Between
  <2>4. /\ OnlyOne(h) /\ Placed(at'[h], new) /\ at'[h] \in {"scan", "compare", "decide"}
        /\ new.msg = e.msg /\ new.doc = e.doc /\ new.missed = e.missed \cup {e.rule}
        /\ new.tool = 1 /\ new.shown = e.shown /\ new.unused = at0.unused
        /\ Passed(new) => Asking(at0) \cap at0.missed # {}
    BY <2>1, <2>2, <2>3, WalkResult
  <2> HIDE DEF new
  <2>5. Asking(at0) = Asking(e)
    BY <2>2 DEF Asking
  <2>6. ASSUME NEW t, Tells(e, t) PROVE Tells(new, t)
    BY <1>5, <2>2, <2>4, <2>6 DEF Tells
  <2>8. ASSUME Passed(new) PROVE Passed(e) \/ (at[h] = "compare" /\ e.field = "content")
    <3>1. Asking(e) \cap (e.missed \cup {e.rule}) # {}
      BY <2>2, <2>4, <2>5, <2>8
    <3>2. CASE Asking(e) \cap e.missed # {}
      BY <3>2 DEF Passed
    <3>3. CASE e.rule \in Asking(e)
      <4>1. rule.content = Mutation
        BY <3>3 DEF Asking
      <4> QED BY <1>2, <3>3, <4>1 DEF Passed
    <3> QED BY <3>1, <3>2, <3>3
  <2> QED BY <2>4, <2>6, <2>8 DEF new, e
<1>7. CASE enough # {}
  <2> DEFINE at0 == [e EXCEPT !.hits = @ \cup enough]
             field == IF e.field = "content" /\ rule.score # Absent THEN "score" ELSE "none"
  <2>1. Enter(h, at0, field)
    BY <1>7 DEF Conclude, e, enough, Current, RulesOf, StateLoaded
  <2>2. /\ Shape(at0) /\ at0.msg = e.msg /\ at0.doc = e.doc /\ at0.rule = e.rule
        /\ at0.hits = e.hits \cup enough /\ at0.missed = e.missed
        /\ at0.shown = e.shown /\ at0.unused = e.unused
    BY <1>2 DEF Shape, Fields
  <2>3. /\ field \in {"content", "score", "none"} /\ field # "content"
        /\ field = "score" => e.field = "content" /\ rule.score # Absent
    OBVIOUS
  <2> HIDE DEF at0, field
  <2>4. /\ OnlyOne(h) /\ Shape(new) /\ new.msg = e.msg /\ new.doc = e.doc /\ new.rule = e.rule
        /\ new.field = field /\ new.tool = 1 /\ new.found = {} /\ new.hits = e.hits \cup enough
        /\ new.missed = e.missed /\ new.shown = e.shown /\ new.unused = e.unused
        /\ at'[h] = IF field = "none" THEN "decide"
                    ELSE IF Rules(at0.doc)[at0.rule][field] = Mutation THEN "compare" ELSE "scan"
    BY <2>1, <2>2, <2>3, EnterResult
  <2> HIDE DEF new
  <2>5. Walked(new)
    BY <1>2, <2>4 DEF Walked
  <2>7. Len(e.msg.tools) \in Nat
    BY <1>2, ToolsAreList
  <2>8. at'[h] \in {"scan", "compare", "decide"}
    BY <2>4
  <2>9. Placed(at'[h], new)
    BY <1>2, <2>2, <2>3, <2>4, <2>5, <2>7 DEF Placed
  <2>10. ASSUME NEW t, Tells(e, t) PROVE Tells(new, t)
    <3>1. PICK f \in e.hits \cup e.found \cup e.unused : f.detector = Mutation /\ f.match = t
      BY <2>10 DEF Tells
    <3>2. ASSUME f \in e.found PROVE f \in enough
      <4>1. at[h] = "compare"
        BY <1>1, <3>2 DEF Placed, e
      <4>2. found = e.found
        BY <4>1 DEF e
      <4>3. CASE e.field = "content"
        BY <3>2, <4>2, <4>3 DEF enough, Enough
      <4>4. CASE e.field # "content"
        <5>1. enough = {g \in found : g.score >= Current(e).threshold}
          BY <4>4 DEF enough, Enough
        <5>2. \A g \in found : g.score = f.score
          BY <1>5, <3>2, <4>2
        <5> QED BY <1>7, <3>2, <4>2, <5>1, <5>2
      <4> QED BY <4>3, <4>4
    <3> QED BY <2>4, <3>1, <3>2 DEF Tells
  <2>11. ASSUME Passed(new) PROVE Passed(e) \/ (at[h] = "compare" /\ e.field = "content")
    <3>1. Asking(new) = Asking(e)
      BY <2>4 DEF Asking
    <3>2. CASE Asking(e) \cap e.missed # {}
      BY <3>2 DEF Passed
    <3>3. CASE e.rule \in Asking(e)
      <4>1. rule.content = Mutation
        BY <3>3 DEF Asking
      <4> QED BY <1>2, <3>3, <4>1 DEF Passed
    <3> QED BY <2>4, <2>11, <3>1, <3>2, <3>3 DEF Passed
  <2> QED BY <2>4, <2>8, <2>9, <2>10, <2>11 DEF new, e
<1> QED BY <1>6, <1>7
-------------------------------------------------------------------------------
\* PlaceInv: the steps.

LEMMA OthersStay ==
  ASSUME PlaceInv, NEW h \in Handlers, OnlyOne(h), at'[h] # "idle" => Placed(at'[h], eval'[h]),
         at'[h] = "persist" => persistent, UNCHANGED <<persistent, active>>,
         seen' = [t \in ToolNames |-> seen'[t]], store' \in Seq(Tools),
         ~persistent => store' = << >>
  PROVE  PlaceInv'
<1>1. \A g \in Handlers : /\ at'[g] # "idle" => Placed(at'[g], eval'[g])
                          /\ at'[g] = "persist" => persistent
  BY DEF PlaceInv, OnlyOne
<1> QED BY <1>1 DEF PlaceInv, OnlyOne, Places

LEMMA BeginResult ==
  ASSUME PlaceInv, NEW h \in Handlers, NEW m \in Messages, Begin(h, m)
  PROVE  /\ OnlyOne(h) /\ Placed(at'[h], eval'[h]) /\ at'[h] \in {"scan", "compare", "decide"}
         /\ eval'[h].msg = m /\ eval'[h].shown = {} /\ Past(at'[h], eval'[h]) = {}
<1> DEFINE e == Fresh(m, active)
<1>1. Walk(h, e)
  BY DEF Begin
<1>2. /\ e.msg = m /\ e.doc = active /\ e.rule = 1 /\ e.hits = {} /\ e.missed = {} /\ Shape(e)
      /\ e.shown = {}
  BY DEF Fresh, Shape, Fields
<1> HIDE DEF e
<1>3. Between(e)
  <2>1. Len(Rules(active)) \in Nat
    BY RulesAreList DEF PlaceInv
  <2> QED BY <1>2, <2>1 DEF Between, PlaceInv
<1>4. /\ OnlyOne(h) /\ Placed(at'[h], eval'[h]) /\ at'[h] \in {"scan", "compare", "decide"}
      /\ eval'[h].msg = m /\ eval'[h].tool = 1 /\ eval'[h].shown = {} /\ ~Passed(eval'[h])
  BY <1>1, <1>2, <1>3, WalkResult
<1>5. DOMAIN m.tools = 1..Len(m.tools) /\ Len(m.tools) \in Nat
  BY ToolsAreList
<1> QED BY <1>4, <1>5 DEF Past

LEMMA ScanConcludes ==
  ASSUME PlaceInv, NEW h \in Handlers, Scan(h)
  PROVE  \E found : Conclude(h, found) /\ \A f \in found : f.detector # Mutation
<1> DEFINE detector == Current(eval[h])[eval[h].field]
<1>1. detector # Mutation
  BY DEF PlaceInv, Placed, Scan, Current, RulesOf, StateLoaded
<1> HIDE DEF detector
<1>2. \A f \in Findings(detector, eval[h].msg.text) : f.detector # Mutation
  BY <1>1 DEF Findings
<1>3. Conclude(h, Findings(detector, eval[h].msg.text)) \/ Conclude(h, {})
  BY DEF Scan, detector
<1>4. CASE Conclude(h, {})
  BY <1>4
<1> QED BY <1>2, <1>3, <1>4

\* The handler has been shown one more tool, which may have changed.
LEMMA CompareResult ==
  ASSUME PlaceInv, NEW h \in Handlers, Compare(h)
  PROVE  LET e == eval[h]
             t == e.msg.tools[e.tool]
         IN  /\ OnlyOne(h) /\ Placed(at'[h], eval'[h]) /\ at'[h] \in {"compare", "persist"}
             /\ at[h] = "compare" /\ e.tool \in DOMAIN e.msg.tools
             /\ at'[h] = "persist" => persistent
             /\ eval'[h].msg = e.msg /\ eval'[h].doc = e.doc /\ eval'[h].missed = e.missed
             /\ \A n : Tells(e, n) => Tells(eval'[h], n)
             /\ Past(at'[h], eval'[h]) = Past(at[h], e) \cup {e.tool}
             /\ IF t.name = NoName
                THEN /\ UNCHANGED <<seen, compared, cut>> /\ eval'[h].shown = e.shown
                     /\ at'[h] = "compare"
                ELSE /\ t.name \in ToolNames /\ seen' = [seen EXCEPT ![t.name] = t.definition]
                     /\ compared' = [compared EXCEPT ![t.name] = @ + 1]
                     /\ cut' = cut \cup ({t.name} \cap Pending)
                     /\ eval'[h].shown = e.shown \cup {[name |-> t.name, definition |-> t.definition,
                                                       n |-> compared[t.name] + 1]}
                     /\ seen[t.name] \notin {NoDefinition, t.definition} => Tells(eval'[h], t.name)
                     /\ persistent => at'[h] = "persist" /\ Tool(h)' = t
<1> DEFINE e == eval[h]
           new == eval'[h]
           t == e.msg.tools[e.tool]
<1>1. at[h] = "compare" /\ e.tool <= Len(e.msg.tools) /\ Placed("compare", e)
  BY DEF Compare, PlaceInv, ToolsLeft
<1>2. /\ Shape(e) /\ Walked(e) /\ e.msg \in Messages
      /\ e.field \in {"content", "score"} /\ e.rule \in DOMAIN Rules(e.doc)
      /\ Rules(e.doc)[e.rule][e.field] = Mutation
      /\ e.field = "score" => Rules(e.doc)[e.rule].score # Absent
      /\ e.tool \in 1..(Len(e.msg.tools) + 1)
      /\ \A f \in e.found : f.detector = Mutation /\ f.score = 10
  BY <1>1 DEF Placed, Walked
<1>3. /\ Len(e.msg.tools) \in Nat /\ DOMAIN e.msg.tools = 1..Len(e.msg.tools)
      /\ e.tool \in DOMAIN e.msg.tools /\ e.tool + 1 \in 1..(Len(e.msg.tools) + 1)
      /\ Given(e.msg) \subseteq ToolNames /\ (t.name # NoName => t.name \in Given(e.msg))
  <2>1. /\ e.msg.tools \in Seq(Tools) /\ Given(e.msg) \subseteq ToolNames
        /\ \A i \in DOMAIN e.msg.tools :
             e.msg.tools[i].name # NoName => e.msg.tools[i].name \in Given(e.msg)
    BY <1>2, ToolsAreList
  <2>2. e.tool \in 1..(Len(e.msg.tools) + 1) /\ e.tool <= Len(e.msg.tools)
    BY <1>1, <1>2
  <2>3. Len(e.msg.tools) \in Nat /\ DOMAIN e.msg.tools = 1..Len(e.msg.tools)
    <3>1. e.msg.tools \in Seq(Tools)
      BY <2>1
    <3> HIDE DEF e
    <3> QED
      BY <3>1
  <2>4. e.tool \in DOMAIN e.msg.tools /\ e.tool + 1 \in 1..(Len(e.msg.tools) + 1)
    BY <2>2, <2>3
  <2> QED
    BY <2>1, <2>3, <2>4
<1>4. Tool(h) = t
  BY DEF Tool
<1> HIDE DEF e
<1>5. CASE t.name = NoName
  <2>1. eval' = [eval EXCEPT ![h].tool = @ + 1] /\ UNCHANGED <<at, seen, compared, cut>>
    BY <1>4, <1>5 DEF Compare
  <2>2. /\ OnlyOne(h) /\ new = [e EXCEPT !.tool = @ + 1] /\ at'[h] = "compare"
    BY <1>1, <2>1 DEF PlaceInv, OnlyOne, Places, e
  <2>3. /\ Shape(new) /\ new.msg = e.msg /\ new.doc = e.doc /\ new.rule = e.rule
        /\ new.field = e.field /\ new.tool = e.tool + 1 /\ new.found = e.found
        /\ new.hits = e.hits /\ new.missed = e.missed /\ new.shown = e.shown
        /\ new.unused = e.unused
    BY <1>2, <2>2 DEF Shape, Fields
  <2> HIDE DEF new
  <2>4. Asking(new) = Asking(e)
    BY <2>3 DEF Asking
  <2>5. Walked(new)
    BY <1>2, <2>3 DEF Walked
  <2>6. Placed("compare", new)
    BY <1>2, <1>3, <2>3, <2>5 DEF Placed
  <2>7. Passed(new) = Passed(e) /\ \A n : Tells(e, n) => Tells(new, n)
    BY <2>3, <2>4 DEF Passed, Tells
  <2>8. Past("compare", new) = Past("compare", e) \cup {e.tool}
    BY <1>3, <2>3, <2>7 DEF Past
  <2> QED BY <1>1, <1>3, <1>5, <2>1, <2>2, <2>3, <2>6, <2>7, <2>8 DEF e, new
<1>6. CASE t.name # NoName
  <2> DEFINE found == IF Changed(t) THEN e.found \cup {Finding(t)} ELSE e.found
             tool == IF persistent THEN e.tool ELSE e.tool + 1
             u == [name |-> t.name, definition |-> t.definition, n |-> compared[t.name] + 1]
  <2>1. /\ seen' = [seen EXCEPT ![t.name] = t.definition]
        /\ compared' = [compared EXCEPT ![t.name] = @ + 1]
        /\ cut' = cut \cup ({t.name} \cap Pending)
        /\ eval' = [eval EXCEPT ![h].found = found, ![h].shown = @ \cup {u}, ![h].tool = tool]
        /\ at' = [at EXCEPT ![h] = IF persistent THEN "persist" ELSE @]
    BY <1>4, <1>6 DEF Compare, Remembered, e
  <2>2. /\ OnlyOne(h) /\ new = [e EXCEPT !.found = found, !.shown = @ \cup {u}, !.tool = tool]
        /\ at'[h] = IF persistent THEN "persist" ELSE "compare"
    BY <1>1, <2>1 DEF PlaceInv, OnlyOne, Places, e
  <2>3. /\ Shape(new) /\ new.msg = e.msg /\ new.doc = e.doc /\ new.rule = e.rule
        /\ new.field = e.field /\ new.tool = tool /\ new.found = found
        /\ new.hits = e.hits /\ new.missed = e.missed /\ new.shown = e.shown \cup {u}
        /\ new.unused = e.unused
    BY <1>2, <2>2 DEF Shape, Fields
  <2> HIDE DEF new, u
  <2>4. Asking(new) = Asking(e)
    BY <2>3 DEF Asking
  <2>5. /\ Finding(t).detector = Mutation /\ Finding(t).match = t.name /\ Finding(t).score = 10
    BY DEF Finding
  <2>6. /\ e.found \subseteq found /\ \A f \in found : f.detector = Mutation /\ f.score = 10
        /\ Changed(t) => Finding(t) \in found
    BY <1>2, <2>5
  <2> HIDE DEF found
  <2>7. Walked(new)
    BY <1>2, <2>3 DEF Walked
  <2>9. Placed(at'[h], new)
    BY <1>1, <1>2, <1>3, <1>6, <2>2, <2>3, <2>6, <2>7 DEF Placed
  <2>10. Passed(new) = Passed(e) /\ \A n : Tells(e, n) => Tells(new, n)
    BY <2>3, <2>4, <2>6 DEF Passed, Tells
  <2>11. Past(at'[h], new) = Past("compare", e) \cup {e.tool}
    BY <1>3, <2>2, <2>3, <2>10 DEF Past
  <2>12. Changed(t) => Tells(new, t.name)
    BY <2>3, <2>5, <2>6 DEF Tells
  <2>13. at'[h] \in {"compare", "persist"} /\ (at'[h] = "persist" => persistent)
    BY <2>2
  <2>14. persistent => at'[h] = "persist" /\ Tool(h)' = t
    BY <2>2, <2>3 DEF Tool, new
  <2> QED BY <1>1, <1>3, <1>6, <2>1, <2>2, <2>3, <2>9, <2>10, <2>11, <2>12, <2>13, <2>14
          DEF e, new, u, Changed
<1> QED BY <1>5, <1>6

LEMMA PersistResult ==
  ASSUME PlaceInv, NEW h \in Handlers, Persist(h)
  PROVE  LET e == eval[h]
             t == e.msg.tools[e.tool]
         IN  /\ OnlyOne(h) /\ Placed("compare", eval'[h]) /\ at'[h] = "compare"
             /\ at[h] = "persist" /\ persistent /\ e.tool \in DOMAIN e.msg.tools
             /\ \/ store' = Append(store, t) /\ cut' = cut
                \/ cut' = cut \cup {t.name} /\ store' = store
             /\ eval'[h].msg = e.msg /\ t \in Tools /\ Tool(h) = t /\ eval'[h].shown = e.shown
             /\ \A n : Tells(e, n) => Tells(eval'[h], n)
             /\ Past("compare", eval'[h]) = Past("persist", e)
<1> DEFINE e == eval[h]
           new == eval'[h]
           t == e.msg.tools[e.tool]
<1>1. at[h] = "persist" /\ Placed("persist", e) /\ persistent
  BY DEF Persist, PlaceInv
<1>2. /\ Shape(e) /\ Walked(e) /\ e.msg \in Messages
      /\ e.field \in {"content", "score"} /\ e.rule \in DOMAIN Rules(e.doc)
      /\ Rules(e.doc)[e.rule][e.field] = Mutation
      /\ e.field = "score" => Rules(e.doc)[e.rule].score # Absent
      /\ e.tool \in 1..(Len(e.msg.tools) + 1) /\ e.tool <= Len(e.msg.tools)
      /\ \A f \in e.found : f.detector = Mutation /\ f.score = 10
  BY <1>1 DEF Placed, Walked
<1>3. /\ Len(e.msg.tools) \in Nat /\ DOMAIN e.msg.tools = 1..Len(e.msg.tools)
      /\ e.tool \in DOMAIN e.msg.tools /\ e.tool + 1 \in 1..(Len(e.msg.tools) + 1)
      /\ t \in Tools
  BY <1>1, <1>2, ToolsAreList
<1>4. /\ \/ store' = Append(store, t) /\ cut' = cut
         \/ cut' = cut \cup {t.name} /\ store' = store
      /\ eval' = [eval EXCEPT ![h].tool = @ + 1] /\ at' = [at EXCEPT ![h] = "compare"]
  BY DEF Persist, Tool
<1>5. /\ OnlyOne(h) /\ new = [e EXCEPT !.tool = @ + 1] /\ at'[h] = "compare"
  BY <1>4 DEF PlaceInv, OnlyOne, Places
<1> HIDE DEF e
<1>6. /\ Shape(new) /\ new.msg = e.msg /\ new.doc = e.doc /\ new.rule = e.rule
      /\ new.field = e.field /\ new.tool = e.tool + 1 /\ new.found = e.found
      /\ new.hits = e.hits /\ new.missed = e.missed /\ new.shown = e.shown
      /\ new.unused = e.unused
  BY <1>2, <1>5 DEF Shape, Fields
<1> HIDE DEF new
<1>7. Asking(new) = Asking(e)
  BY <1>6 DEF Asking
<1>8. Walked(new)
  BY <1>2, <1>6 DEF Walked
<1>9. Placed("compare", new)
  BY <1>2, <1>3, <1>6, <1>8 DEF Placed
<1>10. Passed(new) = Passed(e) /\ \A n : Tells(e, n) => Tells(new, n)
  BY <1>6, <1>7 DEF Passed, Tells
<1>11. Past("compare", new) = Past("persist", e)
  <2> DEFINE all == DOMAIN e.msg.tools
  <2>1. /\ DOMAIN new.msg.tools = all /\ new.tool = e.tool + 1 /\ Passed(new) = Passed(e)
        /\ e.tool \in all /\ all \subseteq Int
    BY <1>3, <1>6, <1>10
  <2> HIDE DEF all
  <2>2. \A i \in all : i < new.tool <=> i < e.tool \/ i = e.tool
    <3> DEFINE k == e.tool
    <3>1. k \in Int /\ new.tool = k + 1
      BY <2>1
    <3> HIDE DEF k
    <3>2. \A i \in Int : i < k + 1 <=> i < k \/ i = k
      BY <3>1
    <3> QED BY <2>1, <3>1, <3>2 DEF k
  <2>3. Past("compare", new) = {i \in all : Passed(e) \/ i < new.tool}
    BY <2>1 DEF Past
  <2>4. Past("persist", e) = {i \in all : Passed(e) \/ i < e.tool \/ i = e.tool}
    BY DEF Past, all
  <2> QED BY <2>2, <2>3, <2>4
<1>12. Tool(h) = t
  BY DEF Tool, e
<1> QED BY <1>1, <1>3, <1>4, <1>5, <1>6, <1>9, <1>10, <1>11, <1>12 DEF e, new

LEMMA EndCompareResult ==
  ASSUME PlaceInv, NEW h \in Handlers, EndCompare(h)
  PROVE  /\ at[h] = "compare" /\ Conclude(h, eval[h].found)
         /\ Past("compare", eval[h]) = DOMAIN eval[h].msg.tools
<1>1. at[h] = "compare" /\ Conclude(h, eval[h].found) /\ ~(eval[h].tool <= Len(eval[h].msg.tools))
  BY DEF EndCompare, ToolsLeft
<1>2. eval[h].msg \in Messages /\ eval[h].tool \in 1..(Len(eval[h].msg.tools) + 1)
  BY <1>1 DEF PlaceInv, Placed, Walked
<1>3. /\ Len(eval[h].msg.tools) \in Nat
      /\ DOMAIN eval[h].msg.tools = 1..Len(eval[h].msg.tools)
  BY <1>2, ToolsAreList
<1> QED BY <1>1, <1>2, <1>3 DEF Past

LEMMA DecideResult ==
  ASSUME PlaceInv, NEW h \in Handlers, Decide(h)
  PROVE  LET e == eval[h]
         IN  /\ OnlyOne(h) /\ at[h] = "decide" /\ at'[h] = "idle"
             /\ \E d : /\ done' = done \cup {d}
                       /\ d.msg = e.msg /\ d.doc = e.doc /\ d.rule = e.rule /\ d.missed = e.missed
                       /\ d.hits = e.hits /\ d.found = e.found /\ d.unused = e.unused
                       /\ d.shown = e.shown
                       /\ IF e.rule > Len(Rules(e.doc))
                          THEN d.by = AllowAll.name /\ d.action = AllowAll.action
                          ELSE /\ d.by = Rules(e.doc)[e.rule].name
                               /\ d.action = Rules(e.doc)[e.rule].action
                       /\ d.action = "redact" /\ ~d.blind =>
                            \E words \in Orders(Matched(e.msg.text, DOMAIN Knows)) :
                              d.out = Redacted(e.msg.text, words)
<1> DEFINE e == eval[h]
           rule == IF e.rule > Len(Rules(e.doc)) THEN AllowAll ELSE Rules(e.doc)[e.rule]
<1>1. at[h] = "decide" /\ Shape(e)
  BY DEF Decide, PlaceInv, Placed
<1>2. PICK answering \in SUBSET DOMAIN Knows :
        \E words \in Orders(Matched(e.msg.text, answering)) :
          done' = done \cup
            {[e EXCEPT !.action = rule.action, !.by = rule.name,
                       !.out = CASE rule.action = "deny" -> << >>
                                 [] rule.action = "redact" -> Redacted(e.msg.text, words)
                                 [] OTHER -> e.msg.text,
                       !.blind = answering # DOMAIN Knows]}
  BY Zenon DEF Decide, Current, RulesOf, StateLoaded
<1>3. PICK words \in Orders(Matched(e.msg.text, answering)) :
        done' = done \cup
          {[e EXCEPT !.action = rule.action, !.by = rule.name,
                     !.out = CASE rule.action = "deny" -> << >>
                               [] rule.action = "redact" -> Redacted(e.msg.text, words)
                               [] OTHER -> e.msg.text,
                     !.blind = answering # DOMAIN Knows]}
  BY <1>2, Zenon
<1> DEFINE out == CASE rule.action = "deny" -> << >>
                    [] rule.action = "redact" -> Redacted(e.msg.text, words)
                    [] OTHER -> e.msg.text
           blind == answering # DOMAIN Knows
           d == [e EXCEPT !.action = rule.action, !.by = rule.name, !.out = out, !.blind = blind]
<1>4. done' = done \cup {d}
  BY <1>3
<1>5. /\ at' = [at EXCEPT ![h] = "idle"] /\ eval' = [eval EXCEPT ![h] = Nothing]
  BY DEF Decide
<1>6. OnlyOne(h) /\ at'[h] = "idle"
  BY <1>5 DEF PlaceInv, OnlyOne, Places
<1>7. /\ rule.action = "redact" => out = Redacted(e.msg.text, words)
      /\ ~blind => answering = DOMAIN Knows
  OBVIOUS
<1> HIDE DEF e, rule, out, blind
<1>8. /\ d.msg = e.msg /\ d.doc = e.doc /\ d.rule = e.rule /\ d.missed = e.missed
      /\ d.hits = e.hits /\ d.found = e.found /\ d.unused = e.unused /\ d.shown = e.shown
      /\ d.by = rule.name /\ d.action = rule.action
      /\ d.out = out /\ d.blind = blind
  BY <1>1 DEF Shape, Fields
<1> HIDE DEF d
<1> QED BY <1>1, <1>4, <1>6, <1>7, <1>8 DEF e, rule

LEMMA PlaceStep == PlaceInv /\ [Next]_vars => PlaceInv'
<1> SUFFICES ASSUME PlaceInv, [Next]_vars PROVE PlaceInv'
  OBVIOUS
<1>1. ASSUME NEW h \in Handlers, NEW m \in Messages, Begin(h, m) PROVE PlaceInv'
  <2>1. UNCHANGED <<persistent, active, seen, store>>
    BY <1>1 DEF Begin, detectorVars
  <2>2. OnlyOne(h) /\ Placed(at'[h], eval'[h]) /\ at'[h] # "persist"
    BY <1>1, BeginResult
  <2> QED BY <2>1, <2>2, OthersStay DEF PlaceInv
<1>2. ASSUME NEW h \in Handlers, Scan(h) PROVE PlaceInv'
  <2>1. UNCHANGED <<persistent, active, seen, store>> /\ at[h] = "scan"
    BY <1>2 DEF Scan, engineVars, detectorVars
  <2>2. OnlyOne(h) /\ Placed(at'[h], eval'[h]) /\ at'[h] # "persist"
    <3>1. PICK found : Conclude(h, found) /\ \A f \in found : f.detector # Mutation
      BY <1>2, ScanConcludes
    <3> QED BY <2>1, <3>1, ConcludeResult
  <2> QED BY <2>1, <2>2, OthersStay DEF PlaceInv
<1>3. ASSUME NEW h \in Handlers, Compare(h) PROVE PlaceInv'
  <2>1. UNCHANGED <<persistent, active, store>>
    BY <1>3 DEF Compare, engineVars
  <2>2. /\ OnlyOne(h) /\ Placed(at'[h], eval'[h]) /\ (at'[h] = "persist" => persistent)
        /\ seen' = [t \in ToolNames |-> seen'[t]]
    BY <1>3, CompareResult DEF PlaceInv
  <2> QED BY <2>1, <2>2, OthersStay DEF PlaceInv
<1>4. ASSUME NEW h \in Handlers, Persist(h) PROVE PlaceInv'
  <2>1. UNCHANGED <<persistent, active, seen>>
    BY <1>4 DEF Persist, engineVars
  <2> DEFINE t == eval[h].msg.tools[eval[h].tool]
  <2>2. /\ OnlyOne(h) /\ Placed(at'[h], eval'[h]) /\ at'[h] # "persist" /\ persistent
        /\ store' \in {store, Append(store, t)} /\ t \in Tools
    BY <1>4, PersistResult
  <2> HIDE DEF t
  <2>3. store' \in Seq(Tools)
    <3>1. store \in Seq(Tools)
      BY DEF PlaceInv
    <3>2. Append(store, t) \in Seq(Tools)
      BY <2>2, <3>1
    <3> QED BY <2>2, <3>1, <3>2
  <2> QED BY <2>1, <2>2, <2>3, OthersStay DEF PlaceInv
<1>5. ASSUME NEW h \in Handlers, EndCompare(h) PROVE PlaceInv'
  <2>1. UNCHANGED <<persistent, active, seen, store>>
    BY <1>5 DEF EndCompare, engineVars, detectorVars
  <2>2. OnlyOne(h) /\ Placed(at'[h], eval'[h]) /\ at'[h] # "persist"
    BY <1>5, EndCompareResult, ConcludeResult
  <2> QED BY <2>1, <2>2, OthersStay DEF PlaceInv
<1>6. ASSUME NEW h \in Handlers, Decide(h) PROVE PlaceInv'
  <2>1. UNCHANGED <<persistent, active, seen, store>>
    BY <1>6 DEF Decide, engineVars, detectorVars
  <2>2. OnlyOne(h) /\ at'[h] = "idle"
    BY <1>6, DecideResult
  <2> QED BY <2>1, <2>2, OthersStay DEF PlaceInv
<1>7. ASSUME NEW doc \in Docs, Reload(doc) PROVE PlaceInv'
  BY <1>7 DEF Reload, PlaceInv, detectorVars
<1>8. ASSUME Restart PROVE PlaceInv'
  <2>1. /\ UNCHANGED <<persistent, active, store>> /\ at' = [g \in Handlers |-> "idle"]
        /\ eval' = [g \in Handlers |-> Nothing] /\ seen' = [t \in ToolNames |-> seen'[t]]
    BY <1>8 DEF Restart, PlaceInv
  <2> QED BY <2>1 DEF PlaceInv
<1>9. ASSUME UNCHANGED vars PROVE PlaceInv'
  BY <1>9 DEF vars, PlaceInv
<1> QED
  BY <1>1, <1>2, <1>3, <1>4, <1>5, <1>6, <1>7, <1>8, <1>9 DEF Next, HandlerStep

-------------------------------------------------------------------------------
\* The decision.

LEMMA VerdictIs ==
  ASSUME NEW e, Walked(e)
  PROVE  IF e.rule > Len(Rules(e.doc))
         THEN Verdict(e) = AllowAll
         ELSE /\ Verdict(e).name = Rules(e.doc)[e.rule].name
              /\ Verdict(e).action = Rules(e.doc)[e.rule].action
<1> DEFINE own == e.doc.rules
           packs == PackRules(e.doc)
           n == Len(own)
           fires(i) == Matches(Rules(e.doc)[i], e.msg) /\ i \notin e.missed
<1>1. /\ n \in Nat /\ DOMAIN own = 1..n /\ Len(packs) \in Nat /\ DOMAIN packs = 1..Len(packs)
      /\ Len(Rules(e.doc)) = n + Len(packs)
      /\ \A i \in 1..n : Rules(e.doc)[i] = LoadedRule(own[i])
      /\ \A i \in 1..Len(packs) : Rules(e.doc)[n + i] = LoadedRule(packs[i])
  BY RulesAreList DEF Walked
<1>2. /\ e.rule \in 1..(n + Len(packs) + 1)
      /\ \A i \in 1..(e.rule - 1) : ~fires(i)
      /\ e.rule <= n + Len(packs) => fires(e.rule)
  <2>1. /\ e.rule \in 1..(n + Len(packs) + 1) /\ e.missed \subseteq 1..(e.rule - 1)
        /\ \A i \in 1..(e.rule - 1) : Matches(Rules(e.doc)[i], e.msg) => i \in e.missed
        /\ e.rule <= n + Len(packs) => Matches(Rules(e.doc)[e.rule], e.msg)
    <3> HIDE DEF n, packs
    <3> QED BY <1>1 DEF Walked
  <2>2. e.rule \notin 1..(e.rule - 1)
    <3> HIDE DEF n, packs
    <3> QED BY <2>1, <1>1
  <2> HIDE DEF n, packs
  <2> QED BY <2>1, <2>2
<1>3. Firing(e, own, 0) = {i \in 1..n : fires(i)}
  <2>1. \A i \in 1..n : 0 + i = i
    BY <1>1
  <2> QED BY <1>1, <2>1 DEF Firing
<1>4. Firing(e, packs, n) = {i \in 1..Len(packs) : fires(n + i)}
  BY <1>1 DEF Firing
<1>5. /\ \A i \in DOMAIN own : LoadedRule(own[i]).name = own[i].name /\ LoadedRule(own[i]).action = own[i].action
  BY ListsAssumption DEF Walked, AreRules, LoadedRule
<1>6. \A i \in DOMAIN packs : LoadedRule(packs[i]).name = packs[i].name /\ LoadedRule(packs[i]).action = packs[i].action
  <2>1. \A i \in DOMAIN packs : {"name", "action"} \subseteq DOMAIN packs[i]
    BY RulesAreList DEF Walked
  <2> QED BY <2>1 DEF LoadedRule
<1> HIDE DEF own, packs, n, fires
<1>7. CASE e.rule > n + Len(packs)
  <2>1. Firing(e, own, 0) = {} /\ Firing(e, packs, n) = {}
    BY <1>1, <1>2, <1>3, <1>4, <1>7
  <2>2. Verdict(e) = AllowAll
    BY <2>1 DEF Verdict, own, packs, n
  <2> QED BY <1>1, <1>7, <2>2
<1>8. CASE e.rule \in 1..n
  <2>1. /\ e.rule \in Firing(e, own, 0) /\ \A j \in Firing(e, own, 0) : e.rule <= j
    BY <1>1, <1>2, <1>3, <1>8
  <2>2. \A i \in Firing(e, own, 0) : (\A j \in Firing(e, own, 0) : i <= j) => i = e.rule
    BY <1>1, <1>3, <2>1
  <2>3. First(e, own, 0) = own[e.rule]
    <3>1. (CHOOSE i \in Firing(e, own, 0) : \A j \in Firing(e, own, 0) : i <= j) = e.rule
      BY <2>1, <2>2
    <3> QED BY <3>1 DEF First
  <2>4. Verdict(e) = own[e.rule]
    BY <2>1, <2>3 DEF Verdict, own
  <2>5. Rules(e.doc)[e.rule] = LoadedRule(own[e.rule]) /\ e.rule \in DOMAIN own
    BY <1>1, <1>8
  <2>6. ~(e.rule > Len(Rules(e.doc)))
    BY <1>1, <1>8
  <2> QED BY <1>5, <2>4, <2>5, <2>6
<1>9. CASE e.rule \in (n + 1)..(n + Len(packs))
  <2> DEFINE k == e.rule - n
  <2>0. k \in 1..Len(packs) /\ n + k = e.rule
    BY <1>1, <1>9
  <2> HIDE DEF k
  <2>1. Firing(e, own, 0) = {}
    BY <1>1, <1>2, <1>3, <1>9
  <2>2. k \in Firing(e, packs, n) /\ \A j \in Firing(e, packs, n) : k <= j
    BY <1>1, <1>2, <1>4, <1>9, <2>0
  <2>3. \A i \in Firing(e, packs, n) : (\A j \in Firing(e, packs, n) : i <= j) => i = k
    BY <1>1, <1>4, <2>2
  <2>4. First(e, packs, n) = packs[k]
    <3>1. (CHOOSE i \in Firing(e, packs, n) : \A j \in Firing(e, packs, n) : i <= j) = k
      BY <2>2, <2>3
    <3> QED BY <3>1 DEF First
  <2>5. Verdict(e) = packs[k]
    BY <2>1, <2>2, <2>4 DEF Verdict, own, packs, n
  <2>6. Rules(e.doc)[e.rule] = LoadedRule(packs[k]) /\ k \in DOMAIN packs
    BY <1>1, <2>0
  <2>7. ~(e.rule > Len(Rules(e.doc)))
    BY <1>1, <1>9
  <2> QED BY <1>6, <2>5, <2>6, <2>7
<1> QED BY <1>1, <1>2, <1>7, <1>8, <1>9

LEMMA DecidedStep == PlaceInv /\ DoneInv /\ DecidedByOnePolicy /\ [Next]_vars =>
                       DoneInv' /\ DecidedByOnePolicy'
<1> SUFFICES ASSUME PlaceInv, DoneInv, DecidedByOnePolicy, [Next]_vars
             PROVE  DoneInv' /\ DecidedByOnePolicy'
  OBVIOUS
<1>1. CASE done' \subseteq done
  BY <1>1 DEF DoneInv, DecidedByOnePolicy
<1>2. ASSUME NEW h \in Handlers, Decide(h) PROVE DoneInv' /\ DecidedByOnePolicy'
  <2> DEFINE e == eval[h]
  <2>1. PICK d : /\ done' = done \cup {d} /\ at[h] = "decide"
                 /\ d.msg = e.msg /\ d.doc = e.doc /\ d.rule = e.rule /\ d.missed = e.missed
                 /\ IF e.rule > Len(Rules(e.doc))
                    THEN d.by = AllowAll.name /\ d.action = AllowAll.action
                    ELSE /\ d.by = Rules(e.doc)[e.rule].name
                         /\ d.action = Rules(e.doc)[e.rule].action
    BY <1>2, DecideResult
  <2>2. Walked(e) /\ e.msg \in Messages
    BY <2>1 DEF PlaceInv, Placed, Walked
  <2>3. Verdict(d) = Verdict(e)
    BY <2>1 DEF Verdict, First, Firing
  <2>4. d.by = Verdict(d).name /\ d.action = Verdict(d).action
    BY <2>1, <2>2, <2>3, VerdictIs
  <2> QED BY <2>1, <2>2, <2>4 DEF DoneInv, DecidedByOnePolicy
<1> QED
  BY <1>1, <1>2 DEF Next, HandlerStep, Begin, Scan, Compare, Persist, EndCompare, Reload,
     Restart, vars

LEMMA RedactedStep == PlaceInv /\ RedactedInv /\ [Next]_vars => RedactedInv'
<1> SUFFICES ASSUME PlaceInv, RedactedInv, [Next]_vars PROVE RedactedInv'
  OBVIOUS
<1>1. CASE done' \subseteq done
  BY <1>1 DEF RedactedInv
<1>2. ASSUME NEW h \in Handlers, Decide(h) PROVE RedactedInv'
  <2>1. PICK d : /\ done' = done \cup {d} /\ d.msg = eval[h].msg
                 /\ d.action = "redact" /\ ~d.blind =>
                      \E words \in Orders(Matched(eval[h].msg.text, DOMAIN Knows)) :
                        d.out = Redacted(eval[h].msg.text, words)
    BY <1>2, DecideResult
  <2> QED BY <2>1 DEF RedactedInv
<1> QED
  BY <1>1, <1>2 DEF Next, HandlerStep, Begin, Scan, Compare, Persist, EndCompare, Reload,
     Restart, vars

-------------------------------------------------------------------------------
\* The history of the comparisons: the steps.

\* A handler goes on with its evaluation, or decides: what it has shown and found is kept.
Continues(h) ==
  /\ OnlyOne(h) /\ done \subseteq done' /\ UNCHANGED <<forgotten, lost>>
  /\ at[h] # "idle" => \E e \in Evaluations' :
       eval[h].shown \subseteq e.shown /\ \A t : Tells(eval[h], t) => Tells(e, t)

LEMMA ToldIsKept ==
  ASSUME NEW h \in Handlers, Continues(h)
  PROVE  Accounted \subseteq Accounted'
<1>1. ASSUME NEW e \in Evaluations
      PROVE  \E d \in Evaluations' : e.shown \subseteq d.shown /\ \A t : Tells(e, t) => Tells(d, t)
  <2>1. CASE e \in done
    BY <2>1 DEF Continues, Evaluations
  <2>2. ASSUME NEW g \in Handlers, at[g] # "idle", e = eval[g]
        PROVE  \E d \in Evaluations' : e.shown \subseteq d.shown /\ \A t : Tells(e, t) => Tells(d, t)
    <3>1. CASE g = h
      BY <2>2, <3>1 DEF Continues
    <3>2. CASE g # h
      <4>1. at'[g] # "idle" /\ eval'[g] = e
        BY <2>2, <3>2 DEF Continues, OnlyOne
      <4> QED BY <4>1 DEF Evaluations
    <3> QED BY <3>1, <3>2
  <2> QED BY <2>1, <2>2 DEF Evaluations
<1>2. ASSUME NEW p \in Told PROVE p \in Told'
  <2>0. PICK e \in Evaluations : \E c \in e.shown : Tells(e, c.name) /\ p = <<c.name, c.n>>
    BY DEF Told
  <2>1. PICK c \in e.shown : Tells(e, c.name) /\ p = <<c.name, c.n>>
    BY <2>0
  <2>2. PICK d \in Evaluations' : c \in d.shown /\ Tells(d, c.name)
    BY <1>1, <2>1
  <2>3. c \in UNION {{s \in f.shown : Tells(f, s.name)} : f \in Evaluations'}
    BY <2>2
  <2> QED BY <2>1, <2>3 DEF Told
<1>3. (Unheard \cup forgotten)' = Unheard \cup forgotten
  BY DEF Unheard, Continues
<1> QED BY <1>2, <1>3 DEF Accounted

\* A step in which the detector is shown nothing.
LEMMA HistoryKept ==
  ASSUME HistoryInv, Accounted \subseteq Accounted', Comparisons' \subseteq Comparisons,
         UNCHANGED <<seen, compared>>
  PROVE  HistoryInv'
<1>1. \A s \in Comparisons' : s.definition # seen[s.name] =>
        \E k \in (s.n + 1)..compared[s.name] : <<s.name, k>> \in Accounted'
  BY DEF HistoryInv
<1>2. ASSUME NEW s \in Comparisons', NEW t \in Comparisons',
             s.name = t.name, s.definition # t.definition, s.n < t.n
      PROVE  \E k \in (s.n + 1)..t.n : <<s.name, k>> \in Accounted'
  <2>1. \E k \in (s.n + 1)..t.n : <<s.name, k>> \in Accounted
    BY <1>2 DEF HistoryInv, ToldUnless, Accounted
  <2> QED BY <2>1
<1>3. ToldUnless(Unheard \cup forgotten)'
  BY <1>2 DEF ToldUnless, Accounted
<1> QED BY <1>1, <1>3 DEF HistoryInv

LEMMA NothingShown ==
  ASSUME HistoryInv, NEW h \in Handlers, Continues(h), done' = done, UNCHANGED <<seen, compared>>,
         at'[h] # "idle" => eval'[h].shown = IF at[h] = "idle" THEN {} ELSE eval[h].shown
  PROVE  HistoryInv'
<1>1. ASSUME NEW s \in Comparisons' PROVE s \in Comparisons
  <2>1. PICK e \in Evaluations' : s \in e.shown
    BY DEF Comparisons
  <2>2. CASE e \in done
    BY <2>1, <2>2 DEF Comparisons, Evaluations
  <2>3. ASSUME NEW g \in Handlers, at'[g] # "idle", e = eval'[g] PROVE s \in Comparisons
    <3>1. at[g] # "idle" /\ s \in eval[g].shown
      BY <2>1, <2>3 DEF Continues, OnlyOne
    <3> QED BY <3>1 DEF Comparisons, Evaluations
  <2> QED BY <2>1, <2>2, <2>3 DEF Evaluations
<1> QED BY <1>1, ToldIsKept, HistoryKept

\* A comparison finds the definition that was shown last, or what came between is
\* accounted for.
LEMMA HistoryCompare ==
  ASSUME PlaceInv, HistoryInv, NEW h \in Handlers, Compare(h)
  PROVE  HistoryInv'
<1> DEFINE e == eval[h]
           new == eval'[h]
           t == e.msg.tools[e.tool]
<1>1. /\ OnlyOne(h) /\ at[h] = "compare" /\ at'[h] \in {"compare", "persist"}
      /\ \A n : Tells(e, n) => Tells(new, n)
  BY CompareResult
<1>2. UNCHANGED <<done, forgotten, lost>>
  BY DEF Compare
<1>3. CASE t.name = NoName
  <2>1. UNCHANGED <<seen, compared>> /\ new.shown = e.shown
    BY <1>3, CompareResult
  <2>2. Continues(h)
    BY <1>1, <1>2, <2>1 DEF Continues, Evaluations
  <2> QED BY <1>1, <1>2, <2>1, <2>2, NothingShown
<1>4. CASE t.name # NoName
  <2> DEFINE u == [name |-> t.name, definition |-> t.definition, n |-> compared[t.name] + 1]
  <2>1. /\ t.name \in ToolNames /\ seen' = [seen EXCEPT ![t.name] = t.definition]
        /\ compared' = [compared EXCEPT ![t.name] = @ + 1]
        /\ new.shown = e.shown \cup {u}
        /\ seen[t.name] \notin {NoDefinition, t.definition} => Tells(new, t.name)
        /\ e.tool \in DOMAIN e.msg.tools
    BY <1>4, CompareResult
  <2>2. t.definition # NoDefinition
    <3>1. e.msg \in Messages
      BY <1>1 DEF PlaceInv, Placed, Walked
    <3> QED BY <2>1, <3>1, ListsAssumption
  <2>3. /\ u.name = t.name /\ u.definition = t.definition /\ u.n = compared[t.name] + 1
        /\ compared[t.name] \in Nat /\ compared'[t.name] = compared[t.name] + 1
        /\ seen'[t.name] = t.definition
        /\ \A n \in ToolNames \ {t.name} : seen'[n] = seen[n] /\ compared'[n] = compared[n]
        /\ compared' \in [ToolNames -> Nat]
    <3>1. /\ compared \in [ToolNames -> Nat] /\ seen = [n \in ToolNames |-> seen[n]]
      BY DEF HistoryInv, PlaceInv
    <3>2. /\ compared'[t.name] = compared[t.name] + 1
          /\ \A n \in ToolNames \ {t.name} : compared'[n] = compared[n]
          /\ compared' \in [ToolNames -> Nat]
      <4> HIDE DEF t
      <4> QED BY <2>1, <3>1
    <3>3. seen'[t.name] = t.definition /\ \A n \in ToolNames \ {t.name} : seen'[n] = seen[n]
      <4> HIDE DEF t
      <4> QED BY <2>1, <3>1
    <3> QED BY <2>1, <3>1, <3>2, <3>3
  <2>4. Continues(h)
    BY <1>1, <1>2, <2>1 DEF Continues, Evaluations
  <2>5. Accounted \subseteq Accounted'
    BY <2>4, ToldIsKept
  <2> HIDE DEF u, e, new, t
  <2>6. ASSUME NEW s \in Comparisons' PROVE s \in Comparisons \/ s = u
    <3>1. PICK d \in Evaluations' : s \in d.shown
      BY DEF Comparisons
    <3>2. CASE d \in done
      BY <3>1, <3>2 DEF Comparisons, Evaluations
    <3>3. ASSUME NEW g \in Handlers, at'[g] # "idle", d = eval'[g] PROVE s \in Comparisons \/ s = u
      <4>1. CASE g = h
        <5>1. s \in e.shown \/ s = u
          BY <2>1, <3>1, <3>3, <4>1 DEF new
        <5> QED BY <1>1, <5>1 DEF Comparisons, Evaluations, e
      <4>2. CASE g # h
        <5>1. at[g] # "idle" /\ eval[g] = d
          BY <1>1, <3>3, <4>2 DEF OnlyOne
        <5> QED BY <3>1, <5>1 DEF Comparisons, Evaluations
      <4> QED BY <4>1, <4>2
    <3> QED BY <1>2, <3>1, <3>2, <3>3 DEF Evaluations
  <2>7. \A s \in Comparisons :
          s.name \in ToolNames /\ s.definition # NoDefinition /\ s.n \in 1..compared[s.name]
    BY DEF HistoryInv
  <2>8. Tells(new, t.name) => <<t.name, u.n>> \in Accounted'
    <3>1. new \in Evaluations' /\ u \in new.shown
      BY <1>1, <2>1 DEF Evaluations, new
    <3>2. ASSUME Tells(new, t.name) PROVE <<u.name, u.n>> \in Told'
      <4>1. u \in UNION {{c \in f.shown : Tells(f, c.name)} : f \in Evaluations'}
        BY <2>3, <3>1, <3>2
      <4> QED BY <4>1 DEF Told
    <3> QED BY <2>3, <3>2 DEF Accounted
  <2>9. ASSUME NEW s \in Comparisons, s.name = t.name, s.definition # t.definition
        PROVE  \E k \in (s.n + 1)..u.n : <<s.name, k>> \in Accounted'
    <3>1. s.n \in 1..compared[t.name] /\ s.definition # NoDefinition
      BY <2>7, <2>9
    <3>2. CASE seen[t.name] = s.definition
      <4>1. u.n \in (s.n + 1)..u.n
        BY <2>3, <3>1
      <4> QED BY <2>1, <2>8, <2>9, <3>1, <3>2, <4>1
    <3>3. CASE seen[t.name] # s.definition
      <4>1. PICK k \in (s.n + 1)..compared[t.name] : <<s.name, k>> \in Accounted
        BY <2>9, <3>3 DEF HistoryInv
      <4>2. k \in (s.n + 1)..u.n
        BY <2>3, <3>1, <4>1
      <4> QED BY <2>5, <4>1, <4>2
    <3> QED BY <3>2, <3>3
  <2>10. ASSUME NEW s \in Comparisons'
         PROVE  s.name \in ToolNames /\ s.definition # NoDefinition /\ s.n \in 1..compared'[s.name]
    <3>1. CASE s = u
      BY <2>1, <2>2, <2>3, <3>1
    <3>2. CASE s \in Comparisons
      <4>1. compared[s.name] \in Nat /\ s.n \in 1..compared[s.name] /\ s.name \in ToolNames
        BY <2>7, <3>2 DEF HistoryInv
      <4>2. compared'[s.name] \in {compared[s.name], compared[s.name] + 1}
        BY <2>3, <4>1
      <4> QED BY <2>7, <3>2, <4>1, <4>2
    <3> QED BY <2>6, <3>1, <3>2
  <2>11. ASSUME NEW s \in Comparisons', s.definition # seen'[s.name]
         PROVE  \E k \in (s.n + 1)..compared'[s.name] : <<s.name, k>> \in Accounted'
    <3>1. s # u
      BY <2>3, <2>11
    <3>2. s \in Comparisons
      BY <2>6, <3>1
    <3>3. CASE s.name = t.name
      BY <2>3, <2>9, <2>11, <3>2, <3>3
    <3>4. CASE s.name # t.name
      <4>1. s.name \in ToolNames \ {t.name}
        BY <2>7, <3>2, <3>4
      <4>2. PICK k \in (s.n + 1)..compared[s.name] : <<s.name, k>> \in Accounted
        BY <2>3, <2>11, <3>2, <4>1 DEF HistoryInv
      <4> QED BY <2>3, <2>5, <4>1, <4>2
    <3> QED BY <3>3, <3>4
  <2>12. ASSUME NEW r \in Comparisons', NEW s \in Comparisons',
                r.name = s.name, r.definition # s.definition, r.n < s.n
         PROVE  \E k \in (r.n + 1)..s.n : <<r.name, k>> \in Accounted'
    <3>1. CASE r = u
      <4>1. s \in Comparisons /\ s.name = t.name
        BY <2>3, <2>6, <2>12, <3>1
      <4>2. s.n \in 1..compared[t.name]
        BY <2>7, <4>1
      <4> QED BY <2>3, <2>12, <3>1, <4>2
    <3>2. CASE r \in Comparisons /\ s = u
      BY <2>3, <2>9, <2>12, <3>2
    <3>3. CASE r \in Comparisons /\ s \in Comparisons
      <4>1. \E k \in (r.n + 1)..s.n : <<r.name, k>> \in Accounted
        BY <2>12, <3>3 DEF HistoryInv, ToldUnless, Accounted
      <4> QED BY <2>5, <4>1
    <3> QED BY <2>6, <3>1, <3>2, <3>3
  <2>13. ToldUnless(Unheard \cup forgotten)'
    BY <2>12 DEF ToldUnless, Accounted
  <2> QED BY <2>3, <2>10, <2>11, <2>13 DEF HistoryInv
<1> QED BY <1>3, <1>4

\* A decision tells all that its evaluation has found, and has shown no more.
LEMMA HistoryDecide ==
  ASSUME PlaceInv, HistoryInv, NEW h \in Handlers, Decide(h)
  PROVE  HistoryInv'
<1> DEFINE e == eval[h]
<1>1. PICK d : /\ OnlyOne(h) /\ at[h] = "decide" /\ at'[h] = "idle" /\ done' = done \cup {d}
               /\ d.hits = e.hits /\ d.found = e.found /\ d.unused = e.unused /\ d.shown = e.shown
  BY DecideResult
<1>2. UNCHANGED <<seen, compared, forgotten, lost>>
  BY DEF Decide, detectorVars
<1>3. \A t : Tells(e, t) => Tells(d, t)
  BY <1>1 DEF Tells
<1>4. Continues(h)
  BY <1>1, <1>2, <1>3 DEF Continues, Evaluations
<1>5. ASSUME NEW s \in Comparisons' PROVE s \in Comparisons
  <2>1. PICK f \in Evaluations' : s \in f.shown
    BY DEF Comparisons
  <2>2. CASE f \in done
    BY <2>1, <2>2 DEF Comparisons, Evaluations
  <2>3. CASE f = d
    BY <1>1, <2>1, <2>3 DEF Comparisons, Evaluations
  <2>4. ASSUME NEW g \in Handlers, at'[g] # "idle", f = eval'[g] PROVE s \in Comparisons
    <3>1. at[g] # "idle" /\ eval[g] = f
      BY <1>1, <2>4 DEF OnlyOne
    <3> QED BY <2>1, <3>1 DEF Comparisons, Evaluations
  <2> QED BY <1>1, <2>1, <2>2, <2>3, <2>4 DEF Evaluations
<1> QED BY <1>2, <1>4, <1>5, ToldIsKept, HistoryKept

\* A restart gives each tool back as it was remembered, or counts as a gap.
LEMMA HistoryRestart ==
  ASSUME PlaceInv, HistoryInv, StoreInv, Restart
  PROVE  HistoryInv'
<1>1. /\ at' = [h \in Handlers |-> "idle"]
      /\ seen' = [t \in ToolNames |-> IF persistent THEN LastOf(t) ELSE NoDefinition]
      /\ compared' = [t \in ToolNames |-> compared[t] + IF t \in Forgettable THEN 1 ELSE 0]
      /\ forgotten' = forgotten \cup {<<t, compared[t] + 1>> : t \in Forgettable}
      /\ lost' = lost \cup UNION {eval[h].shown : h \in {g \in Handlers : at[g] # "idle"}}
      /\ done' = done
  BY DEF Restart
<1>2. Evaluations' = done
  BY <1>1 DEF Evaluations
<1>3. Comparisons' \subseteq Comparisons
  BY <1>2 DEF Comparisons, Evaluations
<1>4. ASSUME NEW p \in Accounted PROVE p \in Accounted'
  <2>1. CASE p \in Told
    <3>0. PICK e \in Evaluations : \E c \in e.shown : Tells(e, c.name) /\ p = <<c.name, c.n>>
      BY <2>1 DEF Told
    <3>1. PICK c \in e.shown : Tells(e, c.name) /\ p = <<c.name, c.n>>
      BY <3>0
    <3>2. CASE e \in done
      <4>1. c \in UNION {{s \in f.shown : Tells(f, s.name)} : f \in Evaluations'}
        BY <1>2, <3>1, <3>2
      <4> QED BY <3>1, <4>1 DEF Told, Accounted
    <3>3. CASE e \notin done
      <4>1. c \in lost'
        BY <1>1, <3>1, <3>3 DEF Evaluations
      <4> QED BY <3>1, <4>1 DEF Unheard, Accounted
    <3> QED BY <3>2, <3>3
  <2>2. CASE p \in Unheard
    BY <1>1, <2>2 DEF Unheard, Accounted
  <2>3. CASE p \in forgotten
    BY <1>1, <2>3 DEF Accounted
  <2> QED BY <2>1, <2>2, <2>3 DEF Accounted
<1>5. ASSUME NEW t \in ToolNames
      PROVE  /\ compared[t] \in Nat /\ compared'[t] \in Nat /\ compared[t] <= compared'[t]
             /\ t \in Forgettable => compared'[t] = compared[t] + 1
             /\ t \notin Forgettable => compared'[t] = compared[t]
  <2>1. compared[t] \in Nat
    BY DEF HistoryInv
  <2>2. compared'[t] = compared[t] + IF t \in Forgettable THEN 1 ELSE 0
    BY <1>1
  <2>3. CASE t \in Forgettable
    BY <2>1, <2>2, <2>3
  <2>4. CASE t \notin Forgettable
    BY <2>1, <2>2, <2>4
  <2> QED BY <2>3, <2>4
<1>6. compared' \in [ToolNames -> Nat]
  <2>1. compared' = [t \in ToolNames |-> compared'[t]]
    BY <1>1
  <2> QED BY <1>5, <2>1
<1>7. ASSUME NEW t \in ToolNames
       PROVE  IF t \in Forgettable THEN <<t, compared'[t]>> \in Accounted' ELSE seen'[t] = seen[t]
  <2>1. CASE t \in Forgettable
    <3>1. <<t, compared[t] + 1>> \in forgotten'
      BY <1>1, <2>1
    <3> QED BY <1>5, <2>1, <3>1 DEF Accounted
  <2>2. CASE t \notin Forgettable
    <3>1. persistent /\ t \notin cut /\ t \notin Pending
      BY <2>2 DEF Forgettable
    <3> QED BY <1>1, <2>2, <3>1 DEF StoreInv
  <2> QED BY <2>1, <2>2
<1>8. ASSUME NEW s \in Comparisons'
      PROVE  s.name \in ToolNames /\ s.definition # NoDefinition /\ s.n \in 1..compared'[s.name]
  <2>1. s.name \in ToolNames /\ s.definition # NoDefinition /\ s.n \in 1..compared[s.name]
    BY <1>3 DEF HistoryInv
  <2> QED BY <1>5, <2>1
<1>9. ASSUME NEW s \in Comparisons', s.definition # seen'[s.name]
      PROVE  \E k \in (s.n + 1)..compared'[s.name] : <<s.name, k>> \in Accounted'
  <2>1. s.name \in ToolNames /\ s.n \in 1..compared[s.name] /\ compared[s.name] \in Nat
    BY <1>3 DEF HistoryInv
  <2>2. CASE s.name \in Forgettable
    <3>1. compared'[s.name] \in (s.n + 1)..compared'[s.name]
      BY <1>5, <2>1, <2>2
    <3> QED BY <1>7, <2>1, <2>2, <3>1
  <2>3. CASE s.name \notin Forgettable
    <3>1. PICK k \in (s.n + 1)..compared[s.name] : <<s.name, k>> \in Accounted
      BY <1>3, <1>7, <1>9, <2>1, <2>3 DEF HistoryInv
    <3>2. k \in (s.n + 1)..compared'[s.name]
      BY <1>5, <2>1, <3>1
    <3> QED BY <1>4, <3>1, <3>2
  <2> QED BY <2>2, <2>3
<1>10. ASSUME NEW s \in Comparisons', NEW t \in Comparisons',
             s.name = t.name, s.definition # t.definition, s.n < t.n
      PROVE  \E k \in (s.n + 1)..t.n : <<s.name, k>> \in Accounted'
  <2>1. \E k \in (s.n + 1)..t.n : <<s.name, k>> \in Accounted
    BY <1>3, <1>10 DEF HistoryInv, ToldUnless, Accounted
  <2> QED BY <1>4, <2>1
<1>11. ToldUnless(Unheard \cup forgotten)'
  BY <1>10 DEF ToldUnless, Accounted
<1> QED BY <1>6, <1>8, <1>9, <1>11 DEF HistoryInv

LEMMA HistoryStep == PlaceInv /\ HistoryInv /\ StoreInv /\ [Next]_vars => HistoryInv'
<1> SUFFICES ASSUME PlaceInv, HistoryInv, StoreInv, [Next]_vars PROVE HistoryInv'
  OBVIOUS
<1>1. ASSUME NEW h \in Handlers, NEW m \in Messages, Begin(h, m) PROVE HistoryInv'
  <2>1. OnlyOne(h) /\ at[h] = "idle" /\ eval'[h].shown = {}
    BY <1>1, BeginResult DEF Begin
  <2>2. UNCHANGED <<seen, compared, forgotten, lost, done>>
    BY <1>1 DEF Begin, detectorVars
  <2>3. Continues(h)
    BY <2>1, <2>2 DEF Continues
  <2> QED BY <2>1, <2>2, <2>3, NothingShown
<1>2. ASSUME NEW h \in Handlers, NEW found, Conclude(h, found), at[h] \in {"scan", "compare"},
             IF at[h] = "scan" THEN \A f \in found : f.detector # Mutation ELSE found = eval[h].found,
             UNCHANGED <<seen, compared, forgotten, lost, done>>
      PROVE  HistoryInv'
  <2>1. /\ OnlyOne(h) /\ at'[h] \in {"scan", "compare", "decide"} /\ eval'[h].shown = eval[h].shown
        /\ \A t : Tells(eval[h], t) => Tells(eval'[h], t)
    BY <1>2, ConcludeResult
  <2>2. Continues(h)
    BY <1>2, <2>1 DEF Continues, Evaluations
  <2> QED BY <1>2, <2>1, <2>2, NothingShown
<1>3. ASSUME NEW h \in Handlers, Scan(h) PROVE HistoryInv'
  <2>1. PICK found : Conclude(h, found) /\ \A f \in found : f.detector # Mutation
    BY <1>3, ScanConcludes
  <2>2. UNCHANGED <<seen, compared, forgotten, lost, done>> /\ at[h] = "scan"
    BY <1>3 DEF Scan, detectorVars
  <2> QED BY <1>2, <2>1, <2>2
<1>4. ASSUME NEW h \in Handlers, Compare(h) PROVE HistoryInv'
  BY <1>4, HistoryCompare
<1>5. ASSUME NEW h \in Handlers, Persist(h) PROVE HistoryInv'
  <2>1. /\ OnlyOne(h) /\ at[h] = "persist" /\ at'[h] = "compare" /\ eval'[h].shown = eval[h].shown
        /\ \A t : Tells(eval[h], t) => Tells(eval'[h], t)
    BY <1>5, PersistResult
  <2>2. UNCHANGED <<seen, compared, forgotten, lost, done>>
    BY <1>5 DEF Persist
  <2>3. Continues(h)
    BY <2>1, <2>2 DEF Continues, Evaluations
  <2> QED BY <2>1, <2>2, <2>3, NothingShown
<1>6. ASSUME NEW h \in Handlers, EndCompare(h) PROVE HistoryInv'
  <2>1. UNCHANGED <<seen, compared, forgotten, lost, done>>
    BY <1>6 DEF EndCompare, detectorVars
  <2> QED BY <1>2, <1>6, <2>1, EndCompareResult
<1>7. ASSUME NEW h \in Handlers, Decide(h) PROVE HistoryInv'
  BY <1>7, HistoryDecide
<1>8. CASE Restart
  BY <1>8, HistoryRestart
<1>9. CASE UNCHANGED <<at, eval, seen, done, compared, forgotten, lost>>
  BY <1>9 DEF HistoryInv, Comparisons, Evaluations, Accounted, Told, Unheard, ToldUnless
<1> QED
  BY <1>1, <1>3, <1>4, <1>5, <1>6, <1>7, <1>8, <1>9 DEF Next, HandlerStep, Reload, detectorVars,
     vars

-------------------------------------------------------------------------------
\* The records of the detector: the steps.

LastIn(records, t) ==
  IF \E i \in DOMAIN records : records[i].name = t
  THEN records[CHOOSE i \in DOMAIN records : records[i].name = t /\
                 \A j \in DOMAIN records : records[j].name = t => j <= i].definition
  ELSE NoDefinition

LEMMA LastInIs ==
  ASSUME NEW records \in Seq(Tools), NEW t, NEW i \in DOMAIN records, records[i].name = t,
         \A j \in DOMAIN records : records[j].name = t => j <= i
  PROVE  LastIn(records, t) = records[i].definition
<1> DEFINE P(k) == records[k].name = t /\ \A j \in DOMAIN records : records[j].name = t => j <= k
           last == CHOOSE k \in DOMAIN records : P(k)
<1>1. P(i)
  OBVIOUS
<1>2. last \in DOMAIN records /\ P(last)
  <2> HIDE DEF P
  <2> QED BY <1>1
<1>3. LastIn(records, t) = records[last].definition
  BY DEF LastIn
<1> HIDE DEF last
<1>4. last = i
  <2>1. last <= i /\ i <= last /\ last \in Int /\ i \in Int
    BY <1>1, <1>2
  <2> QED BY <2>1
<1> QED BY <1>3, <1>4

LEMMA LastAppended ==
  ASSUME NEW records \in Seq(Tools), NEW r \in Tools, NEW t
  PROVE  LastIn(Append(records, r), t) = IF r.name = t THEN r.definition ELSE LastIn(records, t)
<1> DEFINE more == Append(records, r)
           n == Len(records)
<1>1. /\ more \in Seq(Tools) /\ n \in Nat /\ DOMAIN records = 1..n /\ DOMAIN more = 1..(n + 1)
      /\ more[n + 1] = r /\ \A i \in 1..n : more[i] = records[i]
  OBVIOUS
<1> HIDE DEF more, n
<1>2. CASE r.name = t
  <2>1. n + 1 \in DOMAIN more /\ \A j \in DOMAIN more : j <= n + 1
    BY <1>1
  <2> QED BY <1>1, <1>2, <2>1, LastInIs DEF more
<1>3. CASE r.name # t /\ ~\E i \in DOMAIN records : records[i].name = t
  <2>1. ~\E i \in DOMAIN more : more[i].name = t
    <3>1. \A i \in 1..(n + 1) : i \in 1..n \/ i = n + 1
      BY <1>1
    <3> QED BY <1>1, <1>3, <3>1
  <2> QED BY <1>3, <2>1 DEF LastIn, more
<1>4. CASE r.name # t /\ \E i \in DOMAIN records : records[i].name = t
  <2> DEFINE named == {i \in DOMAIN records : records[i].name = t}
             left == {n - i : i \in named}
  <2>1. left \subseteq Nat /\ left # {}
    BY <1>1, <1>4
  <2>2. PICK k \in left : \A j \in left : k <= j
    <3> HIDE DEF left
    <3> QED BY <2>1, LeastNumber
  <2>3. PICK i \in named : k = n - i
    OBVIOUS
  <2>4. \A j \in named : j <= i
    <3> SUFFICES ASSUME NEW j \in named PROVE j <= i
      OBVIOUS
    <3>1. k <= n - j
      BY <2>2
    <3> QED BY <1>1, <2>3, <3>1
  <2>5. LastIn(records, t) = records[i].definition
    BY <2>4, LastInIs
  <2>6. i \in DOMAIN more /\ more[i] = records[i]
    BY <1>1
  <2>7. ASSUME NEW j \in DOMAIN more, more[j].name = t PROVE j <= i
    <3>1. j \in 1..n
      BY <1>1, <1>4, <2>7
    <3> QED BY <1>1, <2>4, <2>7, <3>1
  <2>8. LastIn(more, t) = more[i].definition
    BY <1>1, <2>6, <2>7, LastInIs
  <2> QED BY <1>4, <2>5, <2>6, <2>8 DEF more
<1> QED BY <1>2, <1>3, <1>4

\* Handlers that have no record to write do not change what is to be written.
LEMMA StoreKept ==
  ASSUME StoreInv, NEW h \in Handlers, OnlyOne(h), at[h] # "persist", at'[h] # "persist",
         UNCHANGED <<persistent, seen, store, cut>>
  PROVE  StoreInv'
<1>1. \A g \in Handlers : at'[g] = "persist" => at[g] = "persist" /\ Tool(g)' = Tool(g)
  BY DEF OnlyOne, Tool
<1>2. \A g \in Handlers : at[g] = "persist" => at'[g] = "persist" /\ Tool(g)' = Tool(g)
  BY DEF OnlyOne, Tool
<1>3. Pending' = Pending
  BY <1>1, <1>2 DEF Pending
<1>4. \A t : LastOf(t)' = LastOf(t)
  BY DEF LastOf
<1> QED BY <1>1, <1>3, <1>4 DEF StoreInv

LEMMA StoreCompare ==
  ASSUME PlaceInv, StoreInv, NEW h \in Handlers, Compare(h)
  PROVE  StoreInv'
<1> DEFINE t == eval[h].msg.tools[eval[h].tool]
<1>1. OnlyOne(h) /\ at[h] = "compare" /\ UNCHANGED <<persistent, store>>
  BY CompareResult DEF Compare, engineVars
<1>2. CASE t.name = NoName
  <2>1. UNCHANGED <<seen, cut>> /\ at'[h] = "compare"
    BY <1>2, CompareResult
  <2> QED BY <1>1, <2>1, StoreKept
<1>3. CASE t.name # NoName /\ ~persistent
  BY <1>1, <1>3 DEF StoreInv
<1>4. CASE t.name # NoName /\ persistent
  <2>1. /\ t.name \in ToolNames /\ seen' = [seen EXCEPT ![t.name] = t.definition]
        /\ cut' = cut \cup ({t.name} \cap Pending)
        /\ at'[h] = "persist" /\ Tool(h)' = t
    BY <1>4, CompareResult
  <2>2. /\ seen'[t.name] = t.definition
        /\ \A n \in ToolNames \ {t.name} : seen'[n] = seen[n]
    BY <2>1 DEF PlaceInv
  <2> HIDE DEF t
  <2>3. \A g \in Handlers \ {h} : at'[g] = at[g] /\ Tool(g)' = Tool(g)
    BY <1>1 DEF OnlyOne, Tool
  <2> SUFFICES ASSUME NEW n \in ToolNames \ cut'
               PROVE  /\ n \notin Pending' => LastOf(n)' = seen'[n]
                      /\ \A g \in Handlers : at'[g] = "persist" /\ Tool(g)'.name = n =>
                           Tool(g)'.definition = seen'[n]
    BY DEF StoreInv
  <2>4. n \notin cut /\ LastOf(n)' = LastOf(n)
    BY <1>1, <2>1 DEF LastOf
  <2>5. CASE n = t.name
    <3>1. n \in Pending'
      BY <2>1, <2>5 DEF Pending
    <3>2. n \notin Pending
      BY <2>1, <2>5
    <3>3. \A g \in Handlers : at'[g] = "persist" /\ Tool(g)'.name = n => g = h
      BY <2>3, <3>2 DEF Pending
    <3> QED BY <2>1, <2>2, <2>5, <3>1, <3>3
  <2>6. CASE n # t.name
    <3>1. n \notin Pending' => n \notin Pending
      BY <1>1, <2>3 DEF Pending
    <3>2. seen'[n] = seen[n]
      BY <2>2, <2>6
    <3>3. \A g \in Handlers : at'[g] = "persist" /\ Tool(g)'.name = n =>
            at[g] = "persist" /\ Tool(g)' = Tool(g)
      BY <2>1, <2>3, <2>6
    <3> QED BY <1>4, <2>4, <3>1, <3>2, <3>3 DEF StoreInv
  <2> QED BY <2>5, <2>6
<1> QED BY <1>2, <1>3, <1>4

LEMMA StorePersist ==
  ASSUME PlaceInv, StoreInv, NEW h \in Handlers, Persist(h)
  PROVE  StoreInv'
<1> DEFINE t == eval[h].msg.tools[eval[h].tool]
<1>1. /\ OnlyOne(h) /\ at[h] = "persist" /\ at'[h] = "compare" /\ persistent
      /\ \/ store' = Append(store, t) /\ cut' = cut
         \/ cut' = cut \cup {t.name} /\ store' = store
      /\ t \in Tools /\ Tool(h) = t
  BY PersistResult
<1>2. UNCHANGED <<persistent, seen>> /\ store \in Seq(Tools)
  BY DEF Persist, engineVars, PlaceInv
<1> HIDE DEF t
<1>3. \A g \in Handlers \ {h} : at'[g] = at[g] /\ Tool(g)' = Tool(g)
  BY <1>1 DEF OnlyOne, Tool
<1> SUFFICES ASSUME NEW n \in ToolNames \ cut'
             PROVE  /\ n \notin Pending' => LastOf(n)' = seen[n]
                    /\ \A g \in Handlers : at'[g] = "persist" /\ Tool(g)'.name = n =>
                         Tool(g)'.definition = seen[n]
  BY <1>2 DEF StoreInv
<1>4. /\ n \notin cut
      /\ n \notin Pending => LastOf(n) = seen[n]
      /\ \A g \in Handlers : at[g] = "persist" /\ Tool(g).name = n => Tool(g).definition = seen[n]
  BY <1>1 DEF StoreInv
<1>5. \A g \in Handlers : at'[g] = "persist" /\ Tool(g)'.name = n => Tool(g)'.definition = seen[n]
  BY <1>1, <1>3, <1>4
<1>6. n \notin Pending' /\ n # t.name => n \notin Pending
  BY <1>1, <1>3 DEF Pending
<1>7. CASE store' = store /\ cut' = cut \cup {t.name}
  <2>1. LastOf(n)' = LastOf(n) /\ n # t.name
    BY <1>7 DEF LastOf
  <2> QED BY <1>4, <1>5, <1>6, <2>1
<1>8. CASE store' = Append(store, t)
  <2>1. LastOf(n) = LastIn(store, n) /\ LastOf(n)' = LastIn(store', n)
    BY DEF LastOf, LastIn
  <2>2. LastOf(n)' = IF t.name = n THEN t.definition ELSE LastOf(n)
    BY <1>1, <1>2, <1>8, <2>1, LastAppended
  <2> QED BY <1>1, <1>4, <1>5, <1>6, <2>2
<1> QED BY <1>1, <1>7, <1>8

LEMMA StoreStep == PlaceInv /\ StoreInv /\ [Next]_vars => StoreInv'
<1> SUFFICES ASSUME PlaceInv, StoreInv, [Next]_vars PROVE StoreInv'
  OBVIOUS
<1>1. ASSUME NEW h \in Handlers, NEW m \in Messages, Begin(h, m) PROVE StoreInv'
  <2>1. OnlyOne(h) /\ at[h] = "idle" /\ at'[h] \in {"scan", "compare", "decide"}
    BY <1>1, BeginResult DEF Begin
  <2>2. UNCHANGED <<persistent, seen, store, cut>>
    BY <1>1 DEF Begin, detectorVars
  <2> QED BY <2>1, <2>2, StoreKept
<1>2. ASSUME NEW h \in Handlers, Scan(h) PROVE StoreInv'
  <2>1. PICK found : Conclude(h, found) /\ \A f \in found : f.detector # Mutation
    BY <1>2, ScanConcludes
  <2>2. UNCHANGED <<persistent, seen, store, cut>> /\ at[h] = "scan"
    BY <1>2 DEF Scan, engineVars, detectorVars
  <2> QED BY <2>1, <2>2, ConcludeResult, StoreKept
<1>3. ASSUME NEW h \in Handlers, EndCompare(h) PROVE StoreInv'
  <2>1. UNCHANGED <<persistent, seen, store, cut>>
    BY <1>3 DEF EndCompare, engineVars, detectorVars
  <2> QED BY <1>3, <2>1, EndCompareResult, ConcludeResult, StoreKept
<1>4. ASSUME NEW h \in Handlers, Decide(h) PROVE StoreInv'
  <2>1. UNCHANGED <<persistent, seen, store, cut>>
    BY <1>4 DEF Decide, engineVars, detectorVars
  <2> QED BY <1>4, <2>1, DecideResult, StoreKept
<1>5. CASE Restart
  <2>1. /\ UNCHANGED <<persistent, store>> /\ at' = [h \in Handlers |-> "idle"]
        /\ seen' = [t \in ToolNames |-> IF persistent THEN LastOf(t) ELSE NoDefinition]
    BY <1>5 DEF Restart
  <2>2. \A t : LastOf(t)' = LastOf(t)
    BY <2>1 DEF LastOf
  <2> QED BY <2>1, <2>2 DEF StoreInv
<1>6. CASE UNCHANGED <<persistent, at, eval, seen, store, cut>>
  <2>1. \A t : LastOf(t)' = LastOf(t)
    BY <1>6 DEF LastOf
  <2>2. Pending' = Pending /\ \A h \in Handlers : Tool(h)' = Tool(h)
    BY <1>6 DEF Pending, Tool
  <2> QED BY <1>6, <2>1, <2>2 DEF StoreInv
<1> QED
  BY <1>1, <1>2, <1>3, <1>4, <1>5, <1>6, StoreCompare, StorePersist
     DEF Next, HandlerStep, Reload, detectorVars, vars

-------------------------------------------------------------------------------
\* What an evaluation has come past it has shown: the steps.

LEMMA ShownKept ==
  ASSUME ShownInv, NEW h \in Handlers, OnlyOne(h), done' = done,
         at'[h] # "idle" => \A i \in Past(at'[h], eval'[h]) : Displayed(eval'[h], i)
  PROVE  ShownInv'
<1>1. ASSUME NEW g \in Running', NEW i \in Past(at'[g], eval'[g]) PROVE Displayed(eval'[g], i)
  <2>1. CASE g = h
    BY <1>1, <2>1 DEF Running
  <2>2. CASE g # h
    <3>1. g \in Running /\ at'[g] = at[g] /\ eval'[g] = eval[g]
      BY <1>1, <2>2 DEF Running, OnlyOne
    <3> QED BY <1>1, <3>1 DEF ShownInv
  <2> QED BY <2>1, <2>2
<1>2. \A d \in done' : Consulted(d) => \A i \in DOMAIN d.msg.tools : Displayed(d, i)
  BY DEF ShownInv
<1> QED BY <1>1, <1>2 DEF ShownInv

LEMMA ShownConclude ==
  ASSUME PlaceInv, ShownInv, NEW h \in Handlers, at[h] \in {"scan", "compare"}, NEW found,
         IF at[h] = "scan" THEN \A f \in found : f.detector # Mutation ELSE found = eval[h].found,
         at[h] = "compare" => Past("compare", eval[h]) = DOMAIN eval[h].msg.tools,
         Conclude(h, found), done' = done
  PROVE  ShownInv'
<1> DEFINE e == eval[h]
           new == eval'[h]
<1>1. /\ OnlyOne(h) /\ new.msg = e.msg /\ new.tool = 1 /\ new.shown = e.shown
      /\ at'[h] \in {"scan", "compare", "decide"}
      /\ Passed(new) => Passed(e) \/ (at[h] = "compare" /\ e.field = "content")
  BY ConcludeResult
<1>2. h \in Running /\ DOMAIN e.msg.tools = 1..Len(e.msg.tools)
  <2>1. e.msg \in Messages
    BY DEF PlaceInv, Placed, Walked
  <2> QED BY <2>1, ToolsAreList DEF Running
<1> HIDE DEF e, new
<1>3. ASSUME NEW i \in Past(at'[h], new) PROVE Displayed(new, i)
  <2>1. i \in DOMAIN e.msg.tools /\ ~(i < 1)
    BY <1>1, <1>2 DEF Past
  <2>2. Passed(new)
    BY <1>1, <2>1 DEF Past
  <2>3. i \in Past(at[h], e)
    BY <1>1, <2>1, <2>2 DEF Past, e
  <2>4. Displayed(e, i)
    BY <1>2, <2>3 DEF ShownInv, e
  <2> QED BY <1>1, <2>4 DEF Displayed
<1> QED BY <1>1, <1>3, ShownKept DEF new

LEMMA ShownStep == PlaceInv /\ ShownInv /\ [Next]_vars => ShownInv'
<1> SUFFICES ASSUME PlaceInv, ShownInv, [Next]_vars PROVE ShownInv'
  OBVIOUS
<1>1. ASSUME NEW h \in Handlers, NEW m \in Messages, Begin(h, m) PROVE ShownInv'
  <2>1. OnlyOne(h) /\ Past(at'[h], eval'[h]) = {}
    BY <1>1, BeginResult
  <2> QED BY <1>1, <2>1, ShownKept DEF Begin
<1>2. ASSUME NEW h \in Handlers, Scan(h) PROVE ShownInv'
  <2>1. PICK found : Conclude(h, found) /\ \A f \in found : f.detector # Mutation
    BY <1>2, ScanConcludes
  <2>2. done' = done /\ at[h] = "scan"
    BY <1>2 DEF Scan
  <2> QED BY <2>1, <2>2, ShownConclude
<1>3. ASSUME NEW h \in Handlers, Compare(h) PROVE ShownInv'
  <2> DEFINE e == eval[h]
             new == eval'[h]
             t == e.msg.tools[e.tool]
  <2>1. /\ OnlyOne(h) /\ at[h] = "compare" /\ new.msg = e.msg
        /\ Past(at'[h], new) = Past(at[h], e) \cup {e.tool}
        /\ e.shown \subseteq new.shown
        /\ t.name # NoName =>
             \E s \in new.shown : s.name = t.name /\ s.definition = t.definition
    <3> DEFINE u == [name |-> t.name, definition |-> t.definition, n |-> compared[t.name] + 1]
    <3>1. /\ OnlyOne(h) /\ at[h] = "compare" /\ new.msg = e.msg
          /\ Past(at'[h], new) = Past(at[h], e) \cup {e.tool}
          /\ IF t.name = NoName THEN new.shown = e.shown ELSE new.shown = e.shown \cup {u}
      BY <1>3, CompareResult
    <3>2. u.name = t.name /\ u.definition = t.definition
      OBVIOUS
    <3> HIDE DEF u, t, new, e
    <3> QED BY <3>1, <3>2
  <2>2. \A i \in Past(at[h], e) : Displayed(e, i)
    BY <2>1 DEF ShownInv, Running
  <2> HIDE DEF new
  <2>3. ASSUME NEW i \in Past(at'[h], new) PROVE Displayed(new, i)
    <3>1. CASE i = e.tool
      BY <2>1, <3>1 DEF Displayed
    <3>2. CASE i \in Past(at[h], e)
      BY <2>1, <2>2, <3>2 DEF Displayed
    <3> QED BY <2>1, <3>1, <3>2
  <2>4. done' = done
    BY <1>3 DEF Compare
  <2> QED BY <2>1, <2>3, <2>4, ShownKept DEF new
<1>4. ASSUME NEW h \in Handlers, Persist(h) PROVE ShownInv'
  <2>1. /\ OnlyOne(h) /\ at[h] = "persist" /\ at'[h] = "compare" /\ eval'[h].msg = eval[h].msg
        /\ eval'[h].shown = eval[h].shown
        /\ Past(at'[h], eval'[h]) = Past(at[h], eval[h])
    BY <1>4, PersistResult
  <2>2. \A i \in Past(at[h], eval[h]) : Displayed(eval[h], i)
    BY <2>1 DEF ShownInv, Running
  <2>3. \A i \in Past(at'[h], eval'[h]) : Displayed(eval'[h], i)
    BY <2>1, <2>2 DEF Displayed
  <2>4. done' = done
    BY <1>4 DEF Persist
  <2> QED BY <2>1, <2>3, <2>4, ShownKept
<1>5. ASSUME NEW h \in Handlers, EndCompare(h) PROVE ShownInv'
  <2>1. done' = done
    BY <1>5 DEF EndCompare
  <2> QED BY <1>5, <2>1, EndCompareResult, ShownConclude
<1>6. ASSUME NEW h \in Handlers, Decide(h) PROVE ShownInv'
  <2> DEFINE e == eval[h]
  <2>1. PICK d : /\ OnlyOne(h) /\ at[h] = "decide" /\ at'[h] = "idle" /\ done' = done \cup {d}
                 /\ d.msg = e.msg /\ d.doc = e.doc /\ d.rule = e.rule /\ d.missed = e.missed
                 /\ d.shown = e.shown
    BY <1>6, DecideResult
  <2>2. ASSUME Consulted(d), NEW i \in DOMAIN d.msg.tools PROVE Displayed(d, i)
    <3>1. Asking(d) = Asking(e) /\ e.field = "none"
      BY <2>1 DEF Asking, PlaceInv, Placed
    <3>2. Passed(e)
      BY <2>1, <2>2, <3>1 DEF Consulted, Passed
    <3>3. Displayed(e, i)
      BY <2>1, <2>2, <3>2 DEF ShownInv, Running, Past
    <3> QED BY <2>1, <3>3 DEF Displayed
  <2>3. ASSUME NEW g \in Running' PROVE g \in Running /\ at'[g] = at[g] /\ eval'[g] = eval[g]
    BY <2>1, <2>3 DEF Running, OnlyOne
  <2> QED BY <2>1, <2>2, <2>3 DEF ShownInv
<1>7. CASE Restart
  BY <1>7 DEF Restart, ShownInv, Running
<1>8. CASE UNCHANGED <<at, eval, done>>
  BY <1>8 DEF ShownInv, Running
<1> QED BY <1>1, <1>2, <1>3, <1>4, <1>5, <1>6, <1>7, <1>8 DEF Next, HandlerStep, Reload, vars

-------------------------------------------------------------------------------
\* Redaction.  A redacted text has markers in place of matches, of the length of a match
\* each; what it stands for, symbol by symbol, is followed from word to word.

LEMMA OccursIs ==
  ASSUME NEW X, NEW text \in Seq(X), NEW word \in Seq(X), NEW i \in Nat \ {0}
  PROVE  Occurs(word, text, i) <=>
           /\ i + Len(word) - 1 <= Len(text)
           /\ \A k \in 1..Len(word) : text[i + k - 1] = word[k]
<1>1. CASE i + Len(word) - 1 <= Len(text)
  <2> DEFINE part == SubSeq(text, i, i + Len(word) - 1)
  <2>1. /\ Len(part) = Len(word) /\ part \in Seq(X)
        /\ \A k \in 1..Len(word) : part[k] = text[i + k - 1]
    BY <1>1
  <2> HIDE DEF part
  <2>2. part = word <=> \A k \in 1..Len(word) : part[k] = word[k]
    BY <2>1
  <2> QED BY <1>1, <2>1, <2>2 DEF Occurs, part
<1> QED BY <1>1 DEF Occurs

\* The function that Replaced is defined with, from position n on.
IsReplacing(from, text, word, n) ==
  from = [i \in n..(Len(text) + 1) |->
            IF i > Len(text) THEN << >>
            ELSE IF Occurs(word, text, i) THEN <<Marker>> \o from[i + Len(word)]
            ELSE <<text[i]>> \o from[i + 1]]

LEMMA ReplacingExists ==
  ASSUME NEW X, NEW text \in Seq(X), NEW word \in Seq(X), word # << >>
  PROVE  \E from : IsReplacing(from, text, word, 1)
<1> DEFINE L == Len(text)
           S == {k \in Nat : k <= L => \E from : IsReplacing(from, text, word, L + 1 - k)}
<1>0. L \in Nat /\ Len(word) \in Nat \ {0}
  OBVIOUS
<1>1. 0 \in S
  <2> DEFINE f == [i \in (L + 1)..(L + 1) |-> << >>]
  <2>1. f = [i \in (L + 1)..(L + 1) |->
               IF i > L THEN << >>
               ELSE IF Occurs(word, text, i) THEN <<Marker>> \o f[i + Len(word)]
               ELSE <<text[i]>> \o f[i + 1]]
    BY <1>0
  <2> HIDE DEF f
  <2>2. IsReplacing(f, text, word, L + 1)
    BY <2>1 DEF IsReplacing
  <2>3. L + 1 - 0 = L + 1
    BY <1>0
  <2> QED BY <2>2, <2>3
<1>2. ASSUME NEW k \in S PROVE k + 1 \in S
  <2> SUFFICES ASSUME k + 1 <= L PROVE \E from : IsReplacing(from, text, word, L + 1 - (k + 1))
    OBVIOUS
  <2> DEFINE n == L + 1 - (k + 1)
  <2>1. PICK f : IsReplacing(f, text, word, L + 1 - k)
    BY <1>0
  <2>2. n \in 1..L /\ L + 1 - k = n + 1 /\ ~(n > L)
    BY <1>0
  <2> HIDE DEF n, L, S
  <2> DEFINE Body(g, i) == IF i > L THEN << >>
                           ELSE IF Occurs(word, text, i) THEN <<Marker>> \o g[i + Len(word)]
                           ELSE <<text[i]>> \o g[i + 1]
             g == [i \in n..(L + 1) |-> IF i = n THEN Body(f, n) ELSE f[i]]
  <2>3. \A i \in (n + 1)..(L + 1) : f[i] = Body(f, i)
    BY <2>1, <2>2, Zenon DEF IsReplacing, L
  <2>4. ASSUME NEW i \in n..(L + 1) PROVE g[i] = Body(g, i)
    <3>1. \A j \in (n + 1)..(L + 1) : g[j] = f[j]
      BY <1>0, <2>2
    <3>2. i <= L => i + 1 \in (n + 1)..(L + 1)
      BY <1>0, <2>2
    <3>3. Occurs(word, text, i) => i + Len(word) \in (n + 1)..(L + 1)
      BY <1>0, <2>2 DEF Occurs, L
    <3>4. Body(g, i) = Body(f, i)
      <4> HIDE DEF g
      <4> QED BY <1>0, <2>2, <3>1, <3>2, <3>3
    <3>5. CASE i = n
      BY <3>4, <3>5
    <3>6. CASE i # n
      <4>1. i \in (n + 1)..(L + 1)
        BY <1>0, <2>2, <3>6
      <4> QED BY <2>3, <3>1, <3>4, <4>1
    <3> QED BY <3>5, <3>6
  <2>5. IsReplacing(g, text, word, n)
    <3>1. g = [i \in n..(L + 1) |-> Body(g, i)]
      BY <2>4
    <3> HIDE DEF g
    <3> QED BY <3>1 DEF IsReplacing, L
  <2> QED BY <2>5 DEF n
<1>3. S = Nat
  <2>1. S \subseteq Nat
    OBVIOUS
  <2> HIDE DEF S
  <2> QED BY <1>1, <1>2, <2>1, Induction
<1>4. L \in S
  BY <1>0, <1>3
<1>5. L + 1 - L = 1
  BY <1>0
<1> HIDE DEF L
<1> QED BY <1>0, <1>4, <1>5

LEMMA ReplacedIs ==
  ASSUME NEW X, NEW text \in Seq(X), NEW word \in Seq(X), word # << >>
  PROVE  \E from : Replaced(text, word) = from[1] /\ IsReplacing(from, text, word, 1)
<1> DEFINE from == CHOOSE f : IsReplacing(f, text, word, 1)
<1>1. IsReplacing(from, text, word, 1)
  BY ReplacingExists
<1>2. Replaced(text, word) = from[1]
  BY Zenon DEF Replaced, IsReplacing
<1> HIDE DEF from
<1> QED BY <1>1, <1>2

\* A text stands for the part of another from position i on: each of its symbols for
\* one symbol, or for a run of markers.
Aligns(g, a, v, i) ==
  /\ g \in [1..(Len(a) + 1) -> 1..(Len(v) + 1)]
  /\ g[1] = i /\ g[Len(a) + 1] = Len(v) + 1
  /\ \A p \in 1..Len(a) :
       /\ g[p] < g[p + 1] /\ \A c \in g[p]..(g[p + 1] - 1) : v[c] = a[p]
       /\ a[p] # Marker => g[p + 1] = g[p] + 1
StandsFor(a, v, i) == \E g : Aligns(g, a, v, i)

LEMMA Ascending ==
  ASSUME NEW n \in Nat, NEW N \in Nat, NEW g \in [1..(n + 1) -> 1..N], \A p \in 1..n : g[p] < g[p + 1],
         NEW p \in 1..(n + 1), NEW q \in 1..(n + 1), p < q
  PROVE  g[p] < g[q]
<1> DEFINE S == {k \in Nat : p + k + 1 <= n + 1 => g[p] < g[p + k + 1]}
<1>1. 0 \in S
  <2>1. p \in 1..n /\ p + 0 + 1 = p + 1
    OBVIOUS
  <2> QED BY <2>1
<1>2. ASSUME NEW k \in S PROVE k + 1 \in S
  <2> SUFFICES ASSUME p + (k + 1) + 1 <= n + 1 PROVE g[p] < g[p + (k + 1) + 1]
    OBVIOUS
  <2>1. p + k + 1 \in 1..n /\ (p + k + 1) + 1 = p + (k + 1) + 1 /\ k \in Nat
    OBVIOUS
  <2>2. g[p] < g[p + k + 1] /\ g[p + k + 1] < g[(p + k + 1) + 1]
    BY <2>1
  <2>3. /\ g[p] \in Nat /\ g[p + k + 1] \in Nat /\ g[(p + k + 1) + 1] \in Nat
    <3>1. p \in 1..(n + 1) /\ p + k + 1 \in 1..(n + 1) /\ (p + k + 1) + 1 \in 1..(n + 1)
      BY <2>1
    <3>2. \A r \in 1..(n + 1) : g[r] \in Nat
      OBVIOUS
    <3> QED BY <3>1, <3>2
  <2> QED BY <2>1, <2>2, <2>3
<1>3. S = Nat
  <2>1. S \subseteq Nat
    OBVIOUS
  <2> HIDE DEF S
  <2> QED BY <1>1, <1>2, <2>1, Induction
<1>4. q - p - 1 \in Nat /\ p + (q - p - 1) + 1 = q
  OBVIOUS
<1>5. q - p - 1 \in S
  <2> HIDE DEF S
  <2> QED BY <1>3, <1>4
<1> QED BY <1>4, <1>5

LEMMA StandsAlone ==
  ASSUME NEW X, NEW v \in Seq(X)
  PROVE  StandsFor(<< >>, v, Len(v) + 1) /\ StandsFor(v, v, 1)
<1>1. Aligns([p \in 1..1 |-> Len(v) + 1], << >>, v, Len(v) + 1)
  BY DEF Aligns
<1>2. Aligns([p \in 1..(Len(v) + 1) |-> p], v, v, 1)
  <2> DEFINE g == [p \in 1..(Len(v) + 1) |-> p]
  <2>1. Len(v) \in Nat /\ \A p \in 1..Len(v) : g[p] = p /\ g[p + 1] = p + 1
    OBVIOUS
  <2> QED BY <2>1 DEF Aligns
<1> QED BY <1>1, <1>2 DEF StandsFor

LEMMA StandsOn ==
  ASSUME NEW X, NEW v \in Seq(X), NEW a \in Seq(X), NEW x \in X,
         NEW i \in 1..Len(v), NEW j \in 1..(Len(v) + 1), i < j, StandsFor(a, v, j),
         \A c \in i..(j - 1) : v[c] = x, x # Marker => j = i + 1
  PROVE  <<x>> \o a \in Seq(X) /\ StandsFor(<<x>> \o a, v, i)
<1> DEFINE b == <<x>> \o a
           n == Len(a)
           m == Len(v)
<1>1. /\ b \in Seq(X) /\ Len(b) = n + 1 /\ n \in Nat /\ m \in Nat /\ b[1] = x
      /\ \A p \in 1..n : b[p + 1] = a[p]
  OBVIOUS
<1>2. PICK g : Aligns(g, a, v, j)
  BY DEF StandsFor
<1> DEFINE f == [p \in 1..(n + 2) |-> IF p = 1 THEN i ELSE g[p - 1]]
<1>3. /\ f \in [1..(n + 2) -> 1..(m + 1)] /\ f[1] = i
      /\ \A p \in 1..(n + 1) : f[p + 1] = g[p]
  BY <1>1, <1>2 DEF Aligns
<1>4. /\ g \in [1..(n + 1) -> 1..(m + 1)] /\ g[1] = j /\ g[n + 1] = m + 1
      /\ \A p \in 1..n : /\ g[p] < g[p + 1] /\ \A c \in g[p]..(g[p + 1] - 1) : v[c] = a[p]
                         /\ a[p] # Marker => g[p + 1] = g[p] + 1
  BY <1>2 DEF Aligns
<1> HIDE DEF b, f, m, n
<1>5. ASSUME NEW p \in 1..(n + 1)
      PROVE  /\ f[p] < f[p + 1] /\ \A c \in f[p]..(f[p + 1] - 1) : v[c] = b[p]
             /\ b[p] # Marker => f[p + 1] = f[p] + 1
  <2>1. CASE p = 1
    <3>1. f[2] = j
      <4>1. 1 \in 1..(n + 1) /\ 1 + 1 = 2
        BY <1>1
      <4> QED BY <1>3, <1>4, <4>1
    <3> QED BY <1>1, <1>3, <2>1, <3>1
  <2>2. CASE p # 1
    <3> DEFINE q == p - 1
    <3>1. q \in 1..n /\ q + 1 = p /\ q \in 1..(n + 1) /\ q + 1 \in 1..(n + 1)
      BY <1>1, <2>2
    <3> HIDE DEF q
    <3>2. f[p] = g[q] /\ f[p + 1] = g[q + 1] /\ b[p] = a[q]
      BY <1>1, <1>3, <3>1
    <3> QED BY <1>4, <3>1, <3>2
  <2> QED BY <2>1, <2>2
<1>6. f[(n + 1) + 1] = m + 1 /\ (n + 1) + 1 = n + 2
  <2>1. n + 1 \in 1..(n + 1)
    BY <1>1
  <2> QED BY <1>1, <1>3, <1>4, <2>1
<1>7. Aligns(f, b, v, i)
  BY <1>1, <1>3, <1>5, <1>6 DEF Aligns, m
<1> QED BY <1>1, <1>7 DEF StandsFor, b

Whole(w) == \A k \in 1..Len(w) : w[k] # Marker

Painted(v, w) ==
  [c \in DOMAIN v |-> IF \E i \in 1..c : Occurs(w, v, i) /\ c < i + Len(w) THEN Marker ELSE v[c]]

\* A word without marker occurs in a text where it occurs in what the text stands for.
LEMMA OccursBelow ==
  ASSUME NEW X, NEW u \in Seq(X), NEW v \in Seq(X), NEW w \in Seq(X), w # << >>, Whole(w),
         NEW g, Aligns(g, u, v, 1), NEW p \in 1..Len(u), Occurs(w, u, p)
  PROVE  Occurs(w, v, g[p]) /\ \A k \in 0..Len(w) : g[p + k] = g[p] + k
<1> DEFINE L == Len(w)
           S == {k \in Nat : k <= L => g[p + k] = g[p] + k}
<1>0. /\ L \in Nat \ {0} /\ Len(u) \in Nat /\ Len(v) \in Nat /\ g[p] \in 1..(Len(v) + 1)
      /\ g \in [1..(Len(u) + 1) -> 1..(Len(v) + 1)]
      /\ \A r \in 1..Len(u) : g[r] < g[r + 1] /\ (\A c \in g[r]..(g[r + 1] - 1) : v[c] = u[r])
                              /\ (u[r] # Marker => g[r + 1] = g[r] + 1)
  BY DEF Aligns
<1>1. p + L - 1 <= Len(u) /\ \A k \in 1..L : u[p + k - 1] = w[k]
  BY OccursIs
<1> HIDE DEF L
<1>2. \A k \in 0..(L - 1) : p + k \in 1..Len(u) /\ u[p + k] = w[k + 1] /\ u[p + k] # Marker
  <2> SUFFICES ASSUME NEW k \in 0..(L - 1)
               PROVE  p + k \in 1..Len(u) /\ u[p + k] = w[k + 1] /\ u[p + k] # Marker
    OBVIOUS
  <2>1. k + 1 \in 1..L /\ p + (k + 1) - 1 = p + k /\ p + k \in 1..Len(u)
    BY <1>0, <1>1
  <2>2. u[p + k] = w[k + 1]
    BY <1>1, <2>1
  <2> QED BY <2>1, <2>2 DEF Whole, L
<1>3. 0 \in S
  BY <1>0
<1>4. ASSUME NEW k \in S PROVE k + 1 \in S
  <2> SUFFICES ASSUME k + 1 <= L PROVE g[p + (k + 1)] = g[p] + (k + 1)
    OBVIOUS
  <2>1. k \in Nat /\ k \in 0..(L - 1) /\ (p + k) + 1 = p + (k + 1) /\ g[p + k] = g[p] + k
    BY <1>0
  <2> HIDE DEF S
  <2>2. g[(p + k) + 1] = g[p + k] + 1
    BY <1>0, <1>2, <2>1
  <2>3. g[p] \in Nat
    BY <1>0
  <2>4. g[p + (k + 1)] = g[(p + k) + 1]
    BY <2>1
  <2>5. g[p + (k + 1)] = (g[p] + k) + 1
    BY <2>1, <2>2, <2>4
  <2> DEFINE i == g[p]
  <2>6. i \in Nat
    BY <2>3
  <2> HIDE DEF L, i
  <2>7. (i + k) + 1 = i + (k + 1)
    BY <2>1, <2>6
  <2> QED BY <2>5, <2>7 DEF i
<1>5. S = Nat
  <2>1. S \subseteq Nat
    OBVIOUS
  <2> HIDE DEF S
  <2> QED BY <1>3, <1>4, <2>1, Induction
<1>6. \A k \in 0..L : g[p + k] = g[p] + k
  <2>1. \A k \in 0..L : k \in Nat /\ k <= L
    BY <1>0
  <2>2. \A k \in 0..L : k \in S
    <3> HIDE DEF S
    <3> QED BY <1>5, <2>1
  <2> QED BY <2>1, <2>2
<1>7. \A k \in 1..L : v[g[p] + k - 1] = w[k]
  <2> SUFFICES ASSUME NEW k \in 1..L PROVE v[g[p] + k - 1] = w[k]
    OBVIOUS
  <2> DEFINE j == k - 1
  <2>1. j \in 0..(L - 1) /\ j \in 0..L /\ j + 1 \in 0..L /\ k = j + 1 /\ p + (j + 1) = (p + j) + 1
    BY <1>0
  <2> HIDE DEF j
  <2>2. /\ g[p + j] = g[p] + j /\ g[(p + j) + 1] = g[p] + (j + 1)
        /\ p + j \in 1..Len(u) /\ u[p + j] = w[k]
    BY <1>2, <1>6, <2>1
  <2> DEFINE i == g[p]
  <2>3. i \in Nat
    BY <1>0
  <2>4. g[p + j] = i + j /\ g[(p + j) + 1] = i + (j + 1)
    BY <2>2
  <2> HIDE DEF i, L
  <2>5. i + j \in (i + j)..((i + (j + 1)) - 1) /\ i + k - 1 = i + j
    BY <2>1, <2>3
  <2>6. i + j \in g[p + j]..(g[(p + j) + 1] - 1)
    BY <2>4, <2>5
  <2>7. v[i + j] = w[k]
    BY <1>0, <2>2, <2>6
  <2> QED BY <2>5, <2>7 DEF i
<1>8. g[p] + L - 1 <= Len(v)
  <2>1. g[p + L] = g[p] + L /\ p + L \in 1..(Len(u) + 1)
    BY <1>0, <1>1, <1>6
  <2>2. g[p + L] \in 1..(Len(v) + 1)
    BY <1>0, <2>1
  <2> QED BY <1>0, <2>1, <2>2
<1>9. Occurs(w, v, g[p])
  <2>1. g[p] \in Nat \ {0}
    BY <1>0
  <2> QED BY <1>7, <1>8, <2>1, OccursIs DEF L
<1> QED BY <1>6, <1>9 DEF L

\* Each symbol of a text belongs to one of the text that stands for it.
LEMMA Located ==
  ASSUME NEW X, NEW u \in Seq(X), NEW v \in Seq(X), NEW g, Aligns(g, u, v, 1), NEW c \in 1..Len(v)
  PROVE  \E p \in 1..Len(u) : g[p] <= c /\ c < g[p + 1]
<1> DEFINE S == {p \in 1..(Len(u) + 1) : c < g[p]}
<1>1. /\ Len(u) \in Nat /\ Len(v) \in Nat /\ g[1] = 1 /\ g[Len(u) + 1] = Len(v) + 1
      /\ g \in [1..(Len(u) + 1) -> 1..(Len(v) + 1)]
  BY DEF Aligns
<1>2. S \subseteq Nat /\ S # {}
  <2>1. Len(u) + 1 \in S
    BY <1>1
  <2> QED BY <1>1, <2>1
<1>3. PICK m \in S : \A k \in S : m <= k
  <2> HIDE DEF S
  <2> QED BY <1>2, LeastNumber
<1>4. m # 1
  BY <1>1
<1>5. m - 1 \in 1..Len(u) /\ (m - 1) + 1 = m /\ m - 1 \notin S
  BY <1>1, <1>3, <1>4
<1>6. g[m - 1] <= c
  <2>1. m - 1 \in 1..(Len(u) + 1) /\ g[m - 1] \in Nat
    BY <1>1, <1>5
  <2>2. ~(c < g[m - 1])
    BY <1>5, <2>1
  <2> QED BY <2>1, <2>2
<1>7. c < g[m]
  BY <1>3
<1> QED BY <1>5, <1>6, <1>7

LEMMA OccursAbove ==
  ASSUME NEW X, NEW u \in Seq(X), NEW v \in Seq(X), NEW w \in Seq(X), w # << >>, Whole(w),
         NEW g, Aligns(g, u, v, 1), NEW i \in 1..Len(v), Occurs(w, v, i)
  PROVE  \E p \in 1..Len(u) : g[p] = i /\ Occurs(w, u, p)
<1> DEFINE L == Len(w)
<1>0. /\ L \in Nat \ {0} /\ Len(u) \in Nat /\ Len(v) \in Nat
      /\ g \in [1..(Len(u) + 1) -> 1..(Len(v) + 1)] /\ g[Len(u) + 1] = Len(v) + 1
      /\ \A r \in 1..Len(u) : g[r] < g[r + 1] /\ (\A c \in g[r]..(g[r + 1] - 1) : v[c] = u[r])
                              /\ (u[r] # Marker => g[r + 1] = g[r] + 1)
  BY DEF Aligns
<1>1. i + L - 1 <= Len(v) /\ \A k \in 1..L : v[i + k - 1] = w[k] /\ w[k] # Marker
  BY OccursIs DEF Whole
<1>2. PICK p \in 1..Len(u) : g[p] <= i /\ i < g[p + 1]
  BY Located
<1> HIDE DEF L
<1> DEFINE S == {k \in Nat : k <= L => /\ p + k \in 1..(Len(u) + 1) /\ g[p + k] = i + k
                                       /\ \A j \in 1..k : u[p + j - 1] = w[j]}
<1>3. ASSUME NEW r \in 1..Len(u), NEW k \in 1..L, g[r] <= i + k - 1, i + k - 1 < g[r + 1]
      PROVE  u[r] = w[k] /\ g[r] = i + k - 1 /\ g[r + 1] = g[r] + 1
  <2>1. g[r] \in Nat /\ g[r + 1] \in Nat
    <3>1. r \in 1..(Len(u) + 1) /\ r + 1 \in 1..(Len(u) + 1)
      BY <1>0
    <3>2. g[r] \in 1..(Len(v) + 1) /\ g[r + 1] \in 1..(Len(v) + 1)
      BY <1>0, <3>1
    <3> QED BY <3>2
  <2>2. i + k - 1 \in g[r]..(g[r + 1] - 1)
    BY <1>0, <1>3, <2>1
  <2>3. u[r] = w[k] /\ u[r] # Marker
    BY <1>0, <1>1, <2>2
  <2>4. g[r + 1] = g[r] + 1
    BY <1>0, <2>3
  <2> DEFINE j == i + k - 1
  <2>5. j \in Nat /\ g[r] <= j /\ j < g[r + 1]
    BY <1>0, <1>3
  <2> HIDE DEF j
  <2>6. g[r] = j
    BY <2>1, <2>4, <2>5
  <2> QED BY <2>3, <2>4, <2>6 DEF j
<1>4. 0 \in S
  <2>1. 1 \in 1..L /\ i + 1 - 1 = i
    BY <1>0
  <2>2. g[p] = i
    BY <1>2, <1>3, <2>1
  <2> QED BY <1>0, <2>2
<1>5. ASSUME NEW k \in S PROVE k + 1 \in S
  <2> SUFFICES ASSUME k + 1 <= L
               PROVE  /\ p + (k + 1) \in 1..(Len(u) + 1) /\ g[p + (k + 1)] = i + (k + 1)
                      /\ \A j \in 1..(k + 1) : u[p + j - 1] = w[j]
    OBVIOUS
  <2>0. k \in Nat /\ k + 1 \in 1..L /\ k <= L
    BY <1>0
  <2>1. /\ k \in Nat /\ k + 1 \in 1..L /\ p + k \in 1..(Len(u) + 1) /\ g[p + k] = i + k
        /\ \A j \in 1..k : u[p + j - 1] = w[j]
    BY <2>0
  <2> HIDE DEF S
  <2>2. p + k \in 1..Len(u)
    <3>1. i + k <= Len(v)
      BY <1>0, <1>1, <2>1
    <3> DEFINE r == p + k
    <3>2. r # Len(u) + 1
      BY <1>0, <2>1, <3>1
    <3>3. r \in 1..(Len(u) + 1) /\ Len(u) \in Nat
      BY <1>0, <2>1
    <3> HIDE DEF r
    <3>4. r \in 1..Len(u)
      BY <3>2, <3>3
    <3> QED BY <3>4 DEF r
  <2>3. u[p + k] = w[k + 1] /\ g[(p + k) + 1] = g[p + k] + 1
    <3>1. i + (k + 1) - 1 = i + k /\ g[p + k] < g[(p + k) + 1]
      BY <1>0, <2>1, <2>2
    <3> QED BY <1>3, <2>1, <2>2, <3>1
  <2>4. \A j \in 1..(k + 1) : u[p + j - 1] = w[j]
    <3> SUFFICES ASSUME NEW j \in 1..(k + 1) PROVE u[p + j - 1] = w[j]
      OBVIOUS
    <3>1. CASE j \in 1..k
      BY <2>1, <3>1
    <3>2. CASE j = k + 1
      <4>1. p + j - 1 = p + k
        BY <2>1, <3>2
      <4> QED BY <2>3, <3>2, <4>1
    <3> QED BY <2>1, <3>1, <3>2
  <2>5. p + (k + 1) = (p + k) + 1 /\ (p + k) + 1 \in 1..(Len(u) + 1)
    BY <1>0, <2>1, <2>2
  <2> QED BY <1>0, <2>1, <2>3, <2>4, <2>5
<1>6. S = Nat
  <2>1. S \subseteq Nat
    OBVIOUS
  <2> HIDE DEF S
  <2> QED BY <1>4, <1>5, <2>1, Induction
<1>7. /\ p + L \in 1..(Len(u) + 1) /\ g[p + 0] = i + 0
      /\ \A j \in 1..L : u[p + j - 1] = w[j]
  <2>1. L \in S /\ 0 \in S /\ 0 <= L /\ L <= L
    <3> HIDE DEF S
    <3> QED BY <1>0, <1>6
  <2> QED BY <2>1
<1>8. Occurs(w, u, p)
  <2>1. p + L - 1 <= Len(u)
    BY <1>0, <1>7
  <2> QED BY <1>7, <2>1, OccursIs DEF L
<1> QED BY <1>0, <1>7, <1>8

\* Replacing a word in a text that stands for v gives one that stands for v painted
\* where the word occurs, unless two occurrences overlap.
LEMMA ReplacedStands ==
  ASSUME NEW X, NEW u \in Seq(X), NEW v \in Seq(X), NEW w \in Seq(X), Marker \in X,
         w # << >>, Whole(w), StandsFor(u, v, 1),
         \A i, j \in 1..Len(v) : Occurs(w, v, i) /\ Occurs(w, v, j) /\ i < j => i + Len(w) <= j
  PROVE  Replaced(u, w) \in Seq(X) /\ StandsFor(Replaced(u, w), Painted(v, w), 1)
<1> DEFINE L == Len(w)
           N == Len(u)
           M == Len(v)
           pv == Painted(v, w)
<1>1. PICK g : Aligns(g, u, v, 1)
  BY DEF StandsFor
<1>2. PICK from : Replaced(u, w) = from[1] /\ IsReplacing(from, u, w, 1)
  BY ReplacedIs
<1>3. /\ L \in Nat \ {0} /\ N \in Nat /\ M \in Nat
      /\ g \in [1..(N + 1) -> 1..(M + 1)] /\ g[1] = 1 /\ g[N + 1] = M + 1
      /\ \A p \in 1..N : /\ g[p] < g[p + 1] /\ \A c \in g[p]..(g[p + 1] - 1) : v[c] = u[p]
                         /\ u[p] # Marker => g[p + 1] = g[p] + 1
  BY <1>1 DEF Aligns
<1>4. /\ pv \in Seq(X) /\ Len(pv) = M
      /\ \A c \in 1..M : pv[c] = IF \E i \in 1..c : Occurs(w, v, i) /\ c < i + L THEN Marker ELSE v[c]
  <2>1. \A c \in 1..M : (IF \E i \in 1..c : Occurs(w, v, i) /\ c < i + L THEN Marker ELSE v[c]) \in X
    OBVIOUS
  <2>2. pv = [c \in 1..M |-> IF \E i \in 1..c : Occurs(w, v, i) /\ c < i + L THEN Marker ELSE v[c]]
    BY DEF Painted
  <2>3. pv \in [1..M -> X] /\ M \in Nat
    BY <2>1, <2>2
  <2>4. pv \in Seq(X) /\ Len(pv) = M
    BY <2>3
  <2> QED BY <2>2, <2>4
<1>5. \A p \in 1..N : Occurs(w, u, p) =>
        /\ p + L <= N + 1 /\ Occurs(w, v, g[p]) /\ g[p + L] = g[p] + L
  <2> SUFFICES ASSUME NEW p \in 1..N, Occurs(w, u, p)
               PROVE  p + L <= N + 1 /\ Occurs(w, v, g[p]) /\ g[p + L] = g[p] + L
    OBVIOUS
  <2>1. p + L <= N + 1
    BY <1>3 DEF Occurs
  <2>2. Len(w) \in 0..Len(w)
    BY <1>3
  <2> QED BY <1>1, <2>1, <2>2, OccursBelow
<1>6. \A p, q \in 1..(N + 1) : p < q => g[p] < g[q]
  <2> SUFFICES ASSUME NEW p \in 1..(N + 1), NEW q \in 1..(N + 1), p < q PROVE g[p] < g[q]
    OBVIOUS
  <2>1. M + 1 \in Nat /\ \A r \in 1..N : g[r] < g[r + 1]
    BY <1>3
  <2> HIDE DEF N, M
  <2> QED BY <1>3, <2>1, Ascending
<1>7. \A i \in 1..M : Occurs(w, v, i) =>
        \E q \in 1..N : g[q] = i /\ Occurs(w, u, q)
  BY <1>1, OccursAbove
<1>8. \A i, j \in 1..M : Occurs(w, v, i) /\ Occurs(w, v, j) /\ i < j => i + L <= j
  OBVIOUS
<1>9. \A p \in 1..N : u[p] \in X
  OBVIOUS
<1> DEFINE Clear(p) == \A q \in 1..N : q < p /\ Occurs(w, u, q) => q + L <= p
           Good(p) == Clear(p) => from[p] \in Seq(X) /\ StandsFor(from[p], pv, g[p])
           Bad == {k \in Nat : k <= N /\ ~Good(N + 1 - k)}
<1>10. \A i \in 1..(N + 1) :
          from[i] = IF i > N THEN << >>
                    ELSE IF Occurs(w, u, i) THEN <<Marker>> \o from[i + L]
                    ELSE <<u[i]>> \o from[i + 1]
  BY <1>2, Zenon DEF IsReplacing
<1> HIDE DEF L, N, M, pv
<1>10a. N + 1 \in 1..(N + 1) /\ N + 1 > N /\ \A i \in 1..N : i \in 1..(N + 1) /\ ~(i > N)
  BY <1>3
<1>10b. from[N + 1] = << >>
  BY <1>10, <1>10a, Zenon
<1>10c. \A i \in 1..N : Occurs(w, u, i) => from[i] = <<Marker>> \o from[i + L]
  BY <1>10, <1>10a, Zenon
<1>10d. \A i \in 1..N : ~Occurs(w, u, i) => from[i] = <<u[i]>> \o from[i + 1]
  BY <1>10, <1>10a, Zenon
<1>11. Good(N + 1)
  <2>1. StandsFor(<< >>, pv, M + 1) /\ << >> \in Seq(X)
    <3>1. StandsFor(<< >>, pv, Len(pv) + 1)
      BY <1>4, StandsAlone, Zenon
    <3> QED BY <1>4, <3>1
  <2> QED BY <1>3, <1>10b, <2>1, Zenon
<1>12. ASSUME NEW p \in 1..N, \A q \in (p + 1)..(N + 1) : Good(q)
       PROVE  Good(p)
  <2> SUFFICES ASSUME Clear(p) PROVE from[p] \in Seq(X) /\ StandsFor(from[p], pv, g[p])
    OBVIOUS
  <2>0. /\ p \in 1..(N + 1) /\ p + 1 \in 1..(N + 1) /\ ~(p > N) /\ p + 1 \in (p + 1)..(N + 1)
        /\ g[p] \in 1..M /\ g[p] \in 1..Len(pv) /\ g[p + 1] \in 1..(Len(pv) + 1) /\ g[p] < g[p + 1]
    <3>1. p \in 1..(N + 1) /\ p + 1 \in 1..(N + 1) /\ ~(p > N) /\ p + 1 \in (p + 1)..(N + 1)
      BY <1>3
    <3>2. g[p] \in 1..(M + 1) /\ g[p + 1] \in 1..(M + 1) /\ g[p] < g[p + 1]
      BY <1>3, <3>1
    <3> QED BY <1>3, <1>4, <3>1, <3>2
  <2>1. CASE Occurs(w, u, p)
    <3>1. p + L \in (p + 1)..(N + 1) /\ p + L \in 1..(N + 1) /\ g[p + L] = g[p] + L /\ Occurs(w, v, g[p])
      BY <1>3, <1>5, <2>1
    <3>2. Clear(p + L)
      <4> SUFFICES ASSUME NEW q \in 1..N, q < p + L, Occurs(w, u, q) PROVE q + L <= p + L
        OBVIOUS
      <4>1. CASE q <= p
        BY <1>3, <4>1
      <4>2. CASE q > p
        <5>1. q \in 1..(N + 1) /\ g[q] \in 1..(M + 1) /\ g[p] < g[q] /\ g[q] < g[p + L]
          BY <1>3, <1>6, <2>0, <3>1, <4>2
        <5>2. g[q] \in 1..M /\ Occurs(w, v, g[q])
          <6>1. g[p + L] \in 1..(M + 1)
            BY <1>3, <3>1
          <6>2. Occurs(w, v, g[q])
            BY <1>5, Zenon
          <6>3. g[q] # M + 1
            BY <1>3, <5>1, <6>1
          <6> QED BY <1>3, <5>1, <6>2, <6>3
        <5>3. g[p] + L <= g[q]
          BY <1>8, <2>0, <3>1, <5>1, <5>2
        <5>4. g[q] < g[p] + L
          BY <3>1, <5>1
        <5>5. g[p] \in Nat /\ g[q] \in Nat
          <6>1. 1..M \subseteq Nat
            OBVIOUS
          <6> QED BY <2>0, <5>2, <6>1
        <5>6. L \in Nat
          BY <1>3
        <5> QED BY <5>3, <5>4, <5>5, <5>6
      <4> QED BY <1>3, <4>1, <4>2
    <3>3. from[p + L] \in Seq(X) /\ StandsFor(from[p + L], pv, g[p + L])
      BY <1>12, <3>1, <3>2
    <3>4. from[p] = <<Marker>> \o from[p + L]
      BY <1>10c, <2>1, Zenon
    <3>5. \A c \in g[p]..(g[p + L] - 1) : pv[c] = Marker
      <4> SUFFICES ASSUME NEW c \in g[p]..(g[p + L] - 1) PROVE pv[c] = Marker
        OBVIOUS
      <4>1. c \in 1..M /\ g[p] \in 1..c /\ c < g[p] + L
        <5> DEFINE i == g[p]
                   j == g[p + L]
        <5>1. j \in 1..(M + 1) /\ i \in 1..M /\ j = i + L /\ c \in i..(j - 1)
          BY <1>3, <2>0, <3>1
        <5> HIDE DEF i, j
        <5>2. c \in 1..M /\ i \in 1..c /\ c < i + L
          BY <1>3, <5>1
        <5> QED BY <5>2 DEF i
      <4> QED BY <1>4, <3>1, <4>1
    <3>6. g[p + L] \in 1..(Len(pv) + 1) /\ g[p] < g[p + L]
      <4>1. g[p + L] \in 1..(M + 1)
        BY <1>3, <3>1
      <4>2. p < p + L
        BY <1>3
      <4>3. g[p] < g[p + L]
        BY <1>6, <2>0, <3>1, <4>2
      <4> QED BY <1>4, <4>1, <4>3
    <3> HIDE DEF Good, Clear
    <3>7. <<Marker>> \o from[p + L] \in Seq(X) /\ StandsFor(<<Marker>> \o from[p + L], pv, g[p])
      BY <1>4, <2>0, <3>3, <3>5, <3>6, StandsOn
    <3> QED BY <3>4, <3>7
  <2>2. CASE ~Occurs(w, u, p)
    <3>1. Clear(p + 1)
      <4> SUFFICES ASSUME NEW q \in 1..N, q < p + 1, Occurs(w, u, q) PROVE q + L <= p + 1
        OBVIOUS
      <4>1. q # p
        BY <2>2
      <4> QED BY <1>3, <4>1
    <3>2. from[p + 1] \in Seq(X) /\ StandsFor(from[p + 1], pv, g[p + 1])
      BY <1>12, <2>0, <3>1
    <3>3. from[p] = <<u[p]>> \o from[p + 1]
      BY <1>10d, <2>2, Zenon
    <3>4. ASSUME NEW c \in g[p]..(g[p + 1] - 1) PROVE pv[c] = u[p]
      <4>1. c \in 1..M /\ v[c] = u[p]
        BY <1>3, <1>4, <2>0
      <4>2. CASE u[p] = Marker
        BY <1>4, <4>1, <4>2
      <4>3. CASE u[p] # Marker
        <5>1. g[p + 1] = g[p] + 1
          BY <1>3, <4>3
        <5>2. c = g[p]
          BY <2>0, <5>1
        <5>3. ASSUME NEW i \in 1..c, Occurs(w, v, i), c < i + L PROVE FALSE
          <6>1. i \in 1..M
            BY <1>3, <4>1
          <6>2. PICK q \in 1..N : g[q] = i /\ Occurs(w, u, q)
            BY <1>7, <5>3, <6>1
          <6>3. q + L \in 1..(N + 1) /\ g[q + L] = i + L /\ q \in 1..(N + 1)
            BY <1>3, <1>5, <6>2
          <6>4. q # p
            BY <2>2, <6>2
          <6>5. ~(p < q)
            BY <1>6, <2>0, <5>2, <6>1, <6>2, <6>3
          <6>6. p < q + L
            <7>0. i \in Nat /\ L \in Nat /\ c \in Nat /\ c < i + L
              BY <1>3, <4>1, <5>3, <6>1
            <7>1. g[q + L] # g[p] /\ ~(g[q + L] < g[p])
              BY <5>2, <6>3, <7>0
            <7>2. ~(q + L < p) /\ q + L # p
              BY <1>6, <2>0, <6>3, <7>1, Zenon
            <7> QED BY <1>3, <6>3, <7>2
          <6>7. q < p
            BY <6>4, <6>5
          <6>8. q + L <= p
            BY <6>2, <6>7
          <6> QED BY <1>3, <6>6, <6>8
        <5> QED BY <1>4, <4>1, <5>3
      <4> QED BY <4>2, <4>3
    <3>5. u[p] # Marker => g[p + 1] = g[p] + 1
      BY <1>3
    <3> HIDE DEF Good, Clear
    <3>6. <<u[p]>> \o from[p + 1] \in Seq(X) /\ StandsFor(<<u[p]>> \o from[p + 1], pv, g[p])
      BY <1>4, <1>9, <2>0, <3>2, <3>4, <3>5, StandsOn
    <3> QED BY <3>3, <3>6
  <2> QED BY <2>1, <2>2
<1>13. Bad = {}
  <2> SUFFICES ASSUME Bad # {} PROVE FALSE
    OBVIOUS
  <2>1. Bad \subseteq Nat
    OBVIOUS
  <2>2. PICK k \in Bad : \A l \in Bad : k <= l
    <3> HIDE DEF Bad
    <3> QED BY <2>1, LeastNumber
  <2>3. k \in Nat /\ k <= N /\ ~Good(N + 1 - k)
    OBVIOUS
  <2> HIDE DEF Good
  <2>4. k # 0
    <3>1. N + 1 - 0 = N + 1
      BY <1>3
    <3> QED BY <1>11, <2>3, <3>1
  <2>5. N + 1 - k \in 1..N
    BY <1>3, <2>3, <2>4
  <2>6. ASSUME NEW q \in ((N + 1 - k) + 1)..(N + 1) PROVE Good(q)
    <3>1. N + 1 - q \in Nat /\ N + 1 - q <= N /\ N + 1 - q < k /\ N + 1 - (N + 1 - q) = q
      BY <1>3, <2>3
    <3>2. N + 1 - q \notin Bad
      <4> HIDE DEF Bad
      <4> QED BY <2>2, <2>3, <3>1
    <3> QED BY <3>1, <3>2
  <2> HIDE DEF Bad
  <2> QED BY <1>12, <2>3, <2>5, <2>6
<1>14. Good(1)
  <2>1. CASE N = 0
    <3>1. N + 1 = 1
      BY <2>1
    <3> HIDE DEF Good
    <3> QED BY <1>11, <3>1
  <2>2. CASE N # 0
    <3>1. N \in Nat /\ N <= N /\ N + 1 - N = 1
      BY <1>3
    <3>2. N \notin Bad
      BY <1>13
    <3> HIDE DEF Good
    <3> QED BY <3>1, <3>2
  <2> QED BY <2>1, <2>2
<1>15. Clear(1)
  OBVIOUS
<1> QED BY <1>2, <1>3, <1>14, <1>15 DEF pv

\* The function that Plain is defined with, from position n on.
IsPlain(from, text, n) ==
  from = [i \in n..(Len(text) + 1) |->
            IF i > Len(text) THEN << >>
            ELSE IF text[i] = Marker THEN from[i + 1] ELSE <<text[i]>> \o from[i + 1]]

LEMMA PlainExists ==
  ASSUME NEW X, NEW text \in Seq(X)
  PROVE  \E from : IsPlain(from, text, 1)
<1> DEFINE L == Len(text)
           S == {k \in Nat : k <= L => \E from : IsPlain(from, text, L + 1 - k)}
<1>0. L \in Nat
  OBVIOUS
<1>1. 0 \in S
  <2> DEFINE f == [i \in (L + 1)..(L + 1) |-> << >>]
  <2>1. f = [i \in (L + 1)..(L + 1) |->
               IF i > L THEN << >> ELSE IF text[i] = Marker THEN f[i + 1] ELSE <<text[i]>> \o f[i + 1]]
    BY <1>0
  <2> HIDE DEF f
  <2>2. IsPlain(f, text, L + 1)
    BY <2>1 DEF IsPlain
  <2>3. L + 1 - 0 = L + 1
    BY <1>0
  <2> QED BY <2>2, <2>3
<1>2. ASSUME NEW k \in S PROVE k + 1 \in S
  <2> SUFFICES ASSUME k + 1 <= L PROVE \E from : IsPlain(from, text, L + 1 - (k + 1))
    OBVIOUS
  <2> DEFINE n == L + 1 - (k + 1)
  <2>1. PICK f : IsPlain(f, text, L + 1 - k)
    BY <1>0
  <2>2. n \in 1..L /\ L + 1 - k = n + 1 /\ ~(n > L)
    BY <1>0
  <2> HIDE DEF n, L, S
  <2> DEFINE Body(g, i) == IF i > L THEN << >>
                           ELSE IF text[i] = Marker THEN g[i + 1] ELSE <<text[i]>> \o g[i + 1]
             g == [i \in n..(L + 1) |-> IF i = n THEN Body(f, n) ELSE f[i]]
  <2>3. \A i \in (n + 1)..(L + 1) : f[i] = Body(f, i)
    BY <2>1, <2>2, Zenon DEF IsPlain, L
  <2>4. ASSUME NEW i \in n..(L + 1) PROVE g[i] = Body(g, i)
    <3>1. \A j \in (n + 1)..(L + 1) : g[j] = f[j]
      BY <1>0, <2>2
    <3>2. i <= L => i + 1 \in (n + 1)..(L + 1)
      BY <1>0, <2>2
    <3>3. Body(g, i) = Body(f, i)
      <4> HIDE DEF g
      <4> QED BY <1>0, <2>2, <3>1, <3>2
    <3>4. CASE i = n
      BY <3>3, <3>4
    <3>5. CASE i # n
      <4>1. i \in (n + 1)..(L + 1)
        BY <1>0, <2>2, <3>5
      <4> QED BY <2>3, <3>1, <3>3, <4>1
    <3> QED BY <3>4, <3>5
  <2>5. IsPlain(g, text, n)
    <3>1. g = [i \in n..(L + 1) |-> Body(g, i)]
      BY <2>4
    <3> HIDE DEF g
    <3> QED BY <3>1 DEF IsPlain, L
  <2> QED BY <2>5 DEF n
<1>3. S = Nat
  <2>1. S \subseteq Nat
    OBVIOUS
  <2> HIDE DEF S
  <2> QED BY <1>1, <1>2, <2>1, Induction
<1>4. L \in S
  BY <1>0, <1>3
<1>5. L + 1 - L = 1
  BY <1>0
<1> HIDE DEF L
<1> QED BY <1>0, <1>4, <1>5

LEMMA PlainIs ==
  ASSUME NEW X, NEW text \in Seq(X)
  PROVE  \E from : /\ Plain(text) = from[1]
                   /\ from[Len(text) + 1] = << >>
                   /\ \A i \in 1..Len(text) :
                        from[i] = IF text[i] = Marker THEN from[i + 1] ELSE <<text[i]>> \o from[i + 1]
<1> DEFINE from == CHOOSE f : IsPlain(f, text, 1)
<1>1. IsPlain(from, text, 1)
  BY PlainExists
<1>2. Plain(text) = from[1]
  BY Zenon DEF Plain, IsPlain
<1>3. /\ Len(text) + 1 \in 1..(Len(text) + 1) /\ Len(text) + 1 > Len(text)
      /\ \A i \in 1..Len(text) : i \in 1..(Len(text) + 1) /\ ~(i > Len(text))
  OBVIOUS
<1> HIDE DEF from
<1>4. \A i \in 1..(Len(text) + 1) :
        from[i] = IF i > Len(text) THEN << >>
                  ELSE IF text[i] = Marker THEN from[i + 1] ELSE <<text[i]>> \o from[i + 1]
  BY <1>1, Zenon DEF IsPlain
<1>5. from[Len(text) + 1] = << >>
  BY <1>3, <1>4, Zenon
<1>6. \A i \in 1..Len(text) :
        from[i] = IF text[i] = Marker THEN from[i + 1] ELSE <<text[i]>> \o from[i + 1]
  BY <1>3, <1>4, Zenon
<1> QED BY <1>2, <1>5, <1>6

\* Texts that stand for each other differ in runs of markers only.
LEMMA PlainAgrees ==
  ASSUME NEW X, NEW a \in Seq(X), NEW v \in Seq(X), StandsFor(a, v, 1)
  PROVE  Plain(a) = Plain(v)
<1> DEFINE N == Len(a)
           M == Len(v)
<1>1. PICK g : Aligns(g, a, v, 1)
  BY DEF StandsFor
<1>2. PICK fa : /\ Plain(a) = fa[1] /\ fa[N + 1] = << >>
                /\ \A i \in 1..N : fa[i] = IF a[i] = Marker THEN fa[i + 1] ELSE <<a[i]>> \o fa[i + 1]
  BY PlainIs, SMTT(30)
<1>3. PICK fv : /\ Plain(v) = fv[1] /\ fv[M + 1] = << >>
                /\ \A i \in 1..M : fv[i] = IF v[i] = Marker THEN fv[i + 1] ELSE <<v[i]>> \o fv[i + 1]
  BY PlainIs, SMTT(30)
<1>4. /\ N \in Nat /\ M \in Nat
      /\ g \in [1..(N + 1) -> 1..(M + 1)] /\ g[1] = 1 /\ g[N + 1] = M + 1
      /\ \A p \in 1..N : /\ g[p] < g[p + 1] /\ \A c \in g[p]..(g[p + 1] - 1) : v[c] = a[p]
                         /\ a[p] # Marker => g[p + 1] = g[p] + 1
  BY <1>1 DEF Aligns
<1> HIDE DEF N, M
<1>5. ASSUME NEW i \in 1..(M + 1), NEW j \in 1..(M + 1), i <= j, \A c \in i..(j - 1) : v[c] = Marker
      PROVE  fv[i] = fv[j]
  <2> DEFINE Bad == {k \in Nat : k <= j - i /\ fv[j - k] # fv[j]}
  <2>1. SUFFICES ASSUME Bad # {} PROVE FALSE
    <3>1. j - i \in Nat /\ j - i <= j - i /\ j - (j - i) = i
      BY <1>5
    <3>2. j - i \notin Bad
      BY <3>1
    <3> QED BY <3>1, <3>2
  <2>2. Bad \subseteq Nat
    OBVIOUS
  <2>3. PICK k \in Bad : \A l \in Bad : k <= l
    <3> HIDE DEF Bad
    <3> QED BY <2>1, <2>2, LeastNumber
  <2>4. k \in Nat /\ k <= j - i /\ fv[j - k] # fv[j]
    OBVIOUS
  <2>5. k # 0
    <3>1. j - 0 = j
      OBVIOUS
    <3> QED BY <2>4, <3>1
  <2>6. k - 1 \in Nat /\ k - 1 <= j - i /\ k - 1 < k /\ j - (k - 1) = (j - k) + 1
    BY <1>4, <1>5, <2>4, <2>5
  <2>7. k - 1 \notin Bad
    <3> HIDE DEF Bad
    <3> QED BY <2>3, <2>4, <2>6
  <2>8. fv[j - (k - 1)] = fv[j]
    BY <2>6, <2>7
  <2>9. j - k \in i..(j - 1) /\ j - k \in 1..M
    BY <1>4, <1>5, <2>4, <2>5
  <2>10. fv[j - k] = fv[(j - k) + 1]
    BY <1>3, <1>5, <2>9
  <2> QED BY <2>4, <2>6, <2>8, <2>10
<1> DEFINE Bad == {k \in Nat : k <= N /\ fa[N + 1 - k] # fv[g[N + 1 - k]]}
<1>6. Bad = {}
  <2>1. SUFFICES ASSUME Bad # {} PROVE FALSE
    OBVIOUS
  <2>2. Bad \subseteq Nat
    OBVIOUS
  <2>3. PICK k \in Bad : \A l \in Bad : k <= l
    <3> HIDE DEF Bad
    <3> QED BY <2>1, <2>2, LeastNumber
  <2> DEFINE p == N + 1 - k
  <2>4. k \in Nat /\ k <= N /\ fa[p] # fv[g[p]]
    OBVIOUS
  <2>5. k # 0
    <3>1. N + 1 - 0 = N + 1
      BY <1>4
    <3> QED BY <1>2, <1>3, <1>4, <2>4, <3>1
  <2>6. k - 1 \in Nat /\ k - 1 <= N /\ k - 1 < k /\ N + 1 - (k - 1) = p + 1 /\ p \in 1..N
    BY <1>4, <2>4, <2>5
  <2>7. k - 1 \notin Bad
    <3> HIDE DEF Bad
    <3> QED BY <2>3, <2>4, <2>6
  <2>8. fa[p + 1] = fv[g[p + 1]]
    <3>1. fa[N + 1 - (k - 1)] = fv[g[N + 1 - (k - 1)]]
      BY <2>6, <2>7
    <3> QED BY <2>6, <3>1
  <2> HIDE DEF p, Bad
  <2>9. /\ g[p] \in 1..(M + 1) /\ g[p + 1] \in 1..(M + 1) /\ g[p] < g[p + 1]
        /\ \A c \in g[p]..(g[p + 1] - 1) : v[c] = a[p]
        /\ a[p] # Marker => g[p + 1] = g[p] + 1
    <3>1. p \in 1..(N + 1) /\ p + 1 \in 1..(N + 1)
      BY <1>4, <2>6
    <3> QED BY <1>4, <2>6, <3>1
  <2>10. CASE a[p] = Marker
    <3>1. fa[p] = fa[p + 1]
      BY <1>2, <2>6, <2>10
    <3>2. \A c \in g[p]..(g[p + 1] - 1) : v[c] = Marker
      BY <2>9, <2>10
    <3>3. g[p] <= g[p + 1]
      BY <2>9
    <3>4. fv[g[p]] = fv[g[p + 1]]
      BY <1>5, <2>9, <3>2, <3>3
    <3> QED BY <2>4, <2>8, <3>1, <3>4
  <2>11. CASE a[p] # Marker
    <3>1. fa[p] = <<a[p]>> \o fa[p + 1]
      BY <1>2, <2>6, <2>11
    <3>2. g[p + 1] = g[p] + 1 /\ g[p] \in g[p]..(g[p + 1] - 1) /\ g[p] \in 1..M
      BY <1>4, <2>9, <2>11
    <3>4. v[g[p]] = a[p] /\ v[g[p]] # Marker
      BY <2>9, <2>11, <3>2
    <3>3. fv[g[p]] = <<v[g[p]]>> \o fv[g[p] + 1]
      BY <1>3, <3>2, <3>4
    <3> QED BY <2>4, <2>8, <3>1, <3>2, <3>3, <3>4
  <2> QED BY <2>10, <2>11
<1>7. fa[1] = fv[g[1]]
  <2>1. CASE N = 0
    <3>1. N + 1 = 1
      BY <2>1
    <3> QED BY <1>2, <1>3, <1>4, <3>1
  <2>2. CASE N # 0
    <3>1. N \in Nat /\ N <= N /\ N + 1 - N = 1
      BY <1>4
    <3>2. N \notin Bad
      BY <1>6
    <3>3. fa[N + 1 - N] = fv[g[N + 1 - N]]
      BY <3>1, <3>2
    <3> QED BY <3>1, <3>3
  <2> QED BY <2>1, <2>2
<1> QED BY <1>2, <1>3, <1>4, <1>7

\* A text without the symbols that words of a set cover.
Hidden(text, ws) ==
  {c \in DOMAIN text : \E i \in 1..c, w \in ws : Occurs(w, text, i) /\ c < i + Len(w)}
Veiled(text, C) == [c \in DOMAIN text |-> IF c \in C THEN Marker ELSE text[c]]

\* An occurrence of v holds those of w that begin inside it.
Holds(v, w, text) ==
  \A i, j \in DOMAIN text :
    Occurs(v, text, i) /\ Occurs(w, text, j) /\ i < j /\ j < i + Len(v) => j + Len(w) <= i + Len(v)

\* The words that are painted first are no shorter, so that what they have left of w
\* is nothing or all of it.
LEMMA VeilGrows ==
  ASSUME NEW X, Marker \in X, NEW text \in Seq(X), NEW ws, NEW w \in Seq(X), w # << >>, Whole(w),
         Holds(w, w, text),
         \A v \in ws : v \in Seq(X) /\ Len(v) >= Len(w) /\ Holds(v, w, text) /\ Holds(w, v, text)
  PROVE  LET before == Veiled(text, Hidden(text, ws))
         IN  /\ before \in Seq(X) /\ Len(before) = Len(text)
             /\ Painted(before, w) = Veiled(text, Hidden(text, ws \cup {w}))
             /\ \A i, j \in 1..Len(before) :
                  Occurs(w, before, i) /\ Occurs(w, before, j) /\ i < j => i + Len(w) <= j
<1> DEFINE C == Hidden(text, ws)
           b == Veiled(text, C)
           L == Len(w)
           M == Len(text)
<1>1. L \in Nat \ {0} /\ M \in Nat /\ DOMAIN text = 1..M
  OBVIOUS
<1>2. /\ b \in Seq(X) /\ Len(b) = M /\ DOMAIN b = 1..M
      /\ \A c \in 1..M : b[c] = IF c \in C THEN Marker ELSE text[c]
  <2>1. b = [c \in 1..M |-> IF c \in C THEN Marker ELSE text[c]]
    BY <1>1 DEF Veiled
  <2>2. \A c \in 1..M : (IF c \in C THEN Marker ELSE text[c]) \in X
    BY <1>1
  <2> HIDE DEF C, b, M
  <2>3. b \in [1..M -> X]
    BY <2>1, <2>2
  <2>4. b \in Seq(X) /\ Len(b) = M
    BY <1>1, <2>3
  <2> QED BY <1>1, <2>1, <2>4
<1>3. \A i \in 1..M : Occurs(w, text, i) <=>
        i + L - 1 <= M /\ \A k \in 1..L : text[i + k - 1] = w[k]
  BY <1>1, OccursIs
<1>4. \A i \in 1..M : Occurs(w, b, i) <=>
        i + L - 1 <= M /\ \A k \in 1..L : b[i + k - 1] = w[k]
  <2> SUFFICES ASSUME NEW i \in 1..M
               PROVE  Occurs(w, b, i) <=> i + L - 1 <= M /\ \A k \in 1..L : b[i + k - 1] = w[k]
    OBVIOUS
  <2> HIDE DEF b, M
  <2>1. i \in Nat \ {0}
    BY <1>1
  <2> QED BY <1>2, <2>1, OccursIs
<1>5. C = {c \in 1..M : \E i \in 1..c, v \in ws : Occurs(v, text, i) /\ c < i + Len(v)}
  BY <1>1 DEF Hidden
<1> HIDE DEF C, b, L, M
<1>6. \A k \in 1..L : w[k] # Marker
  BY DEF Whole, L
<1>7. ASSUME NEW i \in 1..M, Occurs(w, b, i)
      PROVE  Occurs(w, text, i)
  <2>1. \A k \in 1..L : b[i + k - 1] = w[k] /\ i + k - 1 \in 1..M
    BY <1>1, <1>4, <1>7
  <2>2. \A k \in 1..L : text[i + k - 1] = w[k]
    BY <1>2, <1>6, <2>1
  <2> QED BY <1>3, <1>4, <1>7, <2>2
<1>8. ASSUME NEW i \in 1..M, Occurs(w, text, i), NEW c \in 1..M, i <= c, c < i + L, c \notin C
      PROVE  Occurs(w, b, i)
  <2>1. i + L - 1 <= M
    BY <1>3, <1>8
  <2>2. ASSUME NEW k \in 1..L, i + k - 1 \in C PROVE FALSE
    <3> DEFINE d == i + k - 1
    <3>1. d \in 1..M /\ d >= i /\ d < i + L
      BY <1>1, <2>1
    <3> HIDE DEF d
    <3>2. PICK j \in 1..d, v \in ws : Occurs(v, text, j) /\ d < j + Len(v)
      BY <1>5, <2>2 DEF d
    <3>3. j \in 1..M /\ Len(v) \in Nat /\ Len(v) >= L
      <4>1. v \in Seq(X) /\ Len(v) >= L
        BY DEF L
      <4> QED BY <1>1, <3>1, <4>1
    <3>4. CASE j <= i
      <4>1. i + L <= j + Len(v)
        <5>1. CASE j = i
          BY <1>1, <3>3, <5>1
        <5>2. CASE j < i
          BY <1>1, <1>8, <3>1, <3>2, <3>3, <5>2 DEF Holds, L
        <5> QED BY <3>3, <3>4, <5>1, <5>2
      <4>2. c < j + Len(v) /\ j \in 1..c
        BY <1>1, <1>8, <3>3, <3>4, <4>1
      <4> QED BY <1>5, <1>8, <3>2, <4>2
    <3>5. CASE i < j
      <4>1. j + Len(v) <= i + L
        <5>1. Holds(w, v, text) /\ i \in DOMAIN text /\ j \in DOMAIN text
          BY <1>1, <3>3
        <5>2. j < i + Len(w)
          BY <1>1, <3>1, <3>2, <3>3 DEF L
        <5> QED BY <1>8, <3>2, <3>5, <5>1, <5>2 DEF Holds, L
      <4> QED BY <1>1, <3>3, <3>5, <4>1
    <3> QED BY <3>3, <3>4, <3>5
  <2>3. \A k \in 1..L : b[i + k - 1] = w[k]
    <3> SUFFICES ASSUME NEW k \in 1..L PROVE b[i + k - 1] = w[k]
      OBVIOUS
    <3>1. i + k - 1 \in 1..M
      BY <1>1, <2>1
    <3>3. i + k - 1 \notin C
      BY <2>2
    <3>2. text[i + k - 1] = w[k]
      BY <1>3, <1>8
    <3> QED BY <1>2, <3>1, <3>2, <3>3
  <2> QED BY <1>4, <2>1, <2>3
<1>9. Painted(b, w) = Veiled(text, Hidden(text, ws \cup {w}))
  <2> DEFINE D == Hidden(text, ws \cup {w})
  <2>1. ASSUME NEW c \in 1..M
        PROVE  c \in D <=> c \in C \/ \E i \in 1..c : Occurs(w, text, i) /\ c < i + L
    BY <1>1, <1>5 DEF Hidden, L
  <2>2. ASSUME NEW c \in 1..M
        PROVE  (IF \E i \in 1..c : Occurs(w, b, i) /\ c < i + L THEN Marker ELSE b[c])
                  = IF c \in D THEN Marker ELSE text[c]
    <3>1. CASE c \in C
      BY <1>2, <2>1, <3>1
    <3>2. CASE c \notin C
      <4>1. ASSUME NEW i \in 1..c PROVE Occurs(w, b, i) /\ c < i + L <=> Occurs(w, text, i) /\ c < i + L
        <5>1. i \in 1..M /\ i <= c
          BY <1>1
        <5> QED BY <1>7, <1>8, <3>2, <5>1
      <4> HIDE DEF D
      <4> QED BY <1>2, <2>1, <3>2, <4>1
    <3> QED BY <3>1, <3>2
  <2>3. Painted(b, w) = [c \in 1..M |-> IF \E i \in 1..c : Occurs(w, b, i) /\ c < i + L THEN Marker ELSE b[c]]
    BY <1>2 DEF Painted, L
  <2>4. Veiled(text, D) = [c \in 1..M |-> IF c \in D THEN Marker ELSE text[c]]
    BY <1>1 DEF Veiled
  <2> HIDE DEF D
  <2>5. Painted(b, w) = Veiled(text, D)
    BY <2>2, <2>3, <2>4
  <2> QED BY <2>5 DEF D
<1>10. ASSUME NEW i \in 1..M, NEW j \in 1..M, Occurs(w, b, i), Occurs(w, b, j), i < j
       PROVE  i + L <= j
  <2>1. Occurs(w, text, i) /\ Occurs(w, text, j)
    BY <1>7, <1>10
  <2>2. j < i + L => j + L <= i + L
    BY <1>1, <1>10, <2>1 DEF Holds, L
  <2> QED BY <1>1, <1>10, <2>2
<1> QED BY <1>2, <1>9, <1>10 DEF b, C, L, M

\* The function that Redacted is defined with, over the first n words.
IsRedaction(after, text, words, n) ==
  after = [i \in 0..n |-> IF i = 0 THEN text ELSE Replaced(after[i - 1], words[i])]

LEMMA RedactionExists ==
  ASSUME NEW text, NEW words, NEW n \in Nat
  PROVE  \E after : IsRedaction(after, text, words, n)
<1> DEFINE S == {k \in Nat : \E after : IsRedaction(after, text, words, k)}
<1>1. 0 \in S
  <2> DEFINE f == [i \in 0..0 |-> text]
  <2>1. f = [i \in 0..0 |-> IF i = 0 THEN text ELSE Replaced(f[i - 1], words[i])]
    OBVIOUS
  <2> HIDE DEF f
  <2> QED BY <2>1 DEF IsRedaction
<1>2. ASSUME NEW k \in S PROVE k + 1 \in S
  <2>1. PICK f : IsRedaction(f, text, words, k)
    OBVIOUS
  <2> DEFINE g == [i \in 0..(k + 1) |-> IF i <= k THEN f[i] ELSE Replaced(f[i - 1], words[i])]
  <2>2. \A i \in 0..k : f[i] = IF i = 0 THEN text ELSE Replaced(f[i - 1], words[i])
    BY <2>1, Zenon DEF IsRedaction
  <2>3. ASSUME NEW i \in 0..(k + 1)
        PROVE  g[i] = IF i = 0 THEN text ELSE Replaced(g[i - 1], words[i])
    <3>1. i # 0 => i - 1 \in 0..k /\ g[i - 1] = f[i - 1]
      OBVIOUS
    <3>2. CASE i \in 0..k
      <4>1. g[i] = f[i]
        BY <3>2
      <4> QED BY <2>2, <3>1, <3>2, <4>1
    <3>3. CASE i = k + 1
      <4>1. g[i] = Replaced(f[i - 1], words[i]) /\ i # 0
        BY <3>3
      <4> QED BY <3>1, <4>1
    <3> QED BY <3>2, <3>3
  <2>4. IsRedaction(g, text, words, k + 1)
    <3>1. g = [i \in 0..(k + 1) |-> IF i = 0 THEN text ELSE Replaced(g[i - 1], words[i])]
      BY <2>3
    <3> HIDE DEF g
    <3> QED BY <3>1 DEF IsRedaction
  <2> QED BY <2>4
<1>3. S = Nat
  <2>1. S \subseteq Nat
    OBVIOUS
  <2> HIDE DEF S
  <2> QED BY <1>1, <1>2, <2>1, Induction
<1>4. n \in S
  BY <1>3
<1> QED BY <1>4

\* What redaction makes of a text stands for the text without what the words cover,
\* whichever order they are in that has no shorter before a longer.
LEMMA RedactedStands ==
  ASSUME NEW X, Marker \in X, NEW text \in Seq(X), NEW words \in Seq(Seq(X)),
         \A i \in 1..Len(words) : words[i] # << >> /\ Whole(words[i]),
         \A i, j \in 1..Len(words) : i < j => Len(words[i]) >= Len(words[j]),
         \A i, j \in 1..Len(words) : Holds(words[i], words[j], text)
  PROVE  /\ Redacted(text, words) \in Seq(X)
         /\ StandsFor(Redacted(text, words), Veiled(text, Hidden(text, Range(words))), 1)
<1> DEFINE N == Len(words)
           W(n) == {words[k] : k \in 1..n}
           after == CHOOSE f : IsRedaction(f, text, words, N)
           Good(n) == after[n] \in Seq(X) /\ StandsFor(after[n], Veiled(text, Hidden(text, W(n))), 1)
           S == {n \in Nat : n <= N => Good(n)}
<1>0. N \in Nat /\ \A i \in 1..N : words[i] \in Seq(X)
  OBVIOUS
<1>1. IsRedaction(after, text, words, N)
  BY <1>0, RedactionExists
<1>2. Redacted(text, words) = after[N]
  BY Zenon DEF Redacted, IsRedaction
<1> HIDE DEF after, N
<1>3. \A i \in 0..N : after[i] = IF i = 0 THEN text ELSE Replaced(after[i - 1], words[i])
  BY <1>1, Zenon DEF IsRedaction
<1>4. after[0] = text /\ \A i \in 1..N : after[i] = Replaced(after[i - 1], words[i])
  <2>1. 0 \in 0..N /\ \A i \in 1..N : i \in 0..N /\ i # 0
    BY <1>0
  <2> QED BY <1>3, <2>1, Zenon
<1>5. 0 \in S
  <2>1. Hidden(text, W(0)) = {}
    BY DEF Hidden
  <2>2. Veiled(text, {}) = text
    BY DEF Veiled
  <2>3. StandsFor(text, text, 1)
    BY StandsAlone
  <2> QED BY <1>4, <2>1, <2>2, <2>3
<1>6. ASSUME NEW n \in S PROVE n + 1 \in S
  <2> SUFFICES ASSUME n + 1 <= N PROVE Good(n + 1)
    OBVIOUS
  <2> DEFINE w == words[n + 1]
             u == after[n]
             v == Veiled(text, Hidden(text, W(n)))
  <2>1. n \in Nat /\ n + 1 \in 1..N /\ (n + 1) - 1 = n /\ u \in Seq(X) /\ StandsFor(u, v, 1)
    BY <1>0
  <2>2. w \in Seq(X) /\ w # << >> /\ Whole(w) /\ Holds(w, w, text)
    BY <1>0, <2>1 DEF N
  <2>3. \A x \in W(n) : x \in Seq(X) /\ Len(x) >= Len(w) /\ Holds(x, w, text) /\ Holds(w, x, text)
    <3> SUFFICES ASSUME NEW k \in 1..n
                 PROVE  /\ words[k] \in Seq(X) /\ Len(words[k]) >= Len(w)
                        /\ Holds(words[k], w, text) /\ Holds(w, words[k], text)
      OBVIOUS
    <3>1. k \in 1..N /\ k < n + 1
      BY <1>0, <2>1
    <3> QED BY <1>0, <2>1, <3>1 DEF N
  <2>4. W(n + 1) = W(n) \cup {w}
    <3>1. 1..(n + 1) = 1..n \cup {n + 1}
      BY <2>1
    <3> QED BY <3>1
  <2>5. after[n + 1] = Replaced(u, w)
    BY <1>4, <2>1
  <2> DEFINE ws == W(n)
  <2> HIDE DEF w, u, ws
  <2>6. /\ v \in Seq(X)
        /\ Painted(v, w) = Veiled(text, Hidden(text, ws \cup {w}))
        /\ \A i, j \in 1..Len(v) : Occurs(w, v, i) /\ Occurs(w, v, j) /\ i < j => i + Len(w) <= j
    <3>1. \A x \in ws : x \in Seq(X) /\ Len(x) >= Len(w) /\ Holds(x, w, text) /\ Holds(w, x, text)
      BY <2>3 DEF ws
    <3>2. v = Veiled(text, Hidden(text, ws))
      BY DEF ws
    <3> HIDE DEF v
    <3>3. LET before == Veiled(text, Hidden(text, ws))
          IN  /\ before \in Seq(X) /\ Len(before) = Len(text)
              /\ Painted(before, w) = Veiled(text, Hidden(text, ws \cup {w}))
              /\ \A i, j \in 1..Len(before) :
                   Occurs(w, before, i) /\ Occurs(w, before, j) /\ i < j => i + Len(w) <= j
      BY <2>2, <3>1, VeilGrows, Zenon
    <3> QED BY <3>2, <3>3
  <2> HIDE DEF v
  <2>7. Replaced(u, w) \in Seq(X) /\ StandsFor(Replaced(u, w), Painted(v, w), 1)
    BY <2>1, <2>2, <2>6, ReplacedStands
  <2> QED BY <2>4, <2>5, <2>6, <2>7 DEF ws
<1>7. S = Nat
  <2>1. S \subseteq Nat
    OBVIOUS
  <2> HIDE DEF S
  <2> QED BY <1>5, <1>6, <2>1, Induction
<1>8. Good(N)
  <2>1. N \in S
    <3> HIDE DEF S
    <3> QED BY <1>0, <1>7
  <2> HIDE DEF Good
  <2> QED BY <1>0, <2>1
<1>9. Range(words) = W(N)
  BY DEF Range, N
<1> QED BY <1>2, <1>8, <1>9

Alphabet(text) == Range(text) \cup {Marker} \cup UNION {Range(w) : w \in Words}

LEMMA WordsAreLists ==
  ASSUME NEW text, IsList(text)
  PROVE  text \in Seq(Alphabet(text)) /\ \A w \in Words : w \in Seq(Alphabet(text)) /\ Whole(w)
<1>1. text \in Seq(Alphabet(text))
  <2>1. text \in Seq(Range(text)) /\ Range(text) \subseteq Alphabet(text)
    BY DEF IsList, Alphabet
  <2> HIDE DEF Alphabet
  <2> QED BY <2>1
<1>2. ASSUME NEW w \in Words PROVE w \in Seq(Alphabet(text)) /\ Whole(w)
  <2>1. w \in Seq(Range(w)) /\ Range(w) \subseteq Alphabet(text) /\ Marker \notin Range(w)
    BY WordsAssumption DEF IsList, Alphabet
  <2>2. w \in Seq(Alphabet(text))
    BY <2>1
  <2>3. \A k \in 1..Len(w) : w[k] \in Range(w)
    BY <2>1 DEF Range
  <2> QED BY <2>1, <2>2, <2>3 DEF Whole
<1> QED BY <1>1, <1>2

\* What all detectors find in a text, and what covers it.
LEMMA MatchedCovers ==
  ASSUME NEW text, IsList(text)
  PROVE  /\ Matched(text, DOMAIN Knows) \subseteq Words \ {<< >>}
         /\ Covered(text) = Hidden(text, Matched(text, DOMAIN Knows))
<1> DEFINE all == Matched(text, DOMAIN Knows)
<1>1. \A w : w \in all <=> w # << >> /\ \E d \in DOMAIN Knows : \E f \in Findings(d, text) : w = f.match
  BY DEF Matched
<1>2. ASSUME NEW d \in DOMAIN Knows
      PROVE  Findings(d, text) = {[detector |-> d, match |-> k.word, score |-> k.score] :
               k \in {j \in Knows[d] : \E i \in DOMAIN text : Occurs(j.word, text, i)}}
  BY RegisteredAssumption DEF Findings
<1> HIDE DEF all
<1>3. \A w : w \in all <=> w # << >> /\ \E d \in DOMAIN Knows : \E k \in Knows[d] :
                             w = k.word /\ \E i \in DOMAIN text : Occurs(w, text, i)
  <2> SUFFICES ASSUME NEW w, w # << >>
               PROVE  w \in all <=> \E d \in DOMAIN Knows : \E k \in Knows[d] :
                             w = k.word /\ \E i \in DOMAIN text : Occurs(w, text, i)
    BY <1>1
  <2>1. ASSUME w \in all
        PROVE  \E d \in DOMAIN Knows : \E k \in Knows[d] :
                 w = k.word /\ \E i \in DOMAIN text : Occurs(w, text, i)
    <3>1. PICK d \in DOMAIN Knows : \E f \in Findings(d, text) : w = f.match
      BY <1>1, <2>1
    <3>2. PICK k \in Knows[d] : /\ \E i \in DOMAIN text : Occurs(k.word, text, i)
                                /\ w = [detector |-> d, match |-> k.word, score |-> k.score].match
      BY <1>2, <3>1
    <3> QED BY <3>2
  <2>2. ASSUME NEW d \in DOMAIN Knows, NEW k \in Knows[d], w = k.word,
               \E i \in DOMAIN text : Occurs(w, text, i)
        PROVE  w \in all
    <3> DEFINE f == [detector |-> d, match |-> k.word, score |-> k.score]
    <3>1. f \in Findings(d, text) /\ f.match = w
      BY <1>2, <2>2
    <3> QED BY <1>1, <3>1
  <2> QED BY <2>1, <2>2
<1>4. \A w : w \in Words <=> \E d \in DOMAIN Knows : \E k \in Knows[d] : w = k.word
  BY DEF Words
<1>5. \A w : w \in all <=> w \in Words \ {<< >>} /\ \E i \in DOMAIN text : Occurs(w, text, i)
  BY <1>3, <1>4
<1>6. DOMAIN text = 1..Len(text) /\ Len(text) \in Nat
  BY WordsAreLists
<1>7. Covered(text) = Hidden(text, all)
  <2>1. \A c \in DOMAIN text : 1..c \subseteq DOMAIN text
    BY <1>6
  <2> QED BY <1>5, <2>1 DEF Covered, Hidden
<1> QED BY <1>5, <1>7 DEF all

\* An order of them has each once, and none before a longer one.
LEMMA OrdersAre ==
  ASSUME NEW X, NEW S, IsFiniteSet(S), S \subseteq Seq(X), NEW words \in Orders(S)
  PROVE  /\ words \in Seq(Seq(X)) /\ Range(words) = S
         /\ \A i, j \in 1..Len(words) : i < j => Len(words[i]) >= Len(words[j])
<1> DEFINE n == Cardinality(S)
<1>1. n \in Nat
  BY FS_CardinalityType
<1>2. /\ words \in [1..n -> S]
      /\ \A i, j \in 1..n : i # j => words[i] # words[j]
      /\ \A i, j \in DOMAIN words : i < j => ~(Len(words[j]) > Len(words[i]))
  BY DEF Orders, SetToSeqs, LongerFirst
<1> HIDE DEF n
<1>3. words \in Injection(1..n, S)
  BY <1>2 DEF Injection, IsInjective
<1>4. IsFiniteSet(1..n) /\ Cardinality(1..n) = n
  BY <1>1, FS_Interval
<1>5. words \in Surjection(1..n, S)
  BY <1>3, <1>4, FS_Injection DEF n
<1>6. Range(words) = S
  BY <1>2, <1>5 DEF Range, Surjection
<1>7. words \in Seq(Seq(X)) /\ Len(words) = n
  BY <1>1, <1>2
<1>8. ASSUME NEW i \in 1..n, NEW j \in 1..n, i < j PROVE Len(words[i]) >= Len(words[j])
  <2>1. words[i] \in Seq(X) /\ words[j] \in Seq(X)
    BY <1>2
  <2>2. Len(words[i]) \in Nat /\ Len(words[j]) \in Nat
    BY <2>1
  <2> QED BY <1>2, <1>8, <2>2
<1> QED BY <1>6, <1>7, <1>8

\* Where the matches of a text nest, redaction leaves all that they do not cover, and
\* nothing else.
LEMMA RedactionIsExact ==
  ASSUME NEW text, IsList(text), Nested(text), NEW words \in Orders(Matched(text, DOMAIN Knows))
  PROVE  Plain(Redacted(text, words)) =
           Plain([i \in DOMAIN text |-> IF i \in Covered(text) THEN Marker ELSE text[i]])
<1> DEFINE X == Alphabet(text)
           S == Matched(text, DOMAIN Knows)
<1>1. text \in Seq(X) /\ Marker \in X /\ \A w \in Words : w \in Seq(X) /\ Whole(w)
  <2>1. Marker \in X
    BY DEF Alphabet
  <2> QED BY <2>1, WordsAreLists
<1>2. S \subseteq Words \ {<< >>} /\ Covered(text) = Hidden(text, S)
  BY MatchedCovers
<1> HIDE DEF X, S
<1>3. IsFiniteSet(S) /\ S \subseteq Seq(X)
  BY <1>1, <1>2, WordsAssumption, FS_Subset
<1>4. /\ words \in Seq(Seq(X)) /\ Range(words) = S
      /\ \A i, j \in 1..Len(words) : i < j => Len(words[i]) >= Len(words[j])
  BY <1>3, OrdersAre DEF S
<1>5. \A i \in 1..Len(words) : words[i] \in S
  BY <1>4 DEF Range
<1>6. \A i \in 1..Len(words) : words[i] # << >> /\ Whole(words[i])
  BY <1>1, <1>2, <1>5
<1>7. \A i, j \in 1..Len(words) : Holds(words[i], words[j], text)
  <2>1. \A v, w \in Words : Holds(v, w, text)
    BY Zenon DEF Nested, Holds
  <2> QED BY <1>2, <1>5, <2>1
<1> DEFINE v == Veiled(text, Hidden(text, S))
<1>8. Redacted(text, words) \in Seq(X) /\ StandsFor(Redacted(text, words), v, 1)
  BY <1>1, <1>4, <1>6, <1>7, RedactedStands
<1>9. v \in Seq(X)
  <2> DEFINE C == Hidden(text, S)
  <2> HIDE DEF C
  <2>1. Veiled(text, C) = [c \in 1..Len(text) |-> IF c \in C THEN Marker ELSE text[c]]
    BY <1>1 DEF Veiled
  <2>2. \A c \in 1..Len(text) : (IF c \in C THEN Marker ELSE text[c]) \in X
    BY <1>1
  <2>3. Veiled(text, C) \in [1..Len(text) -> X] /\ Len(text) \in Nat
    BY <1>1, <2>1, <2>2
  <2>4. Veiled(text, C) \in Seq(X)
    BY <2>3
  <2> QED BY <2>4 DEF C
<1>10. Plain(Redacted(text, words)) = Plain(v)
  <2> HIDE DEF v
  <2> QED BY <1>8, <1>9, PlainAgrees
<1>11. v = [i \in DOMAIN text |-> IF i \in Covered(text) THEN Marker ELSE text[i]]
  BY <1>2 DEF Veiled
<1> QED BY <1>10, <1>11

-------------------------------------------------------------------------------
\* The theorems.

\* DetectionInv is an inductive invariant of Detection: what the detector remembers of
\* a tool agrees with all it was shown and has on disk, until a change of it is told.
THEOREM DetectionAgrees == Spec => []DetectionInv
<1>1. Init => DetectionInv
  <2> SUFFICES ASSUME Init PROVE DetectionInv
    OBVIOUS
  <2>1. PlaceInv
    BY FirstDocAssumption DEF Init, PlaceInv
  <2>2. HistoryInv
    <3>1. Comparisons = {} /\ compared \in [ToolNames -> Nat]
      BY DEF Init, Comparisons, Evaluations
    <3> QED BY <3>1 DEF HistoryInv, ToldUnless
  <2>3. StoreInv /\ ShownInv
    BY DEF Init, StoreInv, ShownInv, Running, LastOf
  <2> QED BY <2>1, <2>2, <2>3 DEF Init, DetectionInv, DoneInv, DecidedByOnePolicy, RedactedInv
<1>2. DetectionInv /\ [Next]_vars => DetectionInv'
  BY PlaceStep, HistoryStep, StoreStep, ShownStep, DecidedStep, RedactedStep DEF DetectionInv
<1> QED BY <1>1, <1>2, PTL DEF Spec

\* Engine.Evaluate decides by one policy, the one that was active when it began, and in
\* its order: the first of the user's rules that fires, then the packs', whatever is
\* reloaded, restarted or failing meanwhile.
THEOREM DecisionsAreOfOnePolicy == Spec => []DecidedByOnePolicy
<1>1. DetectionInv => DecidedByOnePolicy
  BY DEF DetectionInv
<1> QED BY <1>1, DetectionAgrees, PTL

\* No change of a tool's definition passes unheard: of two comparisons with different
\* definitions, the later one or one between them was told by its evaluation, or ended
\* with its process, or the process was started anew - with NewPersistent only if the
\* tool's last record was not written, or written out of order.
THEOREM ChangesAreTold == Spec => []NoSilentChange
<1>1. DetectionInv => NoSilentChange
  <2> SUFFICES ASSUME DetectionInv, NEW d \in done, Consulted(d), NEW t \in Range(d.msg.tools),
                      t.name # NoName
               PROVE  \E s \in d.shown : s.name = t.name /\ s.definition = t.definition
    BY DEF NoSilentChange, DetectionInv, HistoryInv
  <2>1. PICK i \in DOMAIN d.msg.tools : t = d.msg.tools[i]
    BY DEF Range
  <2> QED BY <2>1 DEF DetectionInv, ShownInv, Displayed
<1> QED BY <1>1, DetectionAgrees, PTL

\* redactString takes out every symbol of every match that the detectors find, of those
\* inside another too, and leaves all others, where no two matches overlap otherwise:
\* since the longer are replaced first, each is still whole, or gone, when its turn comes.
THEOREM RedactionIsComplete == Spec => []RedactionCovers
<1>1. DetectionInv => RedactionCovers
  <2> SUFFICES ASSUME DetectionInv,
                      NEW e \in done, e.action = "redact", ~e.blind, Nested(e.msg.text)
               PROVE  Plain(e.out) = Plain([i \in DOMAIN e.msg.text |->
                        IF i \in Covered(e.msg.text) THEN Marker ELSE e.msg.text[i]])
    BY Zenon DEF RedactionCovers
  <2>1. IsList(e.msg.text)
    BY ListsAssumption DEF DetectionInv, DoneInv
  <2>2. PICK words \in Orders(Matched(e.msg.text, DOMAIN Knows)) :
          e.out = Redacted(e.msg.text, words)
    BY DEF DetectionInv, RedactedInv
  <2> QED BY <2>1, <2>2, RedactionIsExact
<1> QED BY <1>1, DetectionAgrees, PTL
===============================================================================
