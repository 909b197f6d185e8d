----------------------------- MODULE PolicyWatch ------------------------------
(***************************************************************************)
(* Hot reload of the policy (src/internal/policy/watch.go and engine.go):  *)
(* a command loads policy.yaml, compiles it into an Engine, attaches the   *)
(* detector registry and starts the watcher goroutine (wrap.go:66-89,      *)
(* proxy.go and hub.go alike).  The watcher polls the file's mtime and     *)
(* size; on a change it loads the file again and swaps the new rules into  *)
(* the engine's atomic pointer.  Meanwhile somebody edits the file.        *)
(*                                                                         *)
(* The content of a save is the number of the save and whether it is the   *)
(* whole file or only what an editor that rewrites it in place has written *)
(* so far.  A stamp is what snapshot returns, the pair of mtime and size;  *)
(* 0 is the pair of zero values, for a file that could not be seen.        *)
(***************************************************************************)
EXTENDS Naturals

CONSTANTS
  Unparsable,   \* saves whose text is not a policy: Load fails
  Uncompilable, \* saves with a bad pattern: Reload fails
  HalfParses,   \* saves whose first part is a (shorter) policy
  MayDisturb,   \* which of "early", "same", "unread" may happen, see below
  MaxSaves      \* bound on the number of saves

ASSUME SavesAssumption ==
  /\ \A S \in {Unparsable, Uncompilable, HalfParses} : S \subseteq Nat \ {0}
  /\ MaxSaves \in Nat
ASSUME MayDisturbAssumption == MayDisturb \subseteq {"early", "same", "unread"}

VARIABLES
  file,      \* [save, whole]: the content of policy.yaml
  stamp,     \* its mtime and size
  main,      \* where the command's startup is
  state,     \* the engineState: [rules, registry]
  next,      \* the copy of it SetRegistry is about to store
  watcher,   \* where the watcher goroutine is
  lastStamp, \* lastMtime and lastSize
  loaded,    \* what the command or the watcher has just loaded
  hidden     \* is the file's last write one the watcher cannot notice

engineVars  == <<state, next>>
watcherVars == <<watcher, lastStamp>>
vars == <<file, stamp, main, engineVars, watcherVars, loaded, hidden>>

Content == [save : Nat, whole : BOOLEAN]
NoRules == [save |-> 0, whole |-> FALSE]

Parses(c) == IF c.whole THEN c.save \notin Unparsable ELSE c.save \in HalfParses
Compiles(c) == c.whole => c.save \notin Uncompilable
Usable(c) == Parses(c) /\ Compiles(c)

Init ==
  /\ file = [save |-> 0, whole |-> TRUE] /\ stamp = 1
  /\ main = "load"
  /\ state = [rules |-> NoRules, registry |-> FALSE]
  /\ next = [rules |-> NoRules, registry |-> FALSE]
  /\ watcher = "off" /\ lastStamp = 0
  /\ loaded = NoRules /\ hidden = FALSE

-------------------------------------------------------------------------------
\* The command's startup.

WatchFirst == [load |-> "compile", compile |-> "watch", watch |-> "registry",
               registry |-> "store", store |-> "serve"]
Order == [load |-> "compile", compile |-> "registry", registry |-> "store",
          store |-> "watch", watch |-> "serve"]

\* config.Load; the command ends with an error if it fails.
StartLoad ==
  /\ main = "load"
  /\ IF Parses(file) THEN main' = Order["load"] /\ loaded' = file
     ELSE main' = "failed" /\ UNCHANGED loaded
  /\ UNCHANGED <<file, stamp, engineVars, watcherVars, hidden>>

\* policy.NewEngine.
NewEngine ==
  /\ main = "compile"
  /\ IF Compiles(loaded)
     THEN main' = Order["compile"] /\ state' = [rules |-> loaded, registry |-> FALSE]
     ELSE main' = "failed" /\ UNCHANGED state
  /\ UNCHANGED <<file, stamp, next, watcherVars, loaded, hidden>>

\* SetRegistry copies the state, changes the copy, and stores it.
SetRegistryLoads ==
  /\ main = "registry"
  /\ next' = [state EXCEPT !.registry = TRUE]
  /\ main' = Order["registry"]
  /\ UNCHANGED <<file, stamp, state, watcherVars, loaded, hidden>>

SetRegistryStores ==
  /\ main = "store"
  /\ state' = next
  /\ main' = Order["store"]
  /\ UNCHANGED <<file, stamp, next, watcherVars, loaded, hidden>>

StartWatcher ==
  /\ main = "watch"
  /\ watcher' = "baseline"
  /\ main' = Order["watch"]
  /\ UNCHANGED <<file, stamp, engineVars, lastStamp, loaded, hidden>>

-------------------------------------------------------------------------------
\* The watcher goroutine.

\* What snapshot may return: it is 0 when the file cannot be seen just then.
Snapshot == {stamp} \cup (IF "unread" \in MayDisturb THEN {0} ELSE {})

\* The first snapshot, in the goroutine itself.
Baseline ==
  /\ watcher = "baseline"
  /\ \E seen \in Snapshot : lastStamp' = seen
  /\ watcher' = "poll"
  /\ UNCHANGED <<file, stamp, main, engineVars, loaded, hidden>>

\* A tick: a new stamp is remembered before the file is read.
Poll ==
  /\ watcher = "poll"
  /\ \E seen \in Snapshot \ {lastStamp} : lastStamp' = seen
  /\ watcher' = "load"
  /\ UNCHANGED <<file, stamp, main, engineVars, loaded, hidden>>

\* Loader.Load.  A failure is reported and the tick is over.
Load ==
  /\ watcher = "load"
  /\ IF Parses(file) THEN watcher' = "reload" /\ loaded' = file
     ELSE watcher' = "poll" /\ UNCHANGED loaded
  /\ hidden' = FALSE
  /\ UNCHANGED <<file, stamp, main, engineVars, lastStamp>>

\* The file cannot be opened just then, though its stamp may be remembered.
LoadUnread ==
  /\ watcher = "load" /\ "unread" \in MayDisturb
  /\ watcher' = "poll"
  /\ hidden' = (hidden \/ lastStamp = stamp)
  /\ UNCHANGED <<file, stamp, main, engineVars, lastStamp, loaded>>

\* Engine.Reload compiles first, and keeps the registry of the current state.
FreshState(rules) == [rules |-> rules, registry |-> FALSE]
KeptState(rules) == [state EXCEPT !.rules = rules]
StoreUnchecked(rules) == TRUE
StoreCompiled(rules) == Compiles(rules)
StampAfter == stamp
StampSeen == lastStamp

Reload ==
  /\ watcher = "reload"
  /\ state' = IF StoreCompiled(loaded) THEN KeptState(loaded) ELSE state
  /\ lastStamp' = StampSeen
  /\ watcher' = "poll"
  /\ UNCHANGED <<file, stamp, main, next, loaded, hidden>>

\* The context is cancelled: Watch returns.
Cancel ==
  /\ watcher = "poll"
  /\ watcher' = "done"
  /\ UNCHANGED <<file, stamp, main, engineVars, lastStamp, loaded, hidden>>

-------------------------------------------------------------------------------
\* Somebody saves the policy, in one step (a rename) or by rewriting it in
\* place.  Each write gives the file another stamp, except that two writes of
\* the same size within the granularity of mtime can leave it the same.  The
\* watcher cannot see that, nor a save between startup's load and its baseline.

Early == watcher \in {"off", "baseline"} /\ main # "load"

Write(content) ==
  /\ Early => "early" \in MayDisturb
  /\ file' = content
  /\ \/ stamp' = stamp + 1 /\ hidden' = Early
     \/ "same" \in MayDisturb /\ content.whole /\ UNCHANGED stamp /\ hidden' = TRUE
  /\ UNCHANGED <<main, engineVars, watcherVars, loaded>>

Save ==
  /\ file.whole /\ file.save < MaxSaves
  /\ \E whole \in BOOLEAN : Write([save |-> file.save + 1, whole |-> whole])

FinishSave ==
  /\ ~file.whole
  /\ Write([file EXCEPT !.whole = TRUE])

-------------------------------------------------------------------------------
Startup == StartLoad \/ NewEngine \/ SetRegistryLoads \/ SetRegistryStores \/ StartWatcher
Watching == Baseline \/ Poll \/ Load \/ LoadUnread \/ Reload

Next == Startup \/ Watching \/ Cancel \/ Save \/ FinishSave

Spec == Init /\ [][Next]_vars

\* The goroutines are scheduled and the ticker ticks, which need not ever fail to
\* see the file; a save that has begun ends.
PollSeesFile == Poll /\ lastStamp' = stamp

FairSpec ==
  /\ Spec
  /\ WF_vars(Startup) /\ WF_vars(FinishSave)
  /\ WF_vars(Baseline \/ PollSeesFile \/ Load \/ LoadUnread \/ Reload)

-------------------------------------------------------------------------------
TypeOK ==
  /\ file \in Content /\ loaded \in Content
  /\ stamp \in Nat /\ lastStamp \in Nat
  /\ main \in {"load", "compile", "registry", "store", "watch", "serve", "failed"}
  /\ state \in [rules : Content, registry : BOOLEAN]
  /\ next \in [rules : Content, registry : BOOLEAN]
  /\ watcher \in {"off", "baseline", "poll", "load", "reload", "done"}
  /\ hidden \in BOOLEAN

\* The rules in force parse and compile, through every save: a reload that fails
\* leaves the rules that were active (comments at engine.go:74-78, watch.go:37-41).
ActiveRulesUsable == main \in {"registry", "store", "watch", "serve"} => Usable(state.rules)

\* Traffic is never evaluated without the detector registry: no reload, and no
\* interleaving of one with SetRegistry, loses it.
RegistryKept == main = "serve" => state.registry

\* The rules in force never go back to an earlier save.
NeverGoesBack == [][state'.rules.save >= state.rules.save]_vars

\* When the watcher sees no change, the engine runs what is in the file, if that
\* can be used at all and its last write was not hidden from the watcher.
Quiet == watcher = "poll" /\ stamp = lastStamp
QuietMeansCurrent == Quiet /\ ~hidden /\ Usable(file) => state.rules = file

\* A usable policy is in force in the end, once the saves stop.
SavedPolicyTakesEffect ==
  main = "serve" ~> (hidden \/ ~Usable(file) \/ state.rules = file \/ watcher = "done")
-------------------------------------------------------------------------------
(* The inductive invariant behind these: see PolicyWatch_proofs. *)

StampsInv == stamp > 0 /\ lastStamp <= stamp

\* Until the watcher polls, nobody but the startup changes the engine, and a
\* save since its load is a hidden one.
StartupInv ==
  /\ main \in {"load", "compile", "registry", "store", "watch", "failed"} => watcher = "off"
  /\ main = "compile" => Parses(loaded)
  /\ main = "store" => next = [state EXCEPT !.registry = TRUE]
  /\ watcher \in {"off", "baseline"} /\ ~hidden =>
       /\ main = "compile" => loaded = file
       /\ main \in {"registry", "store", "watch", "serve"} => state.rules = file

\* What a tick has read is what the file holds, or the stamp has moved on.
TickInv ==
  watcher = "reload" =>
    /\ Parses(loaded)
    /\ stamp = lastStamp /\ ~hidden => loaded = file

EngineInv ==
  /\ ActiveRulesUsable
  /\ main \in {"watch", "serve"} => state.registry
  /\ state.rules.save <= loaded.save /\ loaded.save <= file.save

CurrentInv ==
  TypeOK /\ StampsInv /\ StartupInv /\ TickInv /\ EngineInv /\ QuietMeansCurrent
===============================================================================
