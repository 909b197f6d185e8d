-------------------------- MODULE PolicyWatch_proofs ---------------------------
(***************************************************************************)
(* Proofs about PolicyWatch, for every number of saves, whichever of them  *)
(* cannot be used, and whatever may hide one from the watcher.             *)
(***************************************************************************)
EXTENDS PolicyWatch, TLAPS

\* Every step of the startup, the watcher and the editor keeps the types.
LEMMA TypeStep == TypeOK /\ [Next]_vars => TypeOK'
<1> USE SavesAssumption, MayDisturbAssumption
<1> SUFFICES ASSUME TypeOK, [Next]_vars PROVE TypeOK'
  OBVIOUS
<1> USE DEF TypeOK
<1>1. CASE StartLoad      BY <1>1 DEF StartLoad, Order, engineVars, watcherVars
<1>2. CASE NewEngine
  <2>1. [rules |-> loaded, registry |-> FALSE] \in [rules : Content, registry : BOOLEAN]
    OBVIOUS
  <2>2. state' \in [rules : Content, registry : BOOLEAN]
    BY <1>2, <2>1, Zenon DEF NewEngine
  <2>3. main' \in {"registry", "failed"} BY <1>2 DEF NewEngine, Order
  <2> QED BY <1>2, <2>2, <2>3 DEF NewEngine, watcherVars
<1>3. CASE SetRegistryLoads  BY <1>3 DEF SetRegistryLoads, Order, watcherVars
<1>4. CASE SetRegistryStores BY <1>4 DEF SetRegistryStores, Order, watcherVars
<1>5. CASE StartWatcher   BY <1>5 DEF StartWatcher, Order, engineVars
<1>6. CASE Baseline       BY <1>6 DEF Baseline, Snapshot, engineVars
<1>7. CASE Poll           BY <1>7 DEF Poll, Snapshot, engineVars
<1>8. CASE Load           BY <1>8 DEF Load, engineVars
<1>9. CASE LoadUnread     BY <1>9 DEF LoadUnread, engineVars
<1>10. CASE Reload        BY <1>10 DEF Reload, KeptState, StampSeen
<1>11. CASE Cancel        BY <1>11 DEF Cancel, engineVars
<1>12. ASSUME NEW c \in Content, Write(c) PROVE TypeOK'
  <2>1. hidden' \in BOOLEAN BY <1>12 DEF Write, Early
  <2>2. stamp' \in Nat BY <1>12 DEF Write
  <2> QED BY <1>12, <2>1, <2>2 DEF Write, engineVars, watcherVars
<1>13. CASE Save
  <2>1. PICK whole \in BOOLEAN : Write([save |-> file.save + 1, whole |-> whole])
    BY <1>13 DEF Save
  <2>2. [save |-> file.save + 1, whole |-> whole] \in Content BY DEF Content
  <2> QED BY <2>1, <2>2, <1>12
<1>14. CASE FinishSave
  <2>1. [file EXCEPT !.whole = TRUE] \in Content BY DEF Content
  <2> QED BY <2>1, <1>12, <1>14 DEF FinishSave
<1>15. CASE UNCHANGED vars BY <1>15 DEF vars, engineVars, watcherVars
<1> QED
  BY <1>1, <1>2, <1>3, <1>4, <1>5, <1>6, <1>7, <1>8, <1>9, <1>10, <1>11, <1>13,
     <1>14, <1>15 DEF Next, Startup, Watching

-------------------------------------------------------------------------------
(* The step lemma: one step per action, under it the parts it can disturb. *)

\* A save leaves what has been loaded and compiled alone, and either moves the
\* stamp past the one the watcher keeps or hides itself.
LEMMA WriteStep ==
  ASSUME CurrentInv, NEW c \in Content, Write(c), c.save >= file.save, TypeOK'
  PROVE  CurrentInv'
<1> USE DEF CurrentInv, TypeOK
<1>1. file' = c /\ UNCHANGED <<main, state, next, watcher, lastStamp, loaded>>
  BY DEF Write, engineVars, watcherVars
<1>2. stamp' > lastStamp \/ hidden'
  BY DEF Write, StampsInv
<1>3. watcher \in {"off", "baseline"} /\ main # "load" => hidden'
  BY DEF Write, Early
<1>4. StampsInv'
  BY <1>1 DEF Write, StampsInv
<1>5. StartupInv'
  BY <1>1, <1>3 DEF StartupInv, Parses
<1>6. TickInv'
  BY <1>1, <1>2 DEF TickInv, Parses
<1>7. EngineInv'
  BY <1>1 DEF EngineInv, ActiveRulesUsable, Usable, Parses, Compiles, Content
<1>8. QuietMeansCurrent'
  BY <1>1, <1>2 DEF QuietMeansCurrent, Quiet
<1> QED BY <1>4, <1>5, <1>6, <1>7, <1>8

\* CurrentInv is inductive.
LEMMA CurrentStep == CurrentInv /\ [Next]_vars => CurrentInv'
<1> SUFFICES ASSUME CurrentInv, [Next]_vars PROVE CurrentInv'
  OBVIOUS
<1> TypeOK' BY TypeStep DEF CurrentInv
<1> USE DEF CurrentInv, TypeOK
<1>1. CASE StartLoad
  <2> UNCHANGED <<file, stamp, state, next, watcher, lastStamp, hidden>>
    BY <1>1 DEF StartLoad, engineVars, watcherVars
  <2>1. StampsInv' /\ TickInv' /\ QuietMeansCurrent'
    BY <1>1 DEF StartLoad, StampsInv, TickInv, QuietMeansCurrent, Quiet, StartupInv
  <2>2. StartupInv'
    BY <1>1 DEF StartLoad, StartupInv, Parses, Order
  <2>3. EngineInv'
    BY <1>1 DEF StartLoad, EngineInv, ActiveRulesUsable, Usable, Parses, Compiles, Order, Content
  <2> QED BY <2>1, <2>2, <2>3
<1>2. CASE NewEngine
  <2> UNCHANGED <<file, stamp, next, watcher, lastStamp, loaded, hidden>>
    BY <1>2 DEF NewEngine, watcherVars
  <2>1. StampsInv' /\ TickInv' /\ QuietMeansCurrent'
    BY <1>2 DEF NewEngine, StampsInv, TickInv, QuietMeansCurrent, Quiet, StartupInv, Parses
  <2>2. StartupInv'
    BY <1>2 DEF NewEngine, StartupInv, Parses, Order
  <2>3. EngineInv'
    <3>1. \/ main' = "failed" /\ state' = state
          \/ main' = "registry" /\ state'.rules = loaded /\ Compiles(loaded)
      <4>1. CASE Compiles(loaded)
        <5>1. state' = [rules |-> loaded, registry |-> FALSE] /\ main' = Order["compile"]
          BY <1>2, <4>1, Zenon DEF NewEngine
        <5>2. state'.rules = loaded
          BY <5>1
        <5>3. main' = "registry"
          BY <5>1 DEF Order
        <5> QED BY <5>2, <5>3, <4>1
      <4>2. CASE ~Compiles(loaded)
        BY <1>2, <4>2, Zenon DEF NewEngine
      <4> QED BY <4>1, <4>2
    <3>2. loaded.save \in Nat /\ loaded.save <= file.save /\ state.rules.save <= loaded.save
      BY DEF EngineInv, Content
    <3>3. Parses(loaded)
      BY <1>2 DEF NewEngine, StartupInv
    <3>4. ActiveRulesUsable'
      BY <3>1, <3>3 DEF ActiveRulesUsable, Usable, Parses, Compiles
    <3> QED BY <3>1, <3>2, <3>4 DEF EngineInv
  <2> QED BY <2>1, <2>2, <2>3
<1>3. CASE SetRegistryLoads \/ SetRegistryStores \/ StartWatcher
  <2> UNCHANGED <<file, stamp, lastStamp, loaded, hidden>>
    BY <1>3 DEF SetRegistryLoads, SetRegistryStores, StartWatcher, watcherVars
  <2> state'.rules = state.rules
    BY <1>3 DEF SetRegistryLoads, SetRegistryStores, StartWatcher, StartupInv, engineVars
  <2>1. StampsInv' /\ TickInv' /\ QuietMeansCurrent'
    BY <1>3 DEF SetRegistryLoads, SetRegistryStores, StartWatcher, StampsInv, TickInv,
                QuietMeansCurrent, Quiet, StartupInv, Parses, engineVars, watcherVars
  <2>2. StartupInv'
    BY <1>3 DEF SetRegistryLoads, SetRegistryStores, StartWatcher, StartupInv, Order,
                Parses, engineVars, watcherVars
  <2>3. EngineInv'
    BY <1>3 DEF SetRegistryLoads, SetRegistryStores, StartWatcher, EngineInv, StartupInv,
                ActiveRulesUsable, Usable, Parses, Compiles, Order, engineVars
  <2> QED BY <2>1, <2>2, <2>3
<1>4. CASE Baseline \/ Poll \/ Cancel
  <2> UNCHANGED <<file, stamp, main, state, next, loaded, hidden>>
    BY <1>4 DEF Baseline, Poll, Cancel, engineVars
  <2>1. StampsInv'
    BY <1>4 DEF Baseline, Poll, Cancel, StampsInv, Snapshot
  <2>2. StartupInv' /\ TickInv'
    BY <1>4 DEF Baseline, Poll, Cancel, StartupInv, TickInv, Parses
  <2>3. EngineInv'
    BY DEF EngineInv, ActiveRulesUsable, Usable, Parses, Compiles
  <2>4. QuietMeansCurrent'
    BY <1>4 DEF Baseline, Poll, Cancel, QuietMeansCurrent, Quiet, StartupInv, Usable, Parses, Compiles
  <2> QED BY <2>1, <2>2, <2>3, <2>4
<1>5. CASE Load \/ LoadUnread
  <2> UNCHANGED <<file, stamp, main, state, next, lastStamp>>
    BY <1>5 DEF Load, LoadUnread, engineVars
  <2>1. StampsInv' /\ StartupInv' /\ TickInv'
    BY <1>5 DEF Load, LoadUnread, StampsInv, StartupInv, TickInv, Parses
  <2>2. EngineInv'
    BY <1>5 DEF Load, LoadUnread, EngineInv, ActiveRulesUsable, Usable, Parses, Compiles, Content
  <2>3. QuietMeansCurrent'
    BY <1>5 DEF Load, LoadUnread, QuietMeansCurrent, Quiet, Usable, Parses
  <2> QED BY <2>1, <2>2, <2>3
<1>6. CASE Reload
  <2> UNCHANGED <<file, stamp, main, next, loaded, lastStamp, hidden>>
    BY <1>6 DEF Reload, StampSeen
  <2> main = "serve"
    BY <1>6 DEF Reload, StartupInv
  <2>1. StampsInv' /\ StartupInv' /\ TickInv'
    BY <1>6 DEF Reload, StampsInv, StartupInv, TickInv
  <2>2. EngineInv'
    <3>1. \/ state' = state
          \/ state' = [state EXCEPT !.rules = loaded] /\ Compiles(loaded)
      <4>1. CASE Compiles(loaded)
        BY <1>6, <4>1, Zenon DEF Reload, StoreCompiled, KeptState
      <4>2. CASE ~Compiles(loaded)
        BY <1>6, <4>2, Zenon DEF Reload, StoreCompiled
      <4> QED BY <4>1, <4>2
    <3>2. /\ state'.registry = state.registry
          /\ \/ state'.rules = state.rules
             \/ state'.rules = loaded /\ Compiles(loaded)
      BY <3>1
    <3>3. loaded.save \in Nat /\ loaded.save <= file.save /\ state.rules.save <= loaded.save
      BY DEF EngineInv, Content
    <3>4. Parses(loaded)
      BY <1>6 DEF Reload, TickInv
    <3>5. ActiveRulesUsable'
      BY <3>2, <3>4 DEF EngineInv, ActiveRulesUsable, Usable, Parses, Compiles
    <3> QED BY <3>2, <3>3, <3>5 DEF EngineInv
  <2>3. QuietMeansCurrent'
    BY <1>6 DEF Reload, QuietMeansCurrent, Quiet, TickInv, StoreCompiled, KeptState,
                Usable, Parses, Compiles
  <2> QED BY <2>1, <2>2, <2>3
<1>7. CASE Save
  <2>1. PICK whole \in BOOLEAN : Write([save |-> file.save + 1, whole |-> whole])
    BY <1>7 DEF Save
  <2>2. [save |-> file.save + 1, whole |-> whole] \in Content
    BY DEF Content
  <2>3. file.save \in Nat BY DEF Content
  <2> QED BY <2>1, <2>2, <2>3, WriteStep
<1>8. CASE FinishSave
  <2>1. [file EXCEPT !.whole = TRUE] \in Content /\ file.save \in Nat
    BY DEF Content
  <2>2. [file EXCEPT !.whole = TRUE].save = file.save
    BY DEF Content
  <2>3. [file EXCEPT !.whole = TRUE].save >= file.save
    BY <2>1, <2>2
  <2>4. Write([file EXCEPT !.whole = TRUE])
    BY <1>8 DEF FinishSave
  <2> HIDE DEF CurrentInv, TypeOK
  <2> QED BY <2>1, <2>3, <2>4, WriteStep
<1>9. CASE UNCHANGED vars
  <2> USE <1>9 DEF vars, engineVars, watcherVars
  <2>1. StampsInv' /\ StartupInv' /\ TickInv'
    BY DEF StampsInv, StartupInv, TickInv, Parses
  <2>2. EngineInv' /\ QuietMeansCurrent'
    BY DEF EngineInv, ActiveRulesUsable, QuietMeansCurrent, Quiet, Usable, Parses, Compiles
  <2> QED BY <2>1, <2>2
<1> QED
  BY <1>1, <1>2, <1>3, <1>4, <1>5, <1>6, <1>7, <1>8, <1>9 DEF Next, Startup, Watching

\* The invariant holds when the command begins, before anything is loaded.
LEMMA CurrentInit == Init => CurrentInv
<1> SUFFICES ASSUME Init PROVE CurrentInv
  OBVIOUS
<1> USE DEF Init
<1>1. NoRules \in Content /\ file \in Content
  BY DEF Content, NoRules
<1>2. TypeOK
  BY <1>1 DEF TypeOK
<1>3. StampsInv /\ StartupInv /\ TickInv /\ QuietMeansCurrent
  BY DEF StampsInv, StartupInv, TickInv, QuietMeansCurrent, Quiet
<1>4. EngineInv
  BY DEF EngineInv, ActiveRulesUsable, NoRules
<1> QED BY <1>2, <1>3, <1>4 DEF CurrentInv

\* The invariant holds in every state the program can reach.
THEOREM PolicyInForce == Spec => []CurrentInv
<1>1. CurrentInv /\ [Next]_vars => CurrentInv'
  BY CurrentStep
<1> QED BY CurrentInit, <1>1, PTL DEF Spec

\* A watcher that sees no change means an engine that runs what is in the file,
\* unless a save was hidden from it.
THEOREM WatcherCatchesUp == Spec => []QuietMeansCurrent
<1>1. CurrentInv => QuietMeansCurrent
  BY DEF CurrentInv
<1> QED BY PolicyInForce, <1>1, PTL

\* No save, and no failing reload, puts rules in force that cannot be used.
THEOREM ReloadIsSafe == Spec => []ActiveRulesUsable
<1>1. CurrentInv => ActiveRulesUsable
  BY DEF CurrentInv, EngineInv
<1> QED BY PolicyInForce, <1>1, PTL

\* Traffic is never evaluated without the detector registry.
THEOREM RegistrySurvivesReloads == Spec => []RegistryKept
<1>1. CurrentInv => RegistryKept
  BY DEF CurrentInv, EngineInv, RegistryKept
<1> QED BY PolicyInForce, <1>1, PTL

\* No interleaving of the startup, the watcher and the saves puts an earlier save
\* back in force.
THEOREM RulesAreMonotonic == Spec => NeverGoesBack
<1>1. CurrentInv /\ [Next]_vars => [state'.rules.save >= state.rules.save]_vars
  <2> SUFFICES ASSUME CurrentInv, Next PROVE state'.rules.save >= state.rules.save
    BY DEF vars
  <2>1. state.rules.save \in Nat /\ loaded.save \in Nat /\ state.rules.save <= loaded.save
    BY DEF CurrentInv, TypeOK, EngineInv, Content
  <2>2. state'.rules = state.rules \/ state'.rules = loaded
    <3>1. CASE Reload
      <4>1. state' = state \/ state' = [state EXCEPT !.rules = loaded]
        BY <3>1 DEF Reload, KeptState
      <4> QED BY <4>1 DEF CurrentInv, TypeOK
    <3>2. CASE NewEngine
      BY <3>2 DEF NewEngine
    <3>3. CASE SetRegistryStores
      BY <3>3 DEF SetRegistryStores, CurrentInv, StartupInv, TypeOK
    <3>4. CASE state' = state
      BY <3>4
    <3> QED
      BY <3>1, <3>2, <3>3, <3>4 DEF Next, Startup, Watching, StartLoad, SetRegistryLoads,
         StartWatcher, Baseline, Poll, Load, LoadUnread, Cancel, Save, FinishSave, Write,
         engineVars
  <2> QED BY <2>1, <2>2
<1> QED BY PolicyInForce, <1>1, PTL DEF Spec, NeverGoesBack
===============================================================================
