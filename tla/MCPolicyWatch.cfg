SPECIFICATION FairSpec
CONSTANTS
  Unparsable <- MCUnparsable
  Uncompilable <- MCUncompilable
  HalfParses <- MCHalfParses
  MayDisturb <- MCAnyDisturbance
  MaxSaves = 4
INVARIANTS
  CurrentInv
  QuietMeansCurrent
  ActiveRulesUsable
  RegistryKept
PROPERTIES
  NeverGoesBack
  SavedPolicyTakesEffect
\* When the saves are over and the watcher is quiet nothing is left to do.
CHECK_DEADLOCK FALSE
