\* Two handlers, three documents, one of which does not compile.
CONSTANTS
  h1 = h1
  h2 = h2
  Absent = Absent
  NoName = NoName
  NotText = NotText
  NoDefinition = NoDefinition
  Marker = Marker
  HostOf <- TheHosts
  Packs <- ThePacks
  Handlers <- TwoHandlers
  Docs <- TheDocs
  FirstDoc <- Mutations
  Messages <- TheMessages
  Knows <- TheWords
  Registered <- TheDetectors
  MaxEvaluations = 3
  MaxUpsets = 1
SPECIFICATION Spec
SYMMETRY Symmetry
INVARIANTS DecidedByOnePolicy NoSilentChange RedactionCovers
CHECK_DEADLOCK FALSE
