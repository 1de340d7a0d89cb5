CONSTANTS
  na = na
  nb = nb
  nc = nc
  nd = nd
  Node <- Nodes
  EdgeId = {"ac", "bc", "cd"}
  SetId = {"s"}
  Capability = {"sm"}
  Generation = {1, 2}
  Source = {"worker"}
  Boot = {1}
  Epoch = {1}
  NodeDecls <- Decls
  EdgeCatalog <- Edges
  SetCatalog <- Sets
  EvidencePatches <- Patches
  PublishableStates = {}
  Policies = {}
  Adapters <- Facts
  kMaxGraphNodes = 4
  kMaxGraphEdges = 3
  kDefaultMaxTraversalDepth = 4096
  MaxHistory = 3
SPECIFICATION LevelledSpec
PROPERTY OnlyAdaptersUnsettle
