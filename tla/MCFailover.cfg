CONSTANTS
  na = na
  Node <- Nodes
  EdgeId = {}
  SetId = {}
  Capability = {}
  Generation = {1, 2}
  Source = {"worker"}
  Boot = {1, 2}
  Epoch = {1, 2}
  NodeDecls <- Decls
  EdgeCatalog = {}
  SetCatalog = {}
  EvidencePatches = {}
  PublishableStates = {}
  Policies <- OnePolicy
  Adapters = {}
  kMaxGraphNodes = 2
  kMaxGraphEdges = 0
  kDefaultMaxTraversalDepth = 4096
  MaxHistory = 0
SPECIFICATION CoordSpec
INVARIANTS SavedGraphIsFloor
PROPERTY ImplementsDurableLedger
