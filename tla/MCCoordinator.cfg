CONSTANTS
  na = na
  nb = nb
  Node <- Nodes
  EdgeId = {"ab", "ba"}
  SetId = {}
  Capability = {}
  Generation = {1}
  Source = {"worker"}
  Boot = {1}
  Epoch = {1}
  NodeDecls <- Decls
  EdgeCatalog <- Edges
  SetCatalog = {}
  EvidencePatches = {}
  PublishableStates = {}
  Policies <- OnePolicy
  Adapters = {}
  kMaxGraphNodes = 2
  kMaxGraphEdges = 2
  kDefaultMaxTraversalDepth = 4096
  MaxHistory = 0
SPECIFICATION CoordSpec
INVARIANTS RestoredAwaitsRepublication  IndexExact
