CONSTANTS
  na = na
  Node <- Nodes
  EdgeId = {}
  SetId = {}
  Capability = {}
  Generation <- Generations
  Source = {"worker"}
  Boot = {1}
  Epoch = {1}
  NodeDecls <- Decls
  EdgeCatalog = {}
  SetCatalog = {}
  EvidencePatches = {}
  PublishableStates = {}
  Policies = {}
  Adapters = {}
  kMaxGraphNodes = 20
  kMaxGraphEdges = 0
  kDefaultMaxTraversalDepth = 4096
  MaxHistory = 0
SPECIFICATION HistorySpec
INVARIANT RoundTrips
