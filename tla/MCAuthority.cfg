CONSTANTS
  na = na
  nb = nb
  nc = nc
  nd = nd
  Node <- Nodes
  EdgeId = {"ab"}
  SetId = {}
  Capability = {}
  Generation = {1, 2}
  Source = {"workerA", "workerB"}
  Boot = {1, 2}
  Epoch = {1, 2, 3}
  NodeDecls <- Decls
  EdgeCatalog <- Edges
  SetCatalog = {}
  EvidencePatches = {}
  PublishableStates = {}
  Policies = {}
  Adapters = {}
  kMaxGraphNodes = 3
  kMaxGraphEdges = 1
  kDefaultMaxTraversalDepth = 4096
  MaxHistory = 3
SPECIFICATION AuthoritySpec
PROPERTIES OnlyCurrentAuthorityMutates
