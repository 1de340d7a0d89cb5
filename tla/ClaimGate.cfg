CONSTANTS
  na = na
  nb = nb
  nc = nc
  nd = nd
  Node <- Nodes
  EdgeId = {"ab"}
  SetId = {}
  Capability = {}
  Generation = {1, 2, 3}
  Source = {"worker"}
  Boot = {1}
  Epoch = {1}
  NodeDecls <- Decls
  EdgeCatalog <- Edges
  SetCatalog = {}
  EvidencePatches <- Patches
  PublishableStates = {"READY", "FAILED"}
  Policies <- OnePolicy
  Adapters = {}
  kMaxGraphNodes = 3
  kMaxGraphEdges = 1
  kDefaultMaxTraversalDepth = 4096
  MaxHistory = 3
SPECIFICATION LifecycleSpec
PROPERTY OnlyRepublishingRestoresReady
