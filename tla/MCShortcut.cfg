CONSTANTS
  na = na
  nb = nb
  nc = nc
  nd = nd
  Node <- Nodes
  EdgeId = {"ab", "ac", "bc", "cd"}
  SetId = {}
  Capability = {}
  Generation = {1, 2}
  Source = {"worker"}
  Boot = {1}
  Epoch = {1}
  NodeDecls <- Decls
  EdgeCatalog <- Edges
  SetCatalog = {}
  EvidencePatches = {}
  PublishableStates = {}
  Policies <- AllPolicies
  Adapters <- Facts
  kMaxGraphNodes = 4
  kMaxGraphEdges = 4
  kDefaultMaxTraversalDepth = 2
  MaxHistory = 3
SPECIFICATION ShortcutSpec
PROPERTIES RecomputeAllSettles 
INVARIANTS AffectedClosureExact RecoveryPlanExact FrontierCoversRegion
