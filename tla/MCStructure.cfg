CONSTANTS
  na = na
  nb = nb
  nc = nc
  nd = nd
  Node <- Nodes
  EdgeId = {"ab", "bc", "cd", "da", "ac"}
  SetId = {"s"}
  Capability = {}
  Generation = {}
  Source = {"worker"}
  Boot = {1}
  Epoch = {1}
  NodeDecls <- Decls
  EdgeCatalog <- Edges
  SetCatalog <- Sets
  EvidencePatches = {}
  PublishableStates = {}
  Policies = {}
  Adapters = {}
  kMaxGraphNodes = 4
  kMaxGraphEdges = 4
  kDefaultMaxTraversalDepth = 4096
  MaxHistory = 0
SPECIFICATION StructureSpec
INVARIANTS IndexExact PrerequisitesInvertDependents AcyclicQueryExact ExplanationsNameCulprits
PROPERTIES OnlyReactivationClosesCycle
