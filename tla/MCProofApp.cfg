CONSTANTS
  Node = {1, 2, 3}
  EdgeId = {1, 2, 5, 6}
  SetId = {}
  Capability = {}
  Generation = {1, 2, 999}
  Source = {"SRC_A", "SRC_B", "SRC_C", "SRC_ORCH"}
  Boot = {1, 2}
  Epoch = {1, 2}
  NodeDecls <- Decls
  EdgeCatalog <- Edges
  SetCatalog = {}
  EvidencePatches = {}
  PublishableStates = {}
  Policies = {}
  Adapters = {}
  kMaxGraphNodes = 4
  kMaxGraphEdges = 4
  kDefaultMaxTraversalDepth = 4096
  MaxHistory = 0
  Client = {"worker_a", "worker_b", "consumer", "worker_a2", "replay", "orchestrator"}
  MaxFaults = 2
SPECIFICATION AppSpec
INVARIANTS PassIsEarned FailuresAreExcused StaleReplayNeverApplied
 
CHECK_DEADLOCK FALSE
