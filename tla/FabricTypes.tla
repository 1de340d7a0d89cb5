----------------------------- MODULE FabricTypes -----------------------------
(***************************************************************************)
(* The enumerations and value types of Dependency Fabric                   *)
(* (include/dependency_fabric/{enums,node,edge,predicates,                 *)
(* dependency_set}.hpp), with the two tables that readiness evaluation     *)
(* reads from them.  No state.                                             *)
(***************************************************************************)
EXTENDS Integers, Sequences, FiniteSets

CONSTANTS
  Node,         \* dependency node ids
  EdgeId,       \* dependency edge ids
  SetId,        \* dependency set ids
  Capability,   \* capability names a node can claim
  Generation    \* published generation numbers (0 is the invalid generation)

ASSUME FiniteAssumption == IsFiniteSet(Node) /\ IsFiniteSet(EdgeId)
ASSUME GenerationAssumption == Generation \subseteq Nat \ {0}

NoGeneration == 0

NodeKind ==
  {"DATA", "TENSOR", "KV_STATE", "CHECKPOINT", "MODEL", "ADAPTER", "KERNEL",
   "EXECUTION_GRAPH", "ARTIFACT", "SERVICE", "RESOURCE", "TOPOLOGY",
   "CAPABILITY", "EXECUTION_RESULT", "WORKLOAD_PHASE", "POLICY", "UNKNOWN"}

EdgeKind ==
  {"REQUIRES", "OPTIONAL", "PRODUCES", "DERIVES_FROM", "INVALIDATES_WITH",
   "COMPATIBLE_WITH", "REQUIRES_RESOURCE", "REQUIRES_CAPABILITY",
   "REQUIRES_READY", "REQUIRES_FRESH", "REQUIRES_GENERATION"}

DynamicEvidence == {"REVALIDATION_REQUIRED", "STALE", "UNKNOWN", "FRESH"}

\* A state meets a required readiness level when its rank is at least the
\* level's rank.
readiness_rank ==
  [READY |-> 100, PRESENT |-> 80, VALIDATING |-> 70, DEGRADED |-> 60,
   DISCOVERED |-> 50, DECLARED |-> 40, RECOVERING |-> 30, STALE |-> 20,
   REVALIDATION_REQUIRED |-> 16, SUPERSEDED |-> 14, INVALIDATED |-> 12,
   BLOCKED |-> 10, MISSING |-> 5, FAILED |-> 3, UNKNOWN |-> 1, RETIRED |-> 0]

ReadinessState ==
  {"UNKNOWN", "DECLARED", "DISCOVERED", "PRESENT", "VALIDATING", "READY",
   "DEGRADED", "STALE", "INVALIDATED", "REVALIDATION_REQUIRED", "MISSING",
   "FAILED", "RECOVERING", "BLOCKED", "SUPERSEDED", "RETIRED"}

\* The states recomputation never leaves: the maintenance states, and
\* INVALIDATED, which lasts until the node is explicitly recovered.
HeldState == {"RETIRED", "MISSING", "FAILED", "RECOVERING", "INVALIDATED"}

is_gate_kind(k) == k \in {"WORKLOAD_PHASE", "SERVICE"}
requires_own_generation(k) == k # "WORKLOAD_PHASE"

(***************************************************************************)
(* Evidence facts that predicates consult.  A fact is present or absent:   *)
(* provenance_confidence stands for "the confidence reaches the minimum    *)
(* the edges ask for", completion_state for "the completion state is the   *)
(* one the edges ask for".                                                 *)
(***************************************************************************)
EvidenceFlag ==
  {"resource_available", "integrity_valid", "freshness_valid",
   "provenance_confidence", "completion_state"}
Evidence == EvidenceFlag \cup Capability

GenerationPredicateKind == {"EXACT", "MINIMUM", "COMPATIBLE_SET", "NONE"}

\* `generations` is the generation operand of the predicate: the pinned one
\* (EXACT), the least acceptable one (MINIMUM) or the compatible ones.
Edge ==
  [id : EdgeId, kind : EdgeKind, producer : Node, consumer : Node,
   generation_kind : GenerationPredicateKind, generations : SUBSET Nat,
   required_readiness : ReadinessState, needs : SUBSET Evidence,
   is_required : BOOLEAN, active : BOOLEAN]

required(e) == e.kind # "OPTIONAL" /\ e.is_required

SetOperator == {"ALL_OF", "ANY_OF", "AT_LEAST_N", "OPTIONAL_GROUP"}

DependencySet ==
  [id : SetId, owner : Node, op : SetOperator, at_least_n : Nat,
   members : Seq(EdgeId), active : BOOLEAN]
=============================================================================
