------------------------------ MODULE AppProofs ------------------------------
(***************************************************************************)
(* The coordinator of the multiprocess proof is the coordinator of the     *)
(* module Coordinator, for any number of faults.                           *)
(***************************************************************************)
EXTENDS ProofApp, CoordinatorProofs

Worker == {"worker_a", "worker_b", "consumer", "worker_a2", "replay"}

-----------------------------------------------------------------------------
(* What the roles send *)

\* What a request needs to be an operation of the coordinator.
WellFormed(r) ==
  \/ r.type \in {"HELLO_REQ", "QUERY_REQ", "PERSIST_REQ", "BYE"}
  \/ r.type = "REGISTER_REQ" /\ r.who \in Authority
  \/ /\ r.type = "PUBLISH_NODE_REQ" /\ r.who \in Authority
     /\ r.decl \in NodeDecls /\ ~r.decl.static
  \/ /\ r.type = "PUBLISH_GEN_REQ" /\ r.who \in Authority
     /\ r.node \in Node /\ r.gen \in Generation
  \/ r.type = "PUBLISH_READINESS_REQ" /\ r.who \in Authority /\ r.node \in Node
  \/ r.type = "ADD_EDGE_REQ" /\ r.who \in Authority /\ r.edge \in EdgeCatalog
  \/ r.type = "REMOVE_EDGE_REQ" /\ r.who \in Authority /\ r.edge_id \in EdgeId
  \/ r.type = "ADVANCE_EPOCH" /\ r.epoch \in Epoch

\* The first incarnation of worker A registers.
Registers(r) == r.type = "REGISTER_REQ" /\ r.who.source = "SRC_A" /\ r.who.boot = 1

\* A publication of the generation that is only ever replayed.
Replays(r) == r.type = "PUBLISH_GEN_REQ" /\ r.gen = StaleGeneration

\* Who sends which of the requests that matter.
SentBy(p, i, r) ==
  /\ WellFormed(r)
  /\ r.type = "PERSIST_REQ" => p = "orchestrator" /\ i = 38
  /\ Registers(r) => p = "worker_a"
  /\ Replays(r) => p = "replay" /\ r.who = A1
  /\ p = "orchestrator" /\ i \in {13, 14} => r.type # "BYE"
  /\ p = "orchestrator" /\ i = 14 => r.type = "ADVANCE_EPOCH" /\ r.epoch = 2

Sends(p, i, s) == s.do = "rpc" /\ SentBy(p, i, s.request)

LEMMA Origins ==
  /\ A1.source = "SRC_A" /\ A1.boot = 1 /\ A1.epoch = 1
  /\ A2.source = "SRC_A" /\ A2.boot = 2
  /\ B1.source = "SRC_B" /\ C1.source = "SRC_C" /\ Orch.source = "SRC_ORCH"
BY DEF A1, A2, B1, C1, Orch, As

\* The requests that nothing below depends on.
LEMMA PlainSent ==
  ASSUME NEW p, NEW i, ~(p = "orchestrator" /\ i = 14)
  PROVE  /\ Sends(p, i, Hello)
         /\ \A n, into : Sends(p, i, Query(n, into))
         /\ \A n : Sends(p, i, RpcIgnored([type |-> "QUERY_REQ", node |-> n]))
         /\ \A who \in Authority : \A n \in Node : Sends(p, i, PublishReadiness(n, who))
         /\ \A who \in Authority : \A e \in EdgeCatalog : Sends(p, i, AddEdge(e, who))
         /\ \A who \in Authority : \A id \in EdgeId : Sends(p, i, RemoveEdge(id, who))
<1>1. Sends(p, i, Hello)
  BY SMT DEF Sends, SentBy, WellFormed, Registers, Replays, Hello, Rpc
<1>2. \A n, into : Sends(p, i, Query(n, into))
  BY SMT DEF Sends, SentBy, WellFormed, Registers, Replays, Query, Rpc
<1>3. \A n : Sends(p, i, RpcIgnored([type |-> "QUERY_REQ", node |-> n]))
  BY SMT DEF Sends, SentBy, WellFormed, Registers, Replays, RpcIgnored, Rpc
<1>4. \A who \in Authority : \A n \in Node : Sends(p, i, PublishReadiness(n, who))
  BY SMT DEF Sends, SentBy, WellFormed, Registers, Replays, PublishReadiness, RpcIgnored, Rpc
<1>5. \A who \in Authority : \A e \in EdgeCatalog : Sends(p, i, AddEdge(e, who))
  BY SMT DEF Sends, SentBy, WellFormed, Registers, Replays, AddEdge, RpcIgnored, Rpc
<1>6. \A who \in Authority : \A id \in EdgeId : Sends(p, i, RemoveEdge(id, who))
  BY SMT DEF Sends, SentBy, WellFormed, Registers, Replays, RemoveEdge, RpcIgnored, Rpc
<1> QED BY <1>1, <1>2, <1>3, <1>4, <1>5, <1>6

LEMMA ByeSent ==
  ASSUME NEW p, NEW i, ~(p = "orchestrator" /\ i \in {13, 14})
  PROVE  Sends(p, i, ByeClose)
BY SMT DEF Sends, SentBy, WellFormed, Registers, Replays, ByeClose, RpcIgnored, Rpc

LEMMA RegisterSent ==
  ASSUME NEW p, NEW i, ~(p = "orchestrator" /\ i = 14), NEW who \in Authority,
         who.source = "SRC_A" /\ who.boot = 1 => p = "worker_a"
  PROVE  Sends(p, i, Register(who))
BY SMT DEF Sends, SentBy, WellFormed, Registers, Replays, Register, RpcIgnored, Rpc

LEMMA DeclarationSent ==
  ASSUME NEW p, NEW i, ~(p = "orchestrator" /\ i = 14), NEW who \in Authority, NEW n, NEW kind,
         [id |-> n, kind |-> kind, static |-> FALSE] \in NodeDecls
  PROVE  Sends(p, i, PublishNode(n, kind, who))
<1> DEFINE d == [id |-> n, kind |-> kind, static |-> FALSE]
<1>1. d \in NodeDecls /\ ~d.static
  OBVIOUS
<1> HIDE DEF d
<1>2. PublishNode(n, kind, who) = RpcIgnored([type |-> "PUBLISH_NODE_REQ", who |-> who, decl |-> d])
  BY DEF PublishNode, d
<1> QED
  BY <1>1, <1>2, SMT DEF Sends, SentBy, WellFormed, Registers, Replays, RpcIgnored, Rpc

LEMMA GenerationSent ==
  ASSUME NEW p, NEW i, ~(p = "orchestrator" /\ i = 14), NEW who \in Authority, NEW n \in Node,
         NEW gen \in Generation
  PROVE  /\ gen # StaleGeneration => Sends(p, i, PublishGen(n, gen, who))
         /\ p = "replay" /\ who = A1 => Sends(p, i, RpcOutcome(publish_gen_req(n, gen, who)))
BY SMT DEF Sends, SentBy, WellFormed, Registers, Replays, PublishGen, publish_gen_req, RpcIgnored,
  RpcOutcome, Rpc

LEMMA PersistSent == Sends("orchestrator", 38, Persist)
BY SMT DEF Sends, SentBy, WellFormed, Registers, Replays, Persist, Rpc

LEMMA AdvanceSent == Sends("orchestrator", 14, AdvanceEpoch(2))
BY ScriptAssumption, SMT DEF Sends, SentBy, WellFormed, Registers, Replays, AdvanceEpoch, RpcOutcome, Rpc

-----------------------------------------------------------------------------
(* The scripts, step by step *)

LEMMA ScriptOf ==
  /\ Script["worker_a"] = run_worker_a /\ Script["worker_b"] = run_worker_b
  /\ Script["consumer"] = run_consumer /\ Script["worker_a2"] = run_worker_a2
  /\ Script["replay"] = run_replay /\ Script["orchestrator"] = run_orchestrator
BY DEF Script

LEMMA RolesAct ==
  /\ {A1, A2, B1, C1, Orch} \subseteq Authority /\ {1, 2, 3} \subseteq Node
  /\ {1, 2, StaleGeneration} \subseteq Generation /\ StaleGeneration \notin {1, 2}
  /\ {edge_1, edge_2, edge_5, edge_6} \subseteq EdgeCatalog /\ {1, 2} \subseteq EdgeId
BY ScriptAssumption DEF StaleGeneration

\* A worker opens a connection once, sends requests and writes files.
WorkerStep(p, i, s) ==
  \/ s.do = "open" /\ i = 1
  \/ Sends(p, i, s) /\ i # 1
  \/ s.do \in {"create", "fill"} /\ i # 1

LEMMA OpenStep == \A p, failure : WorkerStep(p, 1, Open(failure))
BY DEF WorkerStep, Open

LEMMA FileStep ==
  ASSUME NEW p, NEW i, i # 1
  PROVE  /\ \A f : WorkerStep(p, i, [do |-> "create", file |-> f])
         /\ \A f, c : WorkerStep(p, i, [do |-> "fill", file |-> f, content |-> c])
BY DEF WorkerStep

LEMMA WorkerSends ==
  ASSUME NEW p, NEW i, p # "orchestrator", i # 1, NEW s, Sends(p, i, s)
  PROVE  WorkerStep(p, i, s)
BY DEF WorkerStep

LEMMA PlainStep ==
  ASSUME NEW p, NEW i, p # "orchestrator", i # 1
  PROVE  /\ WorkerStep(p, i, Hello) /\ WorkerStep(p, i, ByeClose)
         /\ \A n, into : WorkerStep(p, i, Query(n, into))
         /\ \A n : WorkerStep(p, i, RpcIgnored([type |-> "QUERY_REQ", node |-> n]))
BY PlainSent, ByeSent, WorkerSends, Zenon

LEMMA RegisterStep ==
  ASSUME NEW p, NEW i, p # "orchestrator", i # 1
  PROVE  /\ p = "worker_a" => WorkerStep(p, i, Register(A1))
         /\ WorkerStep(p, i, Register(A2)) /\ WorkerStep(p, i, Register(B1))
         /\ WorkerStep(p, i, Register(C1))
<1>1. p = "worker_a" => Sends(p, i, Register(A1))
  BY RolesAct, RegisterSent
<1>2. Sends(p, i, Register(A2)) /\ Sends(p, i, Register(B1)) /\ Sends(p, i, Register(C1))
  BY RolesAct, Origins, RegisterSent
<1> QED BY <1>1, <1>2, WorkerSends, Zenon

LEMMA PublishStep ==
  ASSUME NEW p, NEW i, p # "orchestrator", i # 1
  PROVE  /\ WorkerStep(p, i, PublishNode(1, "MODEL", A1))
         /\ WorkerStep(p, i, PublishNode(2, "ARTIFACT", B1))
         /\ WorkerStep(p, i, PublishNode(3, "WORKLOAD_PHASE", C1))
         /\ WorkerStep(p, i, PublishGen(1, 1, A1)) /\ WorkerStep(p, i, PublishGen(2, 1, B1))
         /\ WorkerStep(p, i, PublishGen(1, 2, A2))
         /\ WorkerStep(p, i, AddEdge(edge_1, B1)) /\ WorkerStep(p, i, AddEdge(edge_2, C1))
         /\ p = "replay" => WorkerStep(p, i, RpcOutcome(publish_gen_req(1, StaleGeneration, A1)))
<1>1. /\ Sends(p, i, PublishNode(1, "MODEL", A1)) /\ Sends(p, i, PublishNode(2, "ARTIFACT", B1))
      /\ Sends(p, i, PublishNode(3, "WORKLOAD_PHASE", C1))
  BY RolesAct, ScriptAssumption, DeclarationSent
<1>2. /\ Sends(p, i, PublishGen(1, 1, A1)) /\ Sends(p, i, PublishGen(2, 1, B1))
      /\ Sends(p, i, PublishGen(1, 2, A2))
      /\ p = "replay" => Sends(p, i, RpcOutcome(publish_gen_req(1, StaleGeneration, A1)))
  BY RolesAct, GenerationSent
<1>3. Sends(p, i, AddEdge(edge_1, B1)) /\ Sends(p, i, AddEdge(edge_2, C1))
  BY RolesAct, PlainSent
<1> QED BY <1>1, <1>2, <1>3, WorkerSends, Zenon

LEMMA WorkerASteps ==
  DOMAIN run_worker_a = 1..7 /\ \A i \in 1..7 : WorkerStep("worker_a", i, run_worker_a[i])
<1>1. /\ DOMAIN run_worker_a = 1..7
      /\ run_worker_a[1] = Open("exit")
      /\ run_worker_a[2] = Hello
      /\ run_worker_a[3] = Register(A1)
      /\ run_worker_a[4] = PublishNode(1, "MODEL", A1)
      /\ run_worker_a[5] = PublishGen(1, 1, A1)
      /\ run_worker_a[6] = ByeClose
      /\ run_worker_a[7] = [do |-> "create", file |-> "a_published"]
  BY SMT DEF run_worker_a, WriteFlag
<1>2. WorkerStep("worker_a", 1, run_worker_a[1])
  BY <1>1, OpenStep
<1>3. /\ WorkerStep("worker_a", 2, run_worker_a[2]) /\ WorkerStep("worker_a", 6, run_worker_a[6])
  BY <1>1, PlainStep
<1>4. WorkerStep("worker_a", 3, run_worker_a[3])
  BY <1>1, RegisterStep
<1>5. /\ WorkerStep("worker_a", 4, run_worker_a[4]) /\ WorkerStep("worker_a", 5, run_worker_a[5])
  BY <1>1, PublishStep
<1>6. WorkerStep("worker_a", 7, run_worker_a[7])
  BY <1>1, FileStep
<1> QED BY <1>1, <1>2, <1>3, <1>4, <1>5, <1>6, SMT

LEMMA WorkerBSteps ==
  DOMAIN run_worker_b = 1..8 /\ \A i \in 1..8 : WorkerStep("worker_b", i, run_worker_b[i])
<1>1. /\ DOMAIN run_worker_b = 1..8
      /\ run_worker_b[1] = Open("exit")
      /\ run_worker_b[2] = Hello
      /\ run_worker_b[3] = Register(B1)
      /\ run_worker_b[4] = PublishNode(2, "ARTIFACT", B1)
      /\ run_worker_b[5] = PublishGen(2, 1, B1)
      /\ run_worker_b[6] = AddEdge(edge_1, B1)
      /\ run_worker_b[7] = ByeClose
      /\ run_worker_b[8] = [do |-> "create", file |-> "b_published"]
  BY SMT DEF run_worker_b, WriteFlag
<1>2. WorkerStep("worker_b", 1, run_worker_b[1])
  BY <1>1, OpenStep
<1>3. /\ WorkerStep("worker_b", 2, run_worker_b[2]) /\ WorkerStep("worker_b", 7, run_worker_b[7])
  BY <1>1, PlainStep
<1>4. WorkerStep("worker_b", 3, run_worker_b[3])
  BY <1>1, RegisterStep
<1>5. /\ WorkerStep("worker_b", 4, run_worker_b[4]) /\ WorkerStep("worker_b", 5, run_worker_b[5])
      /\ WorkerStep("worker_b", 6, run_worker_b[6])
  BY <1>1, PublishStep
<1>6. WorkerStep("worker_b", 8, run_worker_b[8])
  BY <1>1, FileStep
<1> QED BY <1>1, <1>2, <1>3, <1>4, <1>5, <1>6, SMT

LEMMA ConsumerSteps ==
  DOMAIN run_consumer = 1..9 /\ \A i \in 1..9 : WorkerStep("consumer", i, run_consumer[i])
<1>1. /\ DOMAIN run_consumer = 1..9
      /\ run_consumer[1] = Open("exit")
      /\ run_consumer[2] = Hello
      /\ run_consumer[3] = Register(C1)
      /\ run_consumer[4] = PublishNode(3, "WORKLOAD_PHASE", C1)
      /\ run_consumer[5] = AddEdge(edge_2, C1)
      /\ run_consumer[6] = Query(3, "st")
      /\ run_consumer[7] = [do |-> "create", file |-> "consumer_result"]
      /\ run_consumer[8] = [do |-> "fill", file |-> "consumer_result", content |-> "st"]
      /\ run_consumer[9] = ByeClose
  BY SMT DEF run_consumer, WriteFile, WriteFlag
<1>2. WorkerStep("consumer", 1, run_consumer[1])
  BY <1>1, OpenStep
<1>3. /\ WorkerStep("consumer", 2, run_consumer[2]) /\ WorkerStep("consumer", 6, run_consumer[6])
      /\ WorkerStep("consumer", 9, run_consumer[9])
  BY <1>1, PlainStep
<1>4. WorkerStep("consumer", 3, run_consumer[3])
  BY <1>1, RegisterStep
<1>5. /\ WorkerStep("consumer", 4, run_consumer[4]) /\ WorkerStep("consumer", 5, run_consumer[5])
  BY <1>1, PublishStep
<1>6. /\ WorkerStep("consumer", 7, run_consumer[7]) /\ WorkerStep("consumer", 8, run_consumer[8])
  BY <1>1, FileStep
<1> QED BY <1>1, <1>2, <1>3, <1>4, <1>5, <1>6, SMT

LEMMA SuccessorSteps ==
  DOMAIN run_worker_a2 = 1..7 /\ \A i \in 1..7 : WorkerStep("worker_a2", i, run_worker_a2[i])
<1>1. /\ DOMAIN run_worker_a2 = 1..7
      /\ run_worker_a2[1] = Open("exit")
      /\ run_worker_a2[2] = Hello
      /\ run_worker_a2[3] = Register(A2)
      /\ run_worker_a2[4] = PublishGen(1, 2, A2)
      /\ run_worker_a2[5] = RpcIgnored([type |-> "QUERY_REQ", node |-> 1])
      /\ run_worker_a2[6] = ByeClose
      /\ run_worker_a2[7] = [do |-> "create", file |-> "a2_published"]
  BY SMT DEF run_worker_a2, WriteFlag
<1>2. WorkerStep("worker_a2", 1, run_worker_a2[1])
  BY <1>1, OpenStep
<1>3. /\ WorkerStep("worker_a2", 2, run_worker_a2[2]) /\ WorkerStep("worker_a2", 5, run_worker_a2[5])
      /\ WorkerStep("worker_a2", 6, run_worker_a2[6])
  BY <1>1, PlainStep
<1>4. WorkerStep("worker_a2", 3, run_worker_a2[3])
  BY <1>1, RegisterStep
<1>5. WorkerStep("worker_a2", 4, run_worker_a2[4])
  BY <1>1, PublishStep
<1>6. WorkerStep("worker_a2", 7, run_worker_a2[7])
  BY <1>1, FileStep
<1> QED BY <1>1, <1>2, <1>3, <1>4, <1>5, <1>6, SMT

LEMMA ReplaySteps ==
  DOMAIN run_replay = 1..6 /\ \A i \in 1..6 : WorkerStep("replay", i, run_replay[i])
<1>1. /\ DOMAIN run_replay = 1..6
      /\ run_replay[1] = Open("exit")
      /\ run_replay[2] = Hello
      /\ run_replay[3] = RpcOutcome(publish_gen_req(1, StaleGeneration, A1))
      /\ run_replay[4] = [do |-> "create", file |-> "replay_outcome"]
      /\ run_replay[5] = [do |-> "fill", file |-> "replay_outcome", content |-> "o"]
      /\ run_replay[6] = ByeClose
  BY SMT DEF run_replay, WriteFile, WriteFlag
<1>2. WorkerStep("replay", 1, run_replay[1])
  BY <1>1, OpenStep
<1>3. /\ WorkerStep("replay", 2, run_replay[2]) /\ WorkerStep("replay", 6, run_replay[6])
  BY <1>1, PlainStep
<1>4. WorkerStep("replay", 3, run_replay[3])
  BY <1>1, PublishStep
<1>5. /\ WorkerStep("replay", 4, run_replay[4]) /\ WorkerStep("replay", 5, run_replay[5])
  BY <1>1, FileStep
<1> QED BY <1>1, <1>2, <1>3, <1>4, <1>5, SMT

\* What matters of the orchestrator's script: when it opens and closes its
\* connection, and which processes it starts and kills when.
OrchestratorStep(i, s) ==
  /\ s.do = "open" <=> i \in {12, 23, 46}
  /\ i \in {16, 40} => s.do = "close"
  /\ i \in {13, 14} => s.do = "rpc"
  /\ s.do = "rpc" => SentBy("orchestrator", i, s.request)
  /\ s.do = "spawn" =>
       /\ s.process \in Worker \cup {"coordinator"}
       /\ s.process = "coordinator" => i = 1 \/ (i = 43 /\ s.loads)
       /\ s.process = "worker_a" => i = 4
       /\ s.process = "replay" => i = 18
  /\ s.do = "kill" /\ s.process # "coordinator" => i = 11 /\ s.process = "worker_a"
  /\ i = 11 => s.do = "kill" /\ s.process = "worker_a"
  /\ i = 18 => s.do = "spawn" /\ s.process = "replay"
  /\ i = 41 => s.do = "kill" /\ s.process = "coordinator"
  /\ s.do \notin {"create", "fill"}

\* The steps at which something must happen.
Turn == {11, 12, 13, 14, 16, 18, 23, 40, 41, 46}

LEMMA QuietSteps ==
  ASSUME NEW i, i \notin Turn
  PROVE  /\ \A f : OrchestratorStep(i, WaitFor(f)) /\ OrchestratorStep(i, Remove(f))
         /\ \A f, x : OrchestratorStep(i, CheckExists(f, x))
         /\ \A f, g, x : OrchestratorStep(i, CheckFile(f, g, x)) /\ OrchestratorStep(i, Check(f, g, x))
         /\ OrchestratorStep(i, Close) /\ OrchestratorStep(i, Kill("coordinator"))
         /\ \A v : OrchestratorStep(i, Conclude(v))
BY SMT DEF Turn, OrchestratorStep, WaitFor, Remove, CheckExists, CheckFile, Check, Close, Kill, Conclude

LEMMA TurnSteps ==
  /\ \A x : OrchestratorStep(12, Open(x)) /\ OrchestratorStep(23, Open(x)) /\ OrchestratorStep(46, Open(x))
  /\ OrchestratorStep(16, Close) /\ OrchestratorStep(40, Close)
  /\ OrchestratorStep(11, Kill("worker_a")) /\ OrchestratorStep(41, Kill("coordinator"))
BY SMT DEF OrchestratorStep, Open, Close, Kill

LEMMA SpawnSteps ==
  /\ OrchestratorStep(1, Spawn("coordinator")) /\ OrchestratorStep(4, Spawn("worker_a"))
  /\ OrchestratorStep(6, Spawn("worker_b")) /\ OrchestratorStep(8, Spawn("consumer"))
  /\ OrchestratorStep(18, Spawn("replay")) /\ OrchestratorStep(21, Spawn("worker_a2"))
  /\ OrchestratorStep(43, SpawnLoading("coordinator"))
<1>1. LET s == SpawnLoading("coordinator")
      IN s.do = "spawn" /\ s.process = "coordinator" /\ s.loads
  BY DEF SpawnLoading, Spawn
<1>2. OrchestratorStep(43, SpawnLoading("coordinator"))
  BY <1>1, SMT DEF OrchestratorStep
<1>3. ASSUME NEW x \in Worker \cup {"coordinator"}, NEW i, i \notin Turn \ {18},
             x = "replay" <=> i = 18, x = "coordinator" => i = 1, x = "worker_a" => i = 4
      PROVE  OrchestratorStep(i, Spawn(x))
  <2>1. Spawn(x).do = "spawn" /\ Spawn(x).process = x
    BY DEF Spawn
  <2> QED BY <1>3, <2>1, SMT DEF OrchestratorStep, Turn
<1>4. /\ OrchestratorStep(1, Spawn("coordinator")) /\ OrchestratorStep(4, Spawn("worker_a"))
      /\ OrchestratorStep(6, Spawn("worker_b")) /\ OrchestratorStep(8, Spawn("consumer"))
      /\ OrchestratorStep(18, Spawn("replay")) /\ OrchestratorStep(21, Spawn("worker_a2"))
  BY <1>3, SMT DEF Turn, Worker
<1> QED BY <1>2, <1>4

LEMMA SendingSteps ==
  ASSUME NEW i, i \notin Turn \ {13, 14}, NEW s, Sends("orchestrator", i, s)
  PROVE  OrchestratorStep(i, s)
BY SMT DEF Turn, OrchestratorStep, Sends

LEMMA RpcSteps ==
  ASSUME NEW i, i \notin Turn \ {13}
  PROVE  /\ OrchestratorStep(i, Hello) /\ \A n, into : OrchestratorStep(i, Query(n, into))
         /\ OrchestratorStep(i, Register(Orch))
         /\ OrchestratorStep(i, RemoveEdge(1, Orch)) /\ OrchestratorStep(i, RemoveEdge(2, Orch))
         /\ OrchestratorStep(i, AddEdge(edge_5, Orch)) /\ OrchestratorStep(i, AddEdge(edge_6, Orch))
         /\ OrchestratorStep(i, PublishGen(2, 2, Orch))
         /\ \A n \in {1, 2, 3} : OrchestratorStep(i, PublishReadiness(n, Orch))
<1>0. i \notin Turn \ {13, 14} /\ i # 14
  BY SMT DEF Turn
<1>1. /\ Sends("orchestrator", i, Hello)
      /\ \A n, into : Sends("orchestrator", i, Query(n, into))
      /\ Sends("orchestrator", i, RemoveEdge(1, Orch)) /\ Sends("orchestrator", i, RemoveEdge(2, Orch))
      /\ Sends("orchestrator", i, AddEdge(edge_5, Orch)) /\ Sends("orchestrator", i, AddEdge(edge_6, Orch))
      /\ \A n \in {1, 2, 3} : Sends("orchestrator", i, PublishReadiness(n, Orch))
  BY <1>0, RolesAct, PlainSent
<1>2. Sends("orchestrator", i, Register(Orch)) /\ Sends("orchestrator", i, PublishGen(2, 2, Orch))
  BY <1>0, RolesAct, Origins, RegisterSent, GenerationSent
<1> QED BY <1>0, <1>1, <1>2, SendingSteps, Zenon

LEMMA AdvanceStep == OrchestratorStep(14, AdvanceEpoch(2)) /\ OrchestratorStep(38, Persist)
BY AdvanceSent, PersistSent, SendingSteps, SMT DEF Turn

LEMMA OrchestratorSteps ==
  /\ DOMAIN run_orchestrator = 1..58
  /\ \A i \in 1..58 : OrchestratorStep(i, run_orchestrator[i])
<1>1. DOMAIN run_orchestrator = 1..58
  BY SMT DEF run_orchestrator
<1>2. /\ run_orchestrator[1] = Spawn("coordinator")
      /\ run_orchestrator[4] = Spawn("worker_a")
      /\ run_orchestrator[6] = Spawn("worker_b")
      /\ run_orchestrator[8] = Spawn("consumer")
      /\ run_orchestrator[18] = Spawn("replay")
      /\ run_orchestrator[21] = Spawn("worker_a2")
      /\ run_orchestrator[43] = SpawnLoading("coordinator")
  <2>1. /\ run_orchestrator[1] = Spawn("coordinator")
        /\ run_orchestrator[4] = Spawn("worker_a")
        /\ run_orchestrator[6] = Spawn("worker_b")
    BY SMT DEF run_orchestrator
  <2>2. /\ run_orchestrator[8] = Spawn("consumer")
        /\ run_orchestrator[18] = Spawn("replay")
        /\ run_orchestrator[21] = Spawn("worker_a2")
        /\ run_orchestrator[43] = SpawnLoading("coordinator")
    BY SMT DEF run_orchestrator
  <2> QED BY <2>1, <2>2, Zenon
<1>3. \A i \in {1, 4, 6, 8, 18, 21, 43} : OrchestratorStep(i, run_orchestrator[i])
  BY <1>2, SpawnSteps, SMT
<1>4. /\ run_orchestrator[2] = WaitFor("coord.ready")
      /\ run_orchestrator[3] = CheckExists("coord.ready", "COORD_NOT_READY")
      /\ run_orchestrator[5] = WaitFor("a_published")
      /\ run_orchestrator[7] = WaitFor("b_published")
      /\ run_orchestrator[9] = WaitFor("consumer_result")
      /\ run_orchestrator[10] = CheckFile("consumer_result", {"READY"}, "STEP4_CONSUMER_NOT_READY")
      /\ run_orchestrator[15] = Check("o", {"ACCEPTED"}, "ADVANCE_EPOCH_FAIL")
      /\ run_orchestrator[17] = Remove("replay_outcome")
      /\ run_orchestrator[19] = WaitFor("replay_outcome")
      /\ run_orchestrator[20] =
           CheckFile("replay_outcome", {"REJECT_STALE_EPOCH", "REJECT_STALE_BOOT"},
                     "STEP7_STALE_NOT_REJECTED")
  <2>1. /\ run_orchestrator[2] = WaitFor("coord.ready")
        /\ run_orchestrator[3] = CheckExists("coord.ready", "COORD_NOT_READY")
        /\ run_orchestrator[5] = WaitFor("a_published")
        /\ run_orchestrator[7] = WaitFor("b_published")
        /\ run_orchestrator[9] = WaitFor("consumer_result")
    BY SMT DEF run_orchestrator
  <2>2. /\ run_orchestrator[10] = CheckFile("consumer_result", {"READY"}, "STEP4_CONSUMER_NOT_READY")
        /\ run_orchestrator[15] = Check("o", {"ACCEPTED"}, "ADVANCE_EPOCH_FAIL")
        /\ run_orchestrator[17] = Remove("replay_outcome")
        /\ run_orchestrator[19] = WaitFor("replay_outcome")
        /\ run_orchestrator[20] =
             CheckFile("replay_outcome", {"REJECT_STALE_EPOCH", "REJECT_STALE_BOOT"},
                       "STEP7_STALE_NOT_REJECTED")
    BY SMT DEF run_orchestrator
  <2> QED BY <2>1, <2>2, Zenon
<1>5. \A i \in {2, 3, 5, 7, 9, 10, 15, 17, 19, 20} : OrchestratorStep(i, run_orchestrator[i])
  <2>1. \A i \in {2, 3, 5, 7} : OrchestratorStep(i, run_orchestrator[i])
    BY <1>4, QuietSteps, SMT DEF Turn
  <2>2. \A i \in {9, 10, 15} : OrchestratorStep(i, run_orchestrator[i])
    BY <1>4, QuietSteps, SMT DEF Turn
  <2>3. \A i \in {17, 19, 20} : OrchestratorStep(i, run_orchestrator[i])
    BY <1>4, QuietSteps, SMT DEF Turn
  <2> QED BY <2>1, <2>2, <2>3
<1>6. /\ run_orchestrator[22] = WaitFor("a2_published")
      /\ run_orchestrator[28] = Check("st", {"STALE"}, "STEP9_FAIL")
      /\ run_orchestrator[29] = Check("st3", {"BLOCKED"}, "STEP9_FAIL")
      /\ run_orchestrator[37] = Check("stc", {"READY"}, "STEP10_NOT_READY")
      /\ run_orchestrator[39] = Check("po", {"ACCEPTED"}, "STEP11_PERSIST_FAIL")
      /\ run_orchestrator[42] = Remove("coord.ready")
      /\ run_orchestrator[44] = WaitFor("coord.ready")
      /\ run_orchestrator[45] = CheckExists("coord.ready", "STEP12_RESTART_NOT_READY")
      /\ run_orchestrator[49] = Check("r2", {"REVALIDATION_REQUIRED"}, "STEP13_NOT_CONSERVATIVE")
      /\ run_orchestrator[55] = Check("stv", {"READY"}, "STEP14_NOT_READY")
  <2>1. /\ run_orchestrator[22] = WaitFor("a2_published")
        /\ run_orchestrator[28] = Check("st", {"STALE"}, "STEP9_FAIL")
        /\ run_orchestrator[29] = Check("st3", {"BLOCKED"}, "STEP9_FAIL")
        /\ run_orchestrator[37] = Check("stc", {"READY"}, "STEP10_NOT_READY")
        /\ run_orchestrator[39] = Check("po", {"ACCEPTED"}, "STEP11_PERSIST_FAIL")
    BY SMT DEF run_orchestrator
  <2>2. /\ run_orchestrator[42] = Remove("coord.ready")
        /\ run_orchestrator[44] = WaitFor("coord.ready")
        /\ run_orchestrator[45] = CheckExists("coord.ready", "STEP12_RESTART_NOT_READY")
        /\ run_orchestrator[49] = Check("r2", {"REVALIDATION_REQUIRED"}, "STEP13_NOT_CONSERVATIVE")
        /\ run_orchestrator[55] = Check("stv", {"READY"}, "STEP14_NOT_READY")
    BY SMT DEF run_orchestrator
  <2> QED BY <2>1, <2>2, Zenon
<1>7. \A i \in {22, 28, 29, 37, 39, 42, 44, 45, 49, 55} : OrchestratorStep(i, run_orchestrator[i])
  <2>1. \A i \in {22, 28, 29, 37} : OrchestratorStep(i, run_orchestrator[i])
    BY <1>6, QuietSteps, SMT DEF Turn
  <2>2. \A i \in {39, 42, 44} : OrchestratorStep(i, run_orchestrator[i])
    BY <1>6, QuietSteps, SMT DEF Turn
  <2>3. \A i \in {45, 49, 55} : OrchestratorStep(i, run_orchestrator[i])
    BY <1>6, QuietSteps, SMT DEF Turn
  <2> QED BY <2>1, <2>2, <2>3
<1>8. /\ run_orchestrator[56] = Close
      /\ run_orchestrator[57] = Kill("coordinator")
      /\ run_orchestrator[58] = Conclude("PASS")
  BY SMT DEF run_orchestrator
<1>9. \A i \in {56, 57, 58} : OrchestratorStep(i, run_orchestrator[i])
  BY <1>8, QuietSteps, SMT DEF Turn
<1>10. /\ run_orchestrator[11] = Kill("worker_a")
       /\ run_orchestrator[12] = Open("CLIENT_OPEN_FAIL")
       /\ run_orchestrator[16] = Close
       /\ run_orchestrator[23] = Open("no result")
       /\ run_orchestrator[40] = Close
       /\ run_orchestrator[41] = Kill("coordinator")
       /\ run_orchestrator[46] = Open("STEP13_OPEN_FAIL")
  <2>1. /\ run_orchestrator[11] = Kill("worker_a")
        /\ run_orchestrator[12] = Open("CLIENT_OPEN_FAIL")
        /\ run_orchestrator[16] = Close
    BY SMT DEF run_orchestrator
  <2>2. /\ run_orchestrator[23] = Open("no result")
        /\ run_orchestrator[40] = Close
        /\ run_orchestrator[41] = Kill("coordinator")
        /\ run_orchestrator[46] = Open("STEP13_OPEN_FAIL")
    BY SMT DEF run_orchestrator
  <2> QED BY <2>1, <2>2, Zenon
<1>11. /\ OrchestratorStep(11, run_orchestrator[11])
      /\ OrchestratorStep(12, run_orchestrator[12])
      /\ OrchestratorStep(16, run_orchestrator[16])
      /\ OrchestratorStep(23, run_orchestrator[23])
      /\ OrchestratorStep(40, run_orchestrator[40])
      /\ OrchestratorStep(41, run_orchestrator[41])
      /\ OrchestratorStep(46, run_orchestrator[46])
  BY <1>10, TurnSteps, Zenon
<1>12. /\ run_orchestrator[13] = Hello
       /\ run_orchestrator[24] = Hello
       /\ run_orchestrator[25] = Query(2, "st")
       /\ run_orchestrator[26] = Query(3, "st3")
       /\ run_orchestrator[27] = Query(1, "mst")
       /\ run_orchestrator[30] = Register(Orch)
       /\ run_orchestrator[31] = RemoveEdge(1, Orch)
       /\ run_orchestrator[32] = AddEdge(edge_5, Orch)
       /\ run_orchestrator[33] = PublishGen(2, 2, Orch)
       /\ run_orchestrator[34] = RemoveEdge(2, Orch)
  <2>1. /\ run_orchestrator[13] = Hello
        /\ run_orchestrator[24] = Hello
        /\ run_orchestrator[25] = Query(2, "st")
        /\ run_orchestrator[26] = Query(3, "st3")
        /\ run_orchestrator[27] = Query(1, "mst")
    BY SMT DEF run_orchestrator
  <2>2. /\ run_orchestrator[30] = Register(Orch)
        /\ run_orchestrator[31] = RemoveEdge(1, Orch)
        /\ run_orchestrator[32] = AddEdge(edge_5, Orch)
        /\ run_orchestrator[33] = PublishGen(2, 2, Orch)
        /\ run_orchestrator[34] = RemoveEdge(2, Orch)
    BY SMT DEF run_orchestrator
  <2> QED BY <2>1, <2>2, Zenon
<1>13. \A i \in {13, 24, 25, 26, 27, 30, 31, 32, 33, 34} : OrchestratorStep(i, run_orchestrator[i])
  BY <1>12, RpcSteps, SMT DEF Turn
<1>14. /\ run_orchestrator[35] = AddEdge(edge_6, Orch)
       /\ run_orchestrator[36] = Query(3, "stc")
       /\ run_orchestrator[47] = Hello
       /\ run_orchestrator[48] = Query(3, "r2")
       /\ run_orchestrator[50] = Register(Orch)
       /\ run_orchestrator[51] = PublishReadiness(1, Orch)
       /\ run_orchestrator[52] = PublishReadiness(2, Orch)
       /\ run_orchestrator[53] = PublishReadiness(3, Orch)
       /\ run_orchestrator[54] = Query(3, "stv")
  <2>1. /\ run_orchestrator[35] = AddEdge(edge_6, Orch)
        /\ run_orchestrator[36] = Query(3, "stc")
        /\ run_orchestrator[47] = Hello
        /\ run_orchestrator[48] = Query(3, "r2")
    BY SMT DEF run_orchestrator
  <2>2. /\ run_orchestrator[50] = Register(Orch)
        /\ run_orchestrator[51] = PublishReadiness(1, Orch)
        /\ run_orchestrator[52] = PublishReadiness(2, Orch)
        /\ run_orchestrator[53] = PublishReadiness(3, Orch)
        /\ run_orchestrator[54] = Query(3, "stv")
    BY SMT DEF run_orchestrator
  <2> QED BY <2>1, <2>2, Zenon
<1>15. \A i \in {35, 36, 47, 48, 50, 51, 52, 53, 54} : OrchestratorStep(i, run_orchestrator[i])
  BY <1>14, RpcSteps, SMT DEF Turn
<1>16. /\ run_orchestrator[14] = AdvanceEpoch(2)
      /\ run_orchestrator[38] = Persist
  BY SMT DEF run_orchestrator
<1>17. \A i \in {14, 38} : OrchestratorStep(i, run_orchestrator[i])
  BY <1>16, AdvanceStep, SMT
<1> QED BY <1>1, <1>3, <1>5, <1>7, <1>9, <1>11, <1>13, <1>15, <1>17, SMT

\* Each role's script and its steps.
LEMMA WorkerScripts ==
  ASSUME NEW p \in Worker
  PROVE  /\ DOMAIN Script[p] \subseteq Nat /\ 1 \in DOMAIN Script[p] /\ 0 \notin DOMAIN Script[p]
         /\ \A i \in DOMAIN Script[p] : WorkerStep(p, i, Script[p][i])
<1>1. CASE p = "worker_a"
  BY <1>1, ScriptOf, WorkerASteps
<1>2. CASE p = "worker_b"
  BY <1>2, ScriptOf, WorkerBSteps
<1>3. CASE p = "consumer"
  BY <1>3, ScriptOf, ConsumerSteps
<1>4. CASE p = "worker_a2"
  BY <1>4, ScriptOf, SuccessorSteps
<1>5. CASE p = "replay"
  BY <1>5, ScriptOf, ReplaySteps
<1> QED BY <1>1, <1>2, <1>3, <1>4, <1>5 DEF Worker

LEMMA Roles ==
  /\ Client = Worker \cup {"orchestrator"} /\ "orchestrator" \notin Worker
  /\ HungUp \notin Client /\ "coordinator" \notin Client
  /\ "replay" \in Worker /\ "worker_a" \in Worker
BY ClientAssumption DEF Worker, HungUp

LEMMA ScriptSends ==
  ASSUME NEW p \in Client, NEW i \in DOMAIN Script[p], Script[p][i].do = "rpc"
  PROVE  SentBy(p, i, Script[p][i].request)
<1>1. CASE p \in Worker
  BY <1>1, WorkerScripts DEF WorkerStep, Sends
<1>2. CASE p = "orchestrator"
  BY <1>2, ScriptOf, OrchestratorSteps DEF OrchestratorStep
<1> QED BY <1>1, <1>2, Roles

\* The orchestrator's script ends after step 58.
LEMMA ScriptEnds == DOMAIN Script["orchestrator"] = 1..58 /\ End("orchestrator") = 59 /\ End("worker_a") = 8
<1>1. Len(run_orchestrator) = 58
  BY SMT DEF run_orchestrator
<1>2. Len(run_worker_a) = 7
  BY SMT DEF run_worker_a, WriteFlag
<1>3. Len(Script["orchestrator"]) = 58 /\ Len(Script["worker_a"]) = 7
  BY <1>1, <1>2, ScriptOf, Zenon
<1>4. DOMAIN Script["orchestrator"] = 1..58
  BY ScriptOf, OrchestratorSteps, Zenon
<1> QED BY <1>3, <1>4, SMT DEF End

-----------------------------------------------------------------------------
(* Connections *)

Sendable ==
  UNION {{Script[p][i].request : i \in {k \in DOMAIN Script[p] : Script[p][k].do = "rpc"}} :
         p \in Client}

\* A connection with its request.  Only the orchestrator asks for a save.
Entry ==
  {e \in [who : Client \cup {HungUp}, request : {<<>>} \cup {<<r>> : r \in Sendable}] :
     \A r \in Range(e.request) : r.type = "PERSIST_REQ" => e.who \in {"orchestrator", HungUp}}

LEMMA Asked ==
  ASSUME NEW e \in Entry
  PROVE  /\ e.who \in Client \cup {HungUp}
         /\ e.request = <<>> => Range(e.request) = {}
         /\ e.request # <<>> => /\ e.request[1] \in Sendable /\ Range(e.request) = {e.request[1]}
                                /\ e.request = <<e.request[1]>>
                                /\ e.request[1].type = "PERSIST_REQ" => e.who \in {"orchestrator", HungUp}
<1>1. /\ e.who \in Client \cup {HungUp} /\ e.request \in {<<>>} \cup {<<r>> : r \in Sendable}
      /\ \A r \in Range(e.request) : r.type = "PERSIST_REQ" => e.who \in {"orchestrator", HungUp}
  BY DEF Entry
<1>2. CASE e.request = <<>>
  BY <1>1, <1>2 DEF Range
<1>3. CASE e.request # <<>>
  <2>1. PICK r \in Sendable : e.request = <<r>>
    BY <1>1, <1>3
  <2>2. Range(e.request) = {r} /\ e.request[1] = r
    BY <2>1 DEF Range
  <2> QED BY <1>1, <1>3, <2>1, <2>2
<1> QED BY <1>2, <1>3

LEMMA SendableFacts ==
  ASSUME NEW r \in Sendable
  PROVE  WellFormed(r) /\ (Replays(r) => r.who = A1)
<1>1. PICK p \in Client : \E i \in DOMAIN Script[p] : Script[p][i].do = "rpc" /\ r = Script[p][i].request
  BY DEF Sendable
<1> QED BY <1>1, ScriptSends DEF SentBy

LEMMA Entries ==
  /\ \A p \in Client : [who |-> p, request |-> <<>>] \in Entry
  /\ [who |-> HungUp, request |-> <<>>] \in Entry
  /\ \A e \in Entry : /\ [who |-> HungUp, request |-> e.request] \in Entry
                      /\ [e EXCEPT !.who = HungUp] \in Entry
                      /\ [e EXCEPT !.request = <<>>] \in Entry
<1>1. Range(<<>>) = {}
  BY DEF Range
<1>2. ASSUME NEW e \in Entry
      PROVE  /\ [who |-> HungUp, request |-> e.request] \in Entry
             /\ [e EXCEPT !.who = HungUp] \in Entry /\ [e EXCEPT !.request = <<>>] \in Entry
  <2>1. e \in [who : Client \cup {HungUp}, request : {<<>>} \cup {<<r>> : r \in Sendable}]
    BY DEF Entry
  <2>2. /\ [e EXCEPT !.who = HungUp] = [who |-> HungUp, request |-> e.request]
        /\ [e EXCEPT !.request = <<>>] = [who |-> e.who, request |-> <<>>]
    BY <2>1
  <2> QED BY <1>1, <2>1, <2>2 DEF Entry
<1> QED BY <1>1, <1>2 DEF Entry

LEMMA EntryWrites ==
  ASSUME NEW e \in Entry, e.who \in Client, NEW i \in DOMAIN Script[e.who], Script[e.who][i].do = "rpc"
  PROVE  [e EXCEPT !.request = <<Script[e.who][i].request>>] \in Entry
<1> DEFINE r == Script[e.who][i].request
<1>1. r \in Sendable
  BY DEF Sendable
<1>2. r.type = "PERSIST_REQ" => e.who \in {"orchestrator", HungUp}
  BY ScriptSends DEF SentBy
<1> HIDE DEF r
<1>3. e \in [who : Client \cup {HungUp}, request : {<<>>} \cup {<<q>> : q \in Sendable}]
  BY DEF Entry
<1>4. [e EXCEPT !.request = <<r>>] = [who |-> e.who, request |-> <<r>>]
  BY <1>3
<1>5. Range(<<r>>) = {r}
  BY DEF Range
<1>6. [who |-> e.who, request |-> <<r>>] \in Entry
  BY <1>1, <1>2, <1>3, <1>5 DEF Entry
<1> QED BY <1>4, <1>6 DEF r

\* Where the orchestrator has no connection.
Far == (1..12) \cup (17..23) \cup (41..46)

ConnTypes ==
  /\ DOMAIN pc = Client /\ pc["orchestrator"] \in 1..59
  /\ DOMAIN reply = Client
  /\ line \in Seq(Entry)

\* The orchestrator has one connection at most and one exchange under way, and
\* a connection that waits for a reply has no request.
OneExchange ==
  /\ \A i, j \in DOMAIN line : line[i].who = "orchestrator" /\ line[j].who = "orchestrator" => i = j
  /\ \A i \in DOMAIN line :
       line[i].who = "orchestrator" /\ line[i].request # <<>> => "orchestrator" \in awaiting
  /\ reply["orchestrator"] # <<>> =>
       /\ "orchestrator" \in awaiting
       /\ \A i \in DOMAIN line : line[i].who = "orchestrator" => line[i].request = <<>>
  /\ pc["orchestrator"] \in Far => \A i \in DOMAIN line : line[i].who # "orchestrator"

\* Connections end with the coordinator, and it is started when it is down.
OneCoordinator ==
  /\ coordinator # "serving" => line = <<>>
  /\ pc["orchestrator"] \in {1, 42, 43} => coordinator = "down"

\* While a save is under way its request stays the first in line.
SaveIsFirst ==
  pending_write # <<>> =>
    line # <<>> /\ line[1].request # <<>> /\ line[1].request[1].type = "PERSIST_REQ"

ConnInv == ConnTypes /\ OneExchange /\ OneCoordinator /\ SaveIsFirst

(* Lines of connections *)

LEMMA Joined ==
  ASSUME NEW l \in Seq(Entry), NEW e \in Entry
  PROVE  /\ Append(l, e) \in Seq(Entry) /\ DOMAIN Append(l, e) = 1..(Len(l) + 1)
         /\ \A i \in DOMAIN l : i \in DOMAIN Append(l, e) /\ Append(l, e)[i] = l[i]
         /\ Append(l, e)[Len(l) + 1] = e
OBVIOUS

LEMMA Mapped ==
  ASSUME NEW l \in Seq(Entry), NEW m, m = [i \in DOMAIN l |-> m[i]], \A i \in DOMAIN l : m[i] \in Entry
  PROVE  m \in Seq(Entry) /\ DOMAIN m = DOMAIN l
<1>1. DOMAIN l = 1..Len(l) /\ Len(l) \in Nat
  OBVIOUS
<1>2. m \in [1..Len(l) -> Entry]
  BY <1>1
<1>3. m \in Seq(Entry)
  BY <1>1, <1>2, Zenon, SeqDef
<1> QED BY <1>1, <1>2, <1>3

LEMMA Shortened ==
  ASSUME NEW l \in Seq(Entry), l # <<>>
  PROVE  /\ Tail(l) \in Seq(Entry) /\ l[1] \in Entry /\ 1 \in DOMAIN l
         /\ \A i \in DOMAIN Tail(l) : i + 1 \in DOMAIN l /\ Tail(l)[i] = l[i + 1]
OBVIOUS

LEMMA Answering ==
  ASSUME NEW l \in Seq(Entry), l # <<>>
  PROVE  /\ [l EXCEPT ![1].request = <<>>] \in Seq(Entry)
         /\ DOMAIN [l EXCEPT ![1].request = <<>>] = DOMAIN l
         /\ [l EXCEPT ![1].request = <<>>][1] = [l[1] EXCEPT !.request = <<>>]
         /\ \A i \in DOMAIN l : i # 1 => [l EXCEPT ![1].request = <<>>][i] = l[i]
<1> DEFINE e == [l[1] EXCEPT !.request = <<>>]
<1>1. l[1] \in Entry /\ 1 \in DOMAIN l
  OBVIOUS
<1>2. e \in Entry
  BY <1>1, Entries, Zenon
<1>3. [l EXCEPT ![1].request = <<>>] = [l EXCEPT ![1] = e]
  OBVIOUS
<1> HIDE DEF e
<1>4. [l EXCEPT ![1] = e] \in Seq(Entry) /\ DOMAIN [l EXCEPT ![1] = e] = DOMAIN l
      /\ [l EXCEPT ![1] = e][1] = e /\ \A i \in DOMAIN l : i # 1 => [l EXCEPT ![1] = e][i] = l[i]
  BY <1>1, <1>2
<1> QED BY <1>3, <1>4 DEF e

\* The orchestrator's part of the line is what it was, or less.
Thins ==
  \E k \in {0, 1} : \A i \in DOMAIN line' : line'[i].who = "orchestrator" =>
    /\ i + k \in DOMAIN line /\ line[i + k].who = "orchestrator"
    /\ line'[i].request \in {<<>>, line[i + k].request}

LEMMA Thinned ==
  ASSUME ConnTypes, ConnTypes', OneExchange, Thins,
         "orchestrator" \in awaiting => "orchestrator" \in awaiting',
         reply'["orchestrator"] \in {<<>>, reply["orchestrator"]},
         \/ pc'["orchestrator"] \in Far => pc["orchestrator"] \in Far
         \/ \A i \in DOMAIN line' : line'[i].who # "orchestrator"
  PROVE  OneExchange'
<1>1. PICK k \in {0, 1} : \A i \in DOMAIN line' : line'[i].who = "orchestrator" =>
        /\ i + k \in DOMAIN line /\ line[i + k].who = "orchestrator"
        /\ line'[i].request \in {<<>>, line[i + k].request}
  BY DEF Thins
<1>2. \A i \in DOMAIN line' : i \in Nat
  BY DEF ConnTypes
<1>3. \A i, j \in DOMAIN line' : line'[i].who = "orchestrator" /\ line'[j].who = "orchestrator" => i = j
  <2>1. TAKE i, j \in DOMAIN line'
  <2>2. HAVE line'[i].who = "orchestrator" /\ line'[j].who = "orchestrator"
  <2>3. i + k = j + k
    BY <1>1, <2>2, Zenon DEF OneExchange
  <2> QED BY <1>2, <2>3
<1>4. \A i \in DOMAIN line' :
        line'[i].who = "orchestrator" /\ line'[i].request # <<>> => "orchestrator" \in awaiting'
  BY <1>1, Zenon DEF OneExchange
<1>5. reply'["orchestrator"] # <<>> =>
        /\ "orchestrator" \in awaiting'
        /\ \A i \in DOMAIN line' : line'[i].who = "orchestrator" => line'[i].request = <<>>
  BY <1>1, Zenon DEF OneExchange
<1>6. pc'["orchestrator"] \in Far => \A i \in DOMAIN line' : line'[i].who # "orchestrator"
  BY <1>1, Zenon DEF OneExchange
<1> QED BY <1>3, <1>4, <1>5, <1>6, Zenon DEF OneExchange

-----------------------------------------------------------------------------
(* The steps of the clients *)

LEMMA OrchestratorAt ==
  ASSUME Running("orchestrator")
  PROVE  pc["orchestrator"] \in 1..58 /\ OrchestratorStep(pc["orchestrator"], Step("orchestrator"))
<1>1. DOMAIN Script["orchestrator"] = 1..58 /\ Script["orchestrator"] = run_orchestrator
  BY ScriptEnds, ScriptOf, Zenon
<1>2. pc["orchestrator"] \in 1..58
  BY <1>1 DEF Running
<1> QED BY <1>1, <1>2, OrchestratorSteps, Zenon DEF Step

LEMMA WorkerAt ==
  ASSUME NEW p \in Worker, Running(p)
  PROVE  pc[p] \in Nat /\ pc[p] # 0 /\ WorkerStep(p, pc[p], Step(p))
BY WorkerScripts DEF Running, Step

LEMMA StepDoes ==
  ASSUME NEW p \in Client, Running(p)
  PROVE  /\ p \in Worker => Step(p).do \in {"open", "rpc", "create", "fill"}
         /\ p = "orchestrator" => Step(p).do \notin {"create", "fill"}
<1>1. CASE p \in Worker
  BY <1>1, WorkerAt, Roles DEF WorkerStep, Sends
<1>2. CASE p = "orchestrator"
  BY <1>2, OrchestratorAt, Roles DEF OrchestratorStep
<1> QED BY <1>1, <1>2, Roles

\* The position of the orchestrator: it stays, goes on, or leaves.
LEMMA Moves ==
  ASSUME ConnTypes, NEW p \in Client, Running(p), Advance(p)
  PROVE  /\ DOMAIN pc' = Client /\ pc'["orchestrator"] \in 1..59
         /\ pc'[p] = pc[p] + 1 /\ \A q \in Client \ {p} : pc'[q] = pc[q]
         /\ p = "orchestrator" => pc["orchestrator"] \in 1..58
<1>1. "orchestrator" \in Client
  BY Roles
<1>2. /\ DOMAIN pc' = Client
      /\ pc'[p] = pc[p] + 1 /\ \A q \in Client \ {p} : pc'[q] = pc[q]
  BY DEF ConnTypes, Advance
<1>3. CASE p = "orchestrator"
  BY <1>2, <1>3, OrchestratorAt
<1>4. CASE p # "orchestrator"
  BY <1>1, <1>2, <1>4 DEF ConnTypes
<1> QED BY <1>2, <1>3, <1>4

LEMMA Ends ==
  ASSUME ConnTypes, NEW p \in Client, pc' = [pc EXCEPT ![p] = End(p)]
  PROVE  /\ DOMAIN pc' = Client /\ pc'["orchestrator"] \in 1..59
         /\ pc'[p] = End(p) /\ \A q \in Client \ {p} : pc'[q] = pc[q]
         /\ p = "orchestrator" => pc'["orchestrator"] = 59
<1>1. "orchestrator" \in Client
  BY Roles
<1>2. DOMAIN pc' = Client /\ pc'[p] = End(p) /\ \A q \in Client \ {p} : pc'[q] = pc[q]
  BY DEF ConnTypes
<1>3. CASE p = "orchestrator"
  BY <1>2, <1>3, ScriptEnds
<1>4. CASE p # "orchestrator"
  BY <1>1, <1>2, <1>4 DEF ConnTypes
<1> QED BY <1>2, <1>3, <1>4

\* The orchestrator does not leave a connection behind.
Stays ==
  \/ pc'["orchestrator"] \in {pc["orchestrator"], 59}
  \/ /\ pc["orchestrator"] \in 1..58 /\ pc'["orchestrator"] = pc["orchestrator"] + 1
     /\ pc["orchestrator"] \notin {16, 40, 41}

LEMMA StaysFar ==
  ASSUME ConnTypes, Stays
  PROVE  /\ pc'["orchestrator"] \in Far => pc["orchestrator"] \in Far
         /\ pc'["orchestrator"] \in {1, 42, 43} => pc["orchestrator"] \in {1, 42, 43}
<1>1. pc["orchestrator"] \in 1..59
  BY DEF ConnTypes
<1>2. CASE pc'["orchestrator"] = 59
  BY <1>2 DEF Far
<1>3. CASE pc'["orchestrator"] = pc["orchestrator"]
  BY <1>3
<1>4. CASE /\ pc["orchestrator"] \in 1..58 /\ pc'["orchestrator"] = pc["orchestrator"] + 1
           /\ pc["orchestrator"] \notin {16, 40, 41}
  BY <1>4 DEF Far
<1> QED BY <1>2, <1>3, <1>4 DEF Stays

LEMMA AdvanceStays ==
  ASSUME ConnTypes, NEW p \in Client, Running(p), Advance(p),
         p = "orchestrator" => Step(p).do \notin {"close", "kill"}
  PROVE  Stays
<1>1. CASE p = "orchestrator"
  BY <1>1, Moves, OrchestratorAt DEF Stays, OrchestratorStep
<1>2. CASE p # "orchestrator"
  BY <1>2, Moves, Roles DEF Stays
<1> QED BY <1>1, <1>2

LEMMA EndStays ==
  ASSUME ConnTypes, NEW p \in Client, pc' = [pc EXCEPT ![p] = End(p)]
  PROVE  Stays
BY Ends, Roles DEF Stays

LEMMA Quiet ==
  ASSUME ConnInv, DOMAIN pc' = Client, pc'["orchestrator"] \in 1..59, Stays,
         UNCHANGED <<line, reply, awaiting, coordinator, pending_write>>
  PROVE  ConnInv'
<1>1. ConnTypes'
  BY DEF ConnInv, ConnTypes
<1>2. Thins
  BY DEF Thins, ConnInv, ConnTypes
<1>3. OneExchange'
  BY <1>1, <1>2, Thinned, StaysFar DEF ConnInv
<1>4. OneCoordinator' /\ SaveIsFirst'
  BY StaysFar DEF ConnInv, OneCoordinator, SaveIsFirst
<1> QED BY <1>1, <1>3, <1>4 DEF ConnInv

LEMMA ConnOpens ==
  ASSUME ConnInv, NEW p \in Client, opens(p)
  PROVE  ConnInv'
<1> DEFINE e == [who |-> p, request |-> <<>>]
<1>1. /\ Running(p) /\ Step(p).do = "open" /\ Advance(p) /\ coordinator = "serving"
      /\ line' = Append(line, e)
      /\ UNCHANGED <<pending_write, coordinator, reply, awaiting>>
  BY DEF opens, At, connect, coordVars, fileVars
<1>2. ConnTypes /\ ConnTypes' /\ Stays
  <2>1. e \in Entry
    BY Entries, Zenon
  <2>2. line' \in Seq(Entry)
    BY <1>1, <2>1, Joined, Zenon DEF ConnInv, ConnTypes
  <2> QED BY <1>1, <2>2, Moves, AdvanceStays DEF ConnInv, ConnTypes
<1> HIDE DEF e
<1>3. /\ DOMAIN line' = 1..(Len(line) + 1) /\ DOMAIN line = 1..Len(line) /\ Len(line) \in Nat
      /\ \A i \in DOMAIN line : i \in DOMAIN line' /\ line'[i] = line[i]
      /\ line'[Len(line) + 1] = e /\ e.who = p /\ e.request = <<>>
  <2>1. e \in Entry /\ e.who = p /\ e.request = <<>>
    BY Entries, Zenon DEF e
  <2>2. line \in Seq(Entry)
    BY <1>2 DEF ConnTypes
  <2>3. DOMAIN line = 1..Len(line) /\ Len(line) \in Nat
    BY <2>2
  <2> QED BY <1>1, <2>1, <2>2, <2>3, Joined, Zenon
<1>4. OneExchange'
  <2>1. CASE p # "orchestrator"
    <3>1. Thins
      <4>1. ASSUME NEW i \in DOMAIN line', line'[i].who = "orchestrator"
            PROVE  /\ i + 0 \in DOMAIN line /\ line[i + 0].who = "orchestrator"
                   /\ line'[i].request \in {<<>>, line[i + 0].request}
        BY <1>3, <2>1, <4>1
      <4> QED BY <4>1 DEF Thins
    <3> QED BY <1>1, <1>2, <3>1, Thinned, StaysFar DEF ConnInv
  <2>2. CASE p = "orchestrator"
    <3>1. pc["orchestrator"] \in {12, 23, 46} /\ pc'["orchestrator"] = pc["orchestrator"] + 1
      BY <1>1, <1>2, <2>2, OrchestratorAt, Moves DEF OrchestratorStep
    <3>2. \A i \in DOMAIN line : line[i].who # "orchestrator"
      BY <3>1 DEF ConnInv, OneExchange, Far
    <3>3. \A i \in DOMAIN line' : line'[i].who = "orchestrator" => i = Len(line) + 1 /\ line'[i].request = <<>>
      BY <1>3, <3>2
    <3>4. pc'["orchestrator"] \notin Far
      BY <3>1 DEF Far
    <3>5. reply["orchestrator"] # <<>> => "orchestrator" \in awaiting
      BY DEF ConnInv, OneExchange
    <3> QED BY <1>1, <3>3, <3>4, <3>5 DEF OneExchange
  <2> QED BY <2>1, <2>2
<1>5. OneCoordinator' /\ SaveIsFirst'
  <2>1. OneCoordinator'
    BY <1>1, <1>2, StaysFar DEF ConnInv, OneCoordinator
  <2>2. SaveIsFirst'
    <3>1. CASE pending_write = <<>>
      BY <1>1, <3>1 DEF SaveIsFirst
    <3>2. CASE pending_write # <<>>
      <4>1. line # <<>> /\ line \in Seq(Entry) /\ line[1].request # <<>> /\ line[1].request[1].type = "PERSIST_REQ"
        BY <1>2, <3>2 DEF ConnInv, SaveIsFirst, ConnTypes
      <4>2. 1 \in DOMAIN line
        BY <4>1, Shortened, Zenon
      <4>3. line'[1] = line[1] /\ 1 \in DOMAIN line'
        BY <1>3, <4>2
      <4>4. line' # <<>>
        BY <4>3
      <4> QED BY <4>1, <4>3, <4>4 DEF SaveIsFirst
    <3> QED BY <3>1, <3>2
  <2> QED BY <2>1, <2>2
<1> QED BY <1>2, <1>4, <1>5 DEF ConnInv

LEMMA ConnWrites ==
  ASSUME ConnInv, NEW p \in Client, rpc_writes(p)
  PROVE  ConnInv'
<1> DEFINE r == Step(p).request
           f(e) == IF e.who = p THEN [e EXCEPT !.request = <<r>>] ELSE e
<1>1. /\ Running(p) /\ Step(p).do = "rpc" /\ p \notin awaiting /\ awaiting' = awaiting \cup {p}
      /\ line' = [i \in DOMAIN line |-> f(line[i])]
      /\ UNCHANGED <<pending_write, coordinator, reply, pc>>
  BY DEF rpc_writes, At, exchange_writes, coordVars, fileVars
<1>2. line \in Seq(Entry) /\ \A i \in DOMAIN line : line[i] \in Entry
  BY DEF ConnInv, ConnTypes
<1>3. ASSUME NEW e \in Entry
      PROVE  /\ f(e) \in Entry /\ f(e).who = e.who
             /\ e.who # p => f(e) = e
  <2>1. CASE e.who = p
    <3>1. [e EXCEPT !.request = <<Script[e.who][pc[p]].request>>] \in Entry
      BY <1>1, <2>1, EntryWrites DEF Running, Step
    <3>2. e \in [who : Client \cup {HungUp}, request : {<<>>} \cup {<<q>> : q \in Sendable}]
      BY DEF Entry
    <3> QED BY <2>1, <3>1, <3>2 DEF Step
  <2> QED BY <2>1
<1> HIDE DEF f, r
<1>4. /\ DOMAIN line' = DOMAIN line /\ line' \in Seq(Entry)
      /\ \A i \in DOMAIN line : line'[i].who = line[i].who /\ (line[i].who # p => line'[i] = line[i])
  <2>1. DOMAIN line' = DOMAIN line /\ \A i \in DOMAIN line : line'[i] = f(line[i])
    BY <1>1
  <2>2. line' = [i \in DOMAIN line |-> line'[i]]
    BY <1>1
  <2>3. \A i \in DOMAIN line : line'[i] \in Entry
    BY <1>2, <1>3, <2>1, Zenon
  <2>4. line' \in Seq(Entry)
    BY <1>2, <2>2, <2>3, Mapped, Zenon
  <2>5. \A i \in DOMAIN line : line'[i].who = line[i].who /\ (line[i].who # p => line'[i] = line[i])
    BY <1>2, <1>3, <2>1
  <2> QED BY <2>1, <2>4, <2>5
<1>5. ConnTypes /\ ConnTypes'
  BY <1>1, <1>4 DEF ConnInv, ConnTypes
<1>6. OneExchange'
  <2>1. CASE p # "orchestrator"
    <3>1. Thins
      <4>1. ASSUME NEW i \in DOMAIN line', line'[i].who = "orchestrator"
            PROVE  /\ i + 0 \in DOMAIN line /\ line[i + 0].who = "orchestrator"
                   /\ line'[i].request \in {<<>>, line[i + 0].request}
        <5>1. i + 0 = i
          BY <1>2, <1>4
        <5> QED BY <1>4, <2>1, <4>1, <5>1
      <4> QED BY <4>1 DEF Thins
    <3> QED BY <1>1, <1>5, <3>1, Thinned DEF ConnInv
  <2>2. CASE p = "orchestrator"
    <3>1. "orchestrator" \in awaiting' /\ reply'["orchestrator"] = <<>>
      BY <1>1, <2>2 DEF ConnInv, OneExchange
    <3> QED BY <1>1, <1>4, <3>1 DEF ConnInv, OneExchange
  <2> QED BY <2>1, <2>2
<1>7. OneCoordinator'
  <2>1. line = <<>> => line' = <<>>
    BY <1>2, <1>4
  <2> QED BY <1>1, <2>1 DEF ConnInv, OneCoordinator
<1>8. SaveIsFirst'
  <2>1. CASE pending_write = <<>>
    BY <1>1, <2>1 DEF SaveIsFirst
  <2>2. CASE pending_write # <<>>
    <3>1. line # <<>> /\ line[1].request # <<>> /\ line[1].request[1].type = "PERSIST_REQ"
      BY <2>2 DEF ConnInv, SaveIsFirst
    <3>2. 1 \in DOMAIN line /\ line[1].who \in {"orchestrator", HungUp}
      BY <1>2, <3>1, Shortened, Asked, Zenon
    <3>3. line[1].who # p
      BY <1>1, <3>1, <3>2, Roles DEF ConnInv, OneExchange
    <3>4. line'[1] = line[1] /\ 1 \in DOMAIN line'
      BY <1>4, <3>2, <3>3
    <3>5. line' # <<>>
      BY <3>4
    <3> QED BY <3>1, <3>4, <3>5 DEF SaveIsFirst
  <2> QED BY <2>1, <2>2
<1> QED BY <1>5, <1>6, <1>7, <1>8 DEF ConnInv

LEMMA ConnReads ==
  ASSUME ConnInv, NEW p \in Client, rpc_reads(p) \/ rpc_fails(p)
  PROVE  ConnInv'
<1>1. /\ Running(p) /\ Step(p).do = "rpc" /\ Advance(p) /\ awaiting' = awaiting \ {p}
      /\ UNCHANGED <<pending_write, coordinator, line>>
      /\ \/ reply[p] # <<>> /\ reply' = [reply EXCEPT ![p] = <<>>]
         \/ ~Connected(p) /\ reply[p] = <<>> /\ reply' = reply
  BY DEF rpc_reads, rpc_fails, At, exchange_reads, exchange_fails, coordVars, serverVars, fileVars
<1>2. ConnTypes /\ ConnTypes' /\ Stays
  BY <1>1, Moves, AdvanceStays DEF ConnInv, ConnTypes
<1>3. OneExchange'
  <2>1. CASE p # "orchestrator"
    <3>1. Thins
      BY <1>1 DEF Thins, ConnInv, ConnTypes
    <3>2. reply'["orchestrator"] = reply["orchestrator"]
      BY <1>1, <1>2, <2>1, Roles DEF ConnTypes
    <3> QED BY <1>1, <1>2, <2>1, <3>1, <3>2, Thinned, StaysFar DEF ConnInv
  <2>2. CASE p = "orchestrator"
    <3>1. reply'["orchestrator"] = <<>>
      BY <1>1, <1>2, <2>2 DEF ConnTypes
    <3>2. \A i \in DOMAIN line : line[i].who = "orchestrator" => line[i].request = <<>>
      BY <1>1, <2>2 DEF ConnInv, OneExchange, Connected
    <3> QED BY <1>1, <1>2, <3>1, <3>2, StaysFar DEF ConnInv, OneExchange
  <2> QED BY <2>1, <2>2
<1>4. OneCoordinator' /\ SaveIsFirst'
  BY <1>1, <1>2, StaysFar DEF ConnInv, OneCoordinator, SaveIsFirst
<1> QED BY <1>2, <1>3, <1>4 DEF ConnInv

\* The client p is gone: its connection is left with its request or without.
Departs(p) ==
  /\ line' = [i \in DOMAIN line |-> line'[i]]
  /\ \A i \in DOMAIN line :
       IF line[i].who = p
       THEN /\ line'[i] \in Entry /\ line'[i].who = HungUp
            /\ line'[i].request \in {<<>>, line[i].request}
            /\ p = "orchestrator" => line'[i].request = line[i].request
       ELSE line'[i] = line[i]

LEMMA ConnDeparts ==
  ASSUME ConnInv, NEW p \in Client, Departs(p), DOMAIN pc' = Client, pc'["orchestrator"] \in 1..59,
         pc'["orchestrator"] \in {1, 42, 43} => pc["orchestrator"] \in {1, 42, 43},
         p # "orchestrator" => Stays, DOMAIN reply' = Client,
         "orchestrator" \in awaiting => "orchestrator" \in awaiting',
         reply'["orchestrator"] \in {<<>>, reply["orchestrator"]},
         UNCHANGED <<coordinator, pending_write>>
  PROVE  ConnInv'
<1>1. line \in Seq(Entry) /\ \A i \in DOMAIN line : line[i] \in Entry
  BY DEF ConnInv, ConnTypes
<1>2. DOMAIN line' = DOMAIN line /\ line' \in Seq(Entry)
  <2>1. line' = [i \in DOMAIN line |-> line'[i]] /\ \A i \in DOMAIN line : line'[i] \in Entry
    BY <1>1 DEF Departs
  <2> QED BY <1>1, <2>1, Mapped, Zenon
<1>3. ConnTypes /\ ConnTypes'
  BY <1>2 DEF ConnInv, ConnTypes
<1>4. HungUp # p /\ HungUp # "orchestrator"
  BY Roles
<1>5. OneExchange'
  <2>1. Thins
    <3>1. ASSUME NEW i \in DOMAIN line', line'[i].who = "orchestrator"
          PROVE  /\ i + 0 \in DOMAIN line /\ line[i + 0].who = "orchestrator"
                 /\ line'[i].request \in {<<>>, line[i + 0].request}
      <4>1. i + 0 = i
        BY <1>1, <1>2
      <4> QED BY <1>2, <1>4, <3>1, <4>1 DEF Departs
    <3> QED BY <3>1 DEF Thins
  <2>2. p = "orchestrator" => \A i \in DOMAIN line' : line'[i].who # "orchestrator"
    BY <1>2, <1>4 DEF Departs
  <2> QED BY <1>3, <2>1, <2>2, Thinned, StaysFar DEF ConnInv
<1>6. OneCoordinator'
  <2>1. line = <<>> => line' = <<>>
    BY <1>1, <1>2
  <2> QED BY <2>1 DEF ConnInv, OneCoordinator
<1>7. SaveIsFirst'
  <2>1. CASE pending_write = <<>>
    BY <2>1 DEF SaveIsFirst
  <2>2. CASE pending_write # <<>>
    <3>1. line # <<>> /\ line[1].request # <<>> /\ line[1].request[1].type = "PERSIST_REQ"
      BY <2>2 DEF ConnInv, SaveIsFirst
    <3>2. 1 \in DOMAIN line /\ line[1].who \in {"orchestrator", HungUp}
      BY <1>1, <3>1, Shortened, Asked, Zenon
    <3>3. line'[1].request = line[1].request /\ 1 \in DOMAIN line'
      BY <1>2, <1>4, <3>2 DEF Departs
    <3>4. line' # <<>>
      BY <3>3
    <3> QED BY <3>1, <3>3, <3>4 DEF SaveIsFirst
  <2> QED BY <2>1, <2>2
<1> QED BY <1>3, <1>5, <1>6, <1>7 DEF ConnInv

LEMMA AbandonDeparts ==
  ASSUME ConnTypes, NEW p \in Client, NEW keeps_request \in BOOLEAN, Abandon(p, keeps_request),
         p = "orchestrator" => keeps_request
  PROVE  /\ Departs(p) /\ DOMAIN reply' = Client
         /\ \A q \in Client : reply'[q] \in {<<>>, reply[q]}
<1> DEFINE f(e) == IF e.who = p
                   THEN [who |-> HungUp, request |-> IF keeps_request THEN e.request ELSE <<>>]
                   ELSE e
<1>1. line' = [i \in DOMAIN line |-> f(line[i])] /\ reply' = [reply EXCEPT ![p] = <<>>]
  BY DEF Abandon
<1>2. \A i \in DOMAIN line : line[i] \in Entry
  BY DEF ConnTypes
<1>3. ASSUME NEW e \in Entry, e.who = p
      PROVE  /\ f(e) \in Entry /\ f(e).who = HungUp /\ f(e).request \in {<<>>, e.request}
             /\ p = "orchestrator" => f(e).request = e.request
  <2>1. CASE keeps_request
    BY <1>3, <2>1, Entries
  <2>2. CASE ~keeps_request
    BY <1>3, <2>2, Entries
  <2> QED BY <2>1, <2>2
<1>4. \A e : e.who # p => f(e) = e
  OBVIOUS
<1> HIDE DEF f
<1>5. Departs(p)
  <2>1. line' = [i \in DOMAIN line |-> line'[i]] /\ \A i \in DOMAIN line : line'[i] = f(line[i])
    BY <1>1
  <2>2. ASSUME NEW i \in DOMAIN line
        PROVE  IF line[i].who = p
               THEN /\ line'[i] \in Entry /\ line'[i].who = HungUp
                    /\ line'[i].request \in {<<>>, line[i].request}
                    /\ p = "orchestrator" => line'[i].request = line[i].request
               ELSE line'[i] = line[i]
    <3>1. CASE line[i].who = p
      BY <1>2, <1>3, <2>1, <3>1
    <3>2. CASE line[i].who # p
      BY <1>4, <2>1, <3>2
    <3> QED BY <3>1, <3>2
  <2> QED BY <2>1, <2>2 DEF Departs
<1> QED BY <1>1, <1>5 DEF ConnTypes

LEMMA HangUpDeparts ==
  ASSUME ConnTypes, NEW p \in Client,
         line' = [i \in DOMAIN line |->
                    IF line[i].who = p THEN [line[i] EXCEPT !.who = HungUp] ELSE line[i]]
  PROVE  Departs(p)
<1>1. \A i \in DOMAIN line : line[i] \in Entry
  BY DEF ConnTypes
<1>2. ASSUME NEW i \in DOMAIN line
      PROVE  IF line[i].who = p
             THEN /\ line'[i] \in Entry /\ line'[i].who = HungUp
                  /\ line'[i].request \in {<<>>, line[i].request}
                  /\ p = "orchestrator" => line'[i].request = line[i].request
             ELSE line'[i] = line[i]
  <2>1. CASE line[i].who = p
    <3>1. line[i] \in [who : Client \cup {HungUp}, request : {<<>>} \cup {<<q>> : q \in Sendable}]
      BY <1>1 DEF Entry
    <3>2. line'[i] = [line[i] EXCEPT !.who = HungUp]
      BY <2>1
    <3> QED BY <1>1, <2>1, <3>1, <3>2, Entries
  <2>2. CASE line[i].who # p
    BY <2>2
  <2> QED BY <2>1, <2>2
<1> QED BY <1>2 DEF Departs

LEMMA ConnCloses ==
  ASSUME ConnInv, NEW p \in Client, closes(p)
  PROVE  ConnInv'
<1>1. /\ Running(p) /\ Step(p).do = "close" /\ Advance(p) /\ Abandon(p, TRUE)
      /\ UNCHANGED <<pending_write, coordinator, awaiting>>
  BY DEF closes, close, At, Abandon, coordVars, fileVars
<1>2. p = "orchestrator"
  BY <1>1, StepDoes, Roles
<1>3. DOMAIN pc' = Client /\ pc'["orchestrator"] \in 1..59
  BY <1>1, Moves DEF ConnInv
<1>4. pc'["orchestrator"] \in {1, 42, 43} => pc["orchestrator"] \in {1, 42, 43}
  BY <1>1, <1>2, OrchestratorAt, Moves DEF ConnInv, OrchestratorStep
<1>5. Departs(p) /\ DOMAIN reply' = Client /\ reply'["orchestrator"] \in {<<>>, reply["orchestrator"]}
  BY <1>1, <1>2, AbandonDeparts DEF ConnInv
<1> QED BY <1>1, <1>2, <1>3, <1>4, <1>5, ConnDeparts

LEMMA ConnJudged ==
  ASSUME ConnInv, NEW p \in Client, Running(p), Step(p).do \notin {"close", "kill"}, NEW good, Judge(p, good),
         UNCHANGED <<coordVars, coordinator, awaiting>>
  PROVE  ConnInv'
<1>0. UNCHANGED pending_write
  BY DEF coordVars, fileVars
<1>1. CASE good
  <2>1. Advance(p) /\ UNCHANGED <<line, reply>>
    BY <1>1 DEF Judge
  <2>2. Stays /\ DOMAIN pc' = Client /\ pc'["orchestrator"] \in 1..59
    BY <2>1, Moves, AdvanceStays DEF ConnInv
  <2> QED BY <1>0, <2>1, <2>2, Quiet
<1>2. CASE ~good
  <2>1. /\ pc' = [pc EXCEPT ![p] = End(p)] /\ UNCHANGED reply
        /\ line' = [i \in DOMAIN line |->
                      IF line[i].who = p THEN [line[i] EXCEPT !.who = HungUp] ELSE line[i]]
    BY <1>2 DEF Judge, Quits
  <2>2. Stays /\ DOMAIN pc' = Client /\ pc'["orchestrator"] \in 1..59
    BY <2>1, Ends, EndStays DEF ConnInv
  <2>3. Departs(p)
    BY <2>1, HangUpDeparts DEF ConnInv
  <2>4. pc'["orchestrator"] \in {1, 42, 43} => pc["orchestrator"] \in {1, 42, 43}
    BY <2>2, StaysFar DEF ConnInv
  <2>5. DOMAIN reply' = Client /\ reply'["orchestrator"] = reply["orchestrator"]
    BY <2>1 DEF ConnInv, ConnTypes
  <2> QED BY <1>0, <2>2, <2>3, <2>4, <2>5, ConnDeparts
<1> QED BY <1>1, <1>2

LEMMA ConnChecks ==
  ASSUME ConnInv, NEW p \in Client, checks_exists(p) \/ checks_file(p) \/ checks_variable(p)
  PROVE  ConnInv'
<1>1. Running(p) /\ Step(p).do \notin {"close", "kill"} /\ UNCHANGED <<coordVars, coordinator, awaiting>>
  BY DEF checks_exists, checks_file, checks_variable, At
<1>2. \E good : Judge(p, good)
  <2>1. CASE checks_exists(p)
    BY <2>1 DEF checks_exists
  <2>2. CASE checks_file(p)
    BY <2>2 DEF checks_file
  <2>3. CASE checks_variable(p)
    <3>1. CASE local[p][Step(p).variable] = "uninitialised"
      <4>1. Judge(p, TRUE) \/ Judge(p, FALSE)
        BY <2>3, <3>1, Zenon DEF checks_variable
      <4> QED BY <4>1, Zenon
    <3>2. CASE local[p][Step(p).variable] # "uninitialised"
      <4>1. Judge(p, local[p][Step(p).variable] \in Step(p).good)
        BY <2>3, <3>2, Zenon DEF checks_variable
      <4> QED BY <4>1, Zenon
    <3> QED BY <3>1, <3>2
  <2> QED BY <2>1, <2>2, <2>3
<1>3. PICK good : Judge(p, good)
  BY <1>2, Zenon
<1> QED BY <1>1, <1>3, ConnJudged

\* Steps that concern neither a connection nor the coordinator.
LEMMA ConnFiles ==
  ASSUME ConnInv, NEW p \in Client,
         \/ creates_file(p) \/ fills_file(p) \/ removes_file(p)
         \/ wait_finds_file(p) \/ wait_times_out(p)
         \/ open_fails(p) \/ concludes(p)
  PROVE  ConnInv'
<1>1. UNCHANGED <<line, reply, awaiting, coordinator, pending_write>>
  BY DEF creates_file, fills_file, removes_file, wait_finds_file, wait_times_out, open_fails,
     concludes, connect_refused, coordVars, fileVars, serverVars
<1>2. \/ Running(p) /\ Step(p).do \notin {"close", "kill"} /\ Advance(p)
      \/ pc' = [pc EXCEPT ![p] = End(p)]
  BY DEF creates_file, fills_file, removes_file, wait_finds_file, wait_times_out, open_fails,
     concludes, At, Quits
<1>3. Stays /\ DOMAIN pc' = Client /\ pc'["orchestrator"] \in 1..59
  BY <1>2, Moves, AdvanceStays, Ends, EndStays DEF ConnInv
<1> QED BY <1>1, <1>3, Quiet

LEMMA SpawnsWhat ==
  ASSUME ConnTypes, NEW p \in Client, spawns(p)
  PROVE  /\ p = "orchestrator" /\ pc["orchestrator"] \in 1..58
         /\ DOMAIN pc' = Client /\ pc'["orchestrator"] = pc["orchestrator"] + 1
         /\ pc["orchestrator"] \notin {16, 40, 41}
         /\ pc["orchestrator"] # 4 => pc'["worker_a"] = pc["worker_a"]
         /\ pc'["replay"] = IF pc["orchestrator"] = 18 THEN 1 ELSE pc["replay"]
         /\ \/ /\ coordinator' \in {"starting", "loading"} /\ pc["orchestrator"] \in {1, 43}
               /\ pc["orchestrator"] = 43 => coordinator' = "loading"
            \/ coordinator' = coordinator
<1>1. Running(p) /\ Step(p).do = "spawn"
  BY DEF spawns, At
<1>2. p = "orchestrator"
  BY <1>1, StepDoes, Roles
<1> DEFINE i == pc["orchestrator"]
           x == Step(p).process
<1>3. /\ i \in 1..58 /\ i \notin {16, 40, 41} /\ x \in Worker \cup {"coordinator"}
      /\ x = "coordinator" => i = 1 \/ (i = 43 /\ Step(p).loads)
      /\ x = "worker_a" => i = 4
      /\ x = "replay" <=> i = 18
  BY <1>1, <1>2, OrchestratorAt DEF OrchestratorStep
<1>4. /\ "orchestrator" \in Client /\ "worker_a" \in Client /\ "replay" \in Client
      /\ "orchestrator" \notin Worker /\ "coordinator" \notin Worker
  BY Roles
<1>5. CASE x = "coordinator"
  <2>1. /\ pc' = [pc EXCEPT !["orchestrator"] = @ + 1]
        /\ coordinator' = IF Step(p).loads THEN "loading" ELSE "starting"
    BY <1>2, <1>5 DEF spawns, Advance
  <2>2. /\ DOMAIN pc' = Client /\ pc'["orchestrator"] = i + 1
        /\ pc'["worker_a"] = pc["worker_a"] /\ pc'["replay"] = pc["replay"]
    BY <1>4, <2>1 DEF ConnTypes
  <2> QED BY <1>2, <1>3, <1>5, <2>1, <2>2
<1>6. CASE x # "coordinator"
  <2>1. pc' = [pc EXCEPT !["orchestrator"] = @ + 1, ![x] = 1] /\ coordinator' = coordinator
    BY <1>2, <1>6 DEF spawns
  <2>2. x \in Worker /\ x # "orchestrator" /\ x \in Client
    BY <1>3, <1>4, <1>6, Roles
  <2> HIDE DEF x
  <2>3. /\ DOMAIN pc' = Client /\ pc'["orchestrator"] = i + 1
        /\ x # "worker_a" => pc'["worker_a"] = pc["worker_a"]
        /\ x # "replay" => pc'["replay"] = pc["replay"]
        /\ x = "replay" => pc'["replay"] = 1
    BY <1>4, <2>1, <2>2 DEF ConnTypes
  <2> QED BY <1>2, <1>3, <2>1, <2>3
<1> QED BY <1>5, <1>6

LEMMA ConnSpawns ==
  ASSUME ConnInv, NEW p \in Client, spawns(p)
  PROVE  ConnInv'
<1>1. /\ pc["orchestrator"] \in 1..58 /\ DOMAIN pc' = Client
      /\ pc'["orchestrator"] = pc["orchestrator"] + 1 /\ pc["orchestrator"] \notin {16, 40, 41}
      /\ \/ pc["orchestrator"] \in {1, 43} /\ coordinator' \in {"starting", "loading"}
         \/ coordinator' = coordinator
  BY SpawnsWhat DEF ConnInv
<1>2. UNCHANGED <<line, reply, awaiting, pending_write>>
  BY DEF spawns, coordVars, fileVars
<1>3. Stays /\ pc'["orchestrator"] \in 1..59
  BY <1>1 DEF Stays
<1>4. CASE coordinator' = coordinator
  BY <1>1, <1>2, <1>3, <1>4, Quiet
<1>5. CASE pc["orchestrator"] \in {1, 43} /\ coordinator' \in {"starting", "loading"}
  <2>1. line = <<>>
    BY <1>5 DEF ConnInv, OneCoordinator
  <2>2. pending_write = <<>>
    BY <2>1 DEF ConnInv, SaveIsFirst
  <2>3. ConnTypes'
    BY <1>1, <1>2, <1>3 DEF ConnInv, ConnTypes
  <2>4. Thins
    BY <1>2, <2>1 DEF Thins
  <2>5. OneExchange'
    BY <1>2, <1>3, <2>3, <2>4, Thinned, StaysFar DEF ConnInv
  <2>6. OneCoordinator' /\ SaveIsFirst'
    BY <1>1, <1>2, <1>5, <2>1, <2>2 DEF OneCoordinator, SaveIsFirst
  <2> QED BY <2>3, <2>5, <2>6 DEF ConnInv
<1> QED BY <1>1, <1>4, <1>5

LEMMA KillsWhom ==
  ASSUME ConnTypes, NEW p \in Client, kills_worker(p)
  PROVE  /\ p = "orchestrator" /\ pc["orchestrator"] = 11 /\ Dies("worker_a")
         /\ DOMAIN pc' = Client /\ pc'["orchestrator"] = 12
         /\ pc'["worker_a"] = 8 /\ pc'["replay"] = pc["replay"]
<1>1. Running(p) /\ Step(p).do = "kill" /\ Step(p).process # "coordinator"
  BY DEF kills_worker, At
<1>2. p = "orchestrator"
  BY <1>1, StepDoes, Roles
<1>3. pc["orchestrator"] = 11 /\ Step(p).process = "worker_a"
  BY <1>1, <1>2, OrchestratorAt DEF OrchestratorStep
<1>4. Dies("worker_a") /\ pc' = [pc EXCEPT !["orchestrator"] = @ + 1, !["worker_a"] = End("worker_a")]
  BY <1>2, <1>3 DEF kills_worker
<1>5. "orchestrator" \in Client /\ "worker_a" \in Client /\ "replay" \in Client
  BY Roles
<1> QED BY <1>2, <1>3, <1>4, <1>5, ScriptEnds DEF ConnTypes

LEMMA ConnDies ==
  ASSUME ConnInv, NEW w \in Worker, Dies(w), DOMAIN pc' = Client, pc'["orchestrator"] \in 1..59, Stays
  PROVE  ConnInv'
<1>1. w \in Client /\ w # "orchestrator"
  BY Roles
<1>2. PICK keeps_request \in BOOLEAN : Abandon(w, keeps_request)
  BY DEF Dies
<1>3. Departs(w) /\ DOMAIN reply' = Client /\ reply'["orchestrator"] \in {<<>>, reply["orchestrator"]}
  BY <1>1, <1>2, AbandonDeparts, Roles DEF ConnInv
<1>4. UNCHANGED <<coordinator, pending_write>> /\ awaiting' = awaiting \ {w}
  BY <1>2 DEF Abandon, Dies, coordVars, fileVars
<1>5. pc'["orchestrator"] \in {1, 42, 43} => pc["orchestrator"] \in {1, 42, 43}
  BY StaysFar DEF ConnInv
<1> QED BY <1>1, <1>3, <1>4, <1>5, ConnDeparts

LEMMA ConnDeaths ==
  ASSUME ConnInv, \/ \E p \in Client : kills_worker(p)
                  \/ \E w \in Client : worker_crashes(w)
  PROVE  ConnInv'
<1>1. ASSUME NEW p \in Client, kills_worker(p) PROVE ConnInv'
  <2>1. /\ pc["orchestrator"] = 11 /\ Dies("worker_a") /\ DOMAIN pc' = Client
        /\ pc'["orchestrator"] = 12
    BY <1>1, KillsWhom DEF ConnInv
  <2>2. Stays
    BY <2>1 DEF Stays
  <2> QED BY <2>1, <2>2, ConnDies, Roles
<1>2. ASSUME NEW w \in Client, worker_crashes(w) PROVE ConnInv'
  <2>1. w \in Worker /\ Dies(w) /\ pc' = [pc EXCEPT ![w] = End(w)]
    BY <1>2, Roles DEF worker_crashes
  <2>2. Stays /\ DOMAIN pc' = Client /\ pc'["orchestrator"] \in 1..59
    BY <2>1, Ends, EndStays DEF ConnInv
  <2> QED BY <2>1, <2>2, ConnDies
<1> QED BY <1>1, <1>2

LEMMA ConnStops ==
  ASSUME ConnInv, CoordinatorStops, DOMAIN pc' = Client, pc'["orchestrator"] \in 1..59, UNCHANGED awaiting
  PROVE  ConnInv'
<1>1. coordinator' = "down" /\ line' = <<>> /\ pending_write' = <<>> /\ UNCHANGED reply
  BY DEF CoordinatorStops
<1>2. ConnTypes'
  BY <1>1 DEF ConnInv, ConnTypes
<1>3. \A i \in DOMAIN line' : FALSE
  BY <1>1
<1>4. OneExchange'
  BY <1>1, <1>3 DEF ConnInv, OneExchange
<1> QED BY <1>1, <1>2, <1>4 DEF ConnInv, OneCoordinator, SaveIsFirst

LEMMA StopsWhen ==
  ASSUME ConnTypes, NEW p \in Client, kills_coordinator(p)
  PROVE  /\ p = "orchestrator" /\ Running(p) /\ Advance(p) /\ CoordinatorStops /\ UNCHANGED awaiting
         /\ pc["orchestrator"] \notin {11, 12, 13, 14, 16, 18, 40}
<1>1. Running(p) /\ Step(p).do = "kill" /\ Step(p).process = "coordinator" /\ Advance(p)
  BY DEF kills_coordinator, At
<1>2. p = "orchestrator"
  BY <1>1, StepDoes, Roles
<1>3. pc["orchestrator"] \notin {11, 12, 13, 14, 16, 18, 40}
  BY <1>1, <1>2, OrchestratorAt DEF OrchestratorStep
<1> QED BY <1>1, <1>2, <1>3 DEF kills_coordinator

LEMMA ConnStopped ==
  ASSUME ConnInv, \/ \E p \in Client : kills_coordinator(p)
                  \/ coordinator_crashes /\ UNCHANGED <<pc, awaiting>>
  PROVE  ConnInv'
<1>1. ASSUME NEW p \in Client, kills_coordinator(p) PROVE ConnInv'
  <2>1. Running(p) /\ Advance(p) /\ CoordinatorStops /\ UNCHANGED awaiting
    BY <1>1, StopsWhen DEF ConnInv
  <2>2. DOMAIN pc' = Client /\ pc'["orchestrator"] \in 1..59
    BY <2>1, Moves DEF ConnInv
  <2> QED BY <2>1, <2>2, ConnStops
<1>2. ASSUME coordinator_crashes, UNCHANGED <<pc, awaiting>> PROVE ConnInv'
  <2>1. CoordinatorStops /\ DOMAIN pc' = Client /\ pc'["orchestrator"] \in 1..59
    BY <1>2 DEF coordinator_crashes, ConnInv, ConnTypes
  <2> QED BY <1>2, <2>1, ConnStops
<1> QED BY <1>1, <1>2

-----------------------------------------------------------------------------
(* The steps of the coordinator *)

\* The coordinator comes up, or fails to.
LEMMA ConnLife ==
  ASSUME ConnInv,
         \/ coordinator_announces \/ coordinator_listens \/ coordinator_cannot_listen
         \/ coordinator_loads,
         UNCHANGED <<pc, awaiting>>
  PROVE  ConnInv'
<1>1. /\ coordinator \notin {"down", "serving"} /\ UNCHANGED <<line, reply>>
      /\ pending_write' \in {<<>>, pending_write}
  BY DEF coordinator_announces, coordinator_listens, coordinator_cannot_listen, coordinator_loads,
     restart_loads, restart_serves_empty, coordVars, fileVars
<1>2. line = <<>> /\ line' = <<>>
  BY <1>1 DEF ConnInv, OneCoordinator
<1>3. pending_write' = <<>>
  BY <1>1, <1>2 DEF ConnInv, SaveIsFirst
<1>4. ConnTypes' /\ OneExchange'
  BY <1>1 DEF ConnInv, ConnTypes, OneExchange
<1>5. pc["orchestrator"] \notin {1, 42, 43}
  BY <1>1 DEF ConnInv, OneCoordinator
<1> QED BY <1>2, <1>3, <1>4, <1>5 DEF ConnInv, OneCoordinator, SaveIsFirst

LEMMA HeadRequest ==
  ASSUME ConnTypes, NEW types, Requested(types)
  PROVE  /\ coordinator = "serving" /\ line # <<>> /\ line[1] \in Entry /\ 1 \in DOMAIN line
         /\ line[1].request # <<>> /\ line[1].request[1] \in Sendable
         /\ line[1].request[1].type \in types
<1>1. line \in Seq(Entry) /\ line # <<>> /\ coordinator = "serving"
  BY DEF ConnTypes, Requested
<1>2. line[1] \in Entry /\ 1 \in DOMAIN line
  BY <1>1, Shortened, Zenon
<1>3. PICK r \in Range(line[1].request) : r.type \in types
  BY DEF Requested, Current
<1>4. line[1].request # <<>>
  BY <1>2, <1>3, Asked
<1> QED BY <1>1, <1>2, <1>3, <1>4, Asked

LEMMA ConnTail ==
  ASSUME ConnInv, coordinator = "serving", line # <<>>, line' = Tail(line), pending_write' = <<>>,
         UNCHANGED <<coordinator, reply, pc, awaiting>>
  PROVE  ConnInv'
<1>1. line \in Seq(Entry)
  BY DEF ConnInv, ConnTypes
<1>2. /\ line' \in Seq(Entry)
      /\ \A i \in DOMAIN line' : i + 1 \in DOMAIN line /\ line'[i] = line[i + 1]
  BY <1>1, Shortened, Zenon
<1>3. ConnTypes /\ ConnTypes'
  BY <1>2 DEF ConnInv, ConnTypes
<1>4. Thins
  <2>1. \A i \in DOMAIN line' : line'[i].who = "orchestrator" =>
          /\ i + 1 \in DOMAIN line /\ line[i + 1].who = "orchestrator"
          /\ line'[i].request \in {<<>>, line[i + 1].request}
    BY <1>2
  <2> QED BY <2>1 DEF Thins
<1>5. OneExchange'
  BY <1>3, <1>4, Thinned DEF ConnInv
<1> QED BY <1>3, <1>5 DEF ConnInv, OneCoordinator, SaveIsFirst

LEMMA ConnAnswer ==
  ASSUME ConnInv, NEW types, Requested(types), NEW frame, Answer(frame), pending_write' = <<>>,
         UNCHANGED <<coordinator, pc, awaiting>>
  PROVE  ConnInv'
<1>1. /\ coordinator = "serving" /\ line # <<>> /\ line[1] \in Entry /\ 1 \in DOMAIN line
      /\ line[1].request # <<>>
  BY HeadRequest DEF ConnInv
<1>2. CASE line[1].who = HungUp
  <2>1. line' = Tail(line) /\ UNCHANGED reply
    BY <1>2 DEF Answer, Current
  <2> QED BY <1>1, <2>1, ConnTail
<1>3. CASE line[1].who # HungUp
  <2> DEFINE c == line[1].who
  <2>1. line' = [line EXCEPT ![1].request = <<>>] /\ reply' = [reply EXCEPT ![c] = <<frame>>]
    BY <1>3 DEF Answer, Current
  <2>2. c \in Client /\ line \in Seq(Entry)
    BY <1>1, <1>3, Asked DEF ConnInv, ConnTypes
  <2>3. /\ line' \in Seq(Entry) /\ DOMAIN line' = DOMAIN line
        /\ line'[1] = [line[1] EXCEPT !.request = <<>>]
        /\ \A i \in DOMAIN line : i # 1 => line'[i] = line[i]
    BY <1>1, <2>1, <2>2, Answering, Zenon
  <2>4. line'[1].who = c /\ line'[1].request = <<>>
    <3>1. line[1] \in [who : Client \cup {HungUp}, request : {<<>>} \cup {<<q>> : q \in Sendable}]
      BY <1>1 DEF Entry
    <3> QED BY <2>3, <3>1
  <2>5. ConnTypes /\ ConnTypes'
    BY <2>1, <2>3 DEF ConnInv, ConnTypes
  <2>6. OneExchange'
    <3>1. CASE c # "orchestrator"
      <4>1. ASSUME NEW i \in DOMAIN line', line'[i].who = "orchestrator"
            PROVE  /\ i + 0 \in DOMAIN line /\ line[i + 0].who = "orchestrator"
                   /\ line'[i].request \in {<<>>, line[i + 0].request}
        <5>1. i \in DOMAIN line /\ i # 1
          BY <2>3, <2>4, <3>1, <4>1, Zenon
        <5>2. i + 0 = i
          BY <2>2, <5>1
        <5>3. line'[i] = line[i]
          BY <2>3, <5>1, Zenon
        <5> QED BY <4>1, <5>1, <5>2, <5>3
      <4>2. Thins
        BY <4>1 DEF Thins
      <4>3. reply'["orchestrator"] = reply["orchestrator"]
        BY <2>1, <2>5, <3>1, Roles DEF ConnTypes
      <4> QED BY <2>5, <4>2, <4>3, Thinned DEF ConnInv
    <3>2. CASE c = "orchestrator"
      <4>1. \A i \in DOMAIN line' : line'[i].who = "orchestrator" => i = 1
        BY <1>1, <2>3, <3>2 DEF ConnInv, OneExchange
      <4>2. "orchestrator" \in awaiting /\ pc["orchestrator"] \notin Far
        BY <1>1, <3>2 DEF ConnInv, OneExchange
      <4> QED BY <2>4, <4>1, <4>2 DEF OneExchange
    <3> QED BY <3>1, <3>2
  <2> QED BY <1>1, <2>5, <2>6 DEF ConnInv, OneCoordinator, SaveIsFirst
<1> QED BY <1>2, <1>3

\* A request other than a save finds no save under way.
LEMMA NotSaving ==
  ASSUME ConnInv, NEW types, Requested(types), "PERSIST_REQ" \notin types
  PROVE  pending_write = <<>>
BY HeadRequest DEF ConnInv, SaveIsFirst

\* The steps of the serve loop that answer a request.
LEMMA ConnReplies ==
  ASSUME ConnInv, UNCHANGED <<pc, awaiting>>,
         handle_accepts \/ handle_rejects \/ handle_hello \/ handle_query
  PROVE  ConnInv'
<1>1. PICK types \in {Mutations, {"HELLO_REQ"}, {"QUERY_REQ"}} : Requested(types)
  BY Zenon DEF handle_accepts, handle_rejects, handle_hello, handle_query
<1>2. "PERSIST_REQ" \notin types
  BY <1>1 DEF Mutations
<1>3. pending_write = <<>>
  BY <1>1, <1>2, NotSaving
<1>4. UNCHANGED <<coordinator, pending_write>>
  BY DEF handle_accepts, handle_rejects, handle_hello, handle_query, coordVars, fileVars
<1>5. PICK frame : Answer(frame)
  BY Zenon DEF handle_accepts, handle_rejects, handle_hello, handle_query
<1> QED BY <1>1, <1>3, <1>4, <1>5, ConnAnswer

LEMMA ConnSaves ==
  ASSUME ConnInv, UNCHANGED <<pc, awaiting>>, handle_persist \/ save_file_succeeds \/ save_file_fails
  PROVE  ConnInv'
<1>1. Requested({"PERSIST_REQ"})
  BY DEF handle_persist, save_file_succeeds, save_file_fails
<1>2. CASE handle_persist
  <2>1. UNCHANGED <<coordinator, line, reply>>
    BY <1>2 DEF handle_persist, serverVars
  <2>2. line # <<>> /\ line[1].request # <<>> /\ line[1].request[1].type = "PERSIST_REQ"
    BY <1>1, HeadRequest DEF ConnInv
  <2>3. SaveIsFirst'
    BY <2>1, <2>2 DEF SaveIsFirst
  <2>4. ConnTypes' /\ OneExchange' /\ OneCoordinator'
    BY <2>1 DEF ConnInv, ConnTypes, OneExchange, OneCoordinator
  <2> QED BY <2>3, <2>4 DEF ConnInv
<1>3. CASE save_file_succeeds \/ save_file_fails
  <2>1. pending_write' = <<>> /\ UNCHANGED coordinator
    BY <1>3 DEF save_file_succeeds, save_file_fails, persist_writes, persist_fails
  <2>2. PICK frame : Answer(frame)
    BY <1>3, Zenon DEF save_file_succeeds, save_file_fails
  <2> QED BY <1>1, <2>1, <2>2, ConnAnswer
<1> QED BY <1>2, <1>3

LEMMA ConnEnds ==
  ASSUME ConnInv, UNCHANGED <<pc, awaiting>>, handle_bye \/ serve_next_client
  PROVE  ConnInv'
<1>1. line' = Tail(line) /\ UNCHANGED <<coordinator, reply, pending_write>>
  BY DEF handle_bye, serve_next_client, coordVars, fileVars
<1>2. coordinator = "serving" /\ line # <<>> /\ pending_write = <<>>
  <2>1. CASE handle_bye
    BY <2>1, HeadRequest, NotSaving DEF handle_bye, ConnInv
  <2>2. CASE serve_next_client
    BY <2>2 DEF serve_next_client, Current, ConnInv, SaveIsFirst
  <2> QED BY <2>1, <2>2
<1> QED BY <1>1, <1>2, ConnTail

LEMMA ConnInit == AppInit => ConnInv
<1> SUFFICES ASSUME AppInit PROVE ConnInv
  OBVIOUS
<1>1. /\ coordinator = "down" /\ line = <<>> /\ reply = [p \in Client |-> <<>>] /\ pending_write = <<>>
      /\ pc = [p \in Client |-> IF p = "orchestrator" THEN 1 ELSE 0]
  BY DEF AppInit, SessionInit, CoordInit
<1>2. "orchestrator" \in Client
  BY Roles
<1>3. ConnTypes
  BY <1>1, <1>2 DEF ConnTypes
<1>4. OneExchange
  BY <1>1, <1>2 DEF OneExchange
<1> QED BY <1>1, <1>3, <1>4 DEF ConnInv, OneCoordinator, SaveIsFirst

LEMMA ConnStep == ConnInv /\ [AppNext]_appVars => ConnInv'
<1> SUFFICES ASSUME ConnInv, [AppNext]_appVars PROVE ConnInv'
  OBVIOUS
<1>1. ASSUME NEW p \in Client, ClientStep(p) PROVE ConnInv'
  BY <1>1, ConnOpens, ConnWrites, ConnReads, ConnCloses, ConnFiles, ConnChecks, ConnSpawns, ConnDeaths,
     ConnStopped, Zenon DEF ClientStep
<1>2. CASE CoordinatorStep
  <2>1. CASE coordinator_announces
    BY <2>1, ConnLife DEF coordinator_announces
  <2>2. CASE coordinator_listens /\ UNCHANGED <<pc, awaiting>>
    BY <2>2, ConnLife
  <2>3. CASE Serve /\ UNCHANGED <<pc, awaiting>>
    BY <2>3, ConnReplies, ConnSaves, ConnEnds DEF Serve
  <2> QED BY <1>2, <2>1, <2>2, <2>3 DEF CoordinatorStep
<1>3. CASE Loading
  BY <1>3, ConnLife DEF Loading
<1>4. CASE Fault
  <2>1. CASE \E w \in Client : worker_crashes(w)
    BY <2>1, ConnDeaths
  <2>2. CASE save_file_fails /\ UNCHANGED <<pc, awaiting>>
    BY <2>2, ConnSaves
  <2>3. CASE coordinator_cannot_listen /\ UNCHANGED <<pc, awaiting>>
    BY <2>3, ConnLife
  <2>4. CASE coordinator_crashes /\ UNCHANGED <<pc, awaiting>>
    BY <2>4, ConnStopped
  <2> QED BY <1>4, <2>1, <2>2, <2>3, <2>4 DEF Fault
<1>5. CASE UNCHANGED appVars
  BY <1>5 DEF appVars, serverVars, coordVars, fileVars, ConnInv, ConnTypes, OneExchange, OneCoordinator,
     SaveIsFirst
<1> QED BY <1>1, <1>2, <1>3, <1>4, <1>5 DEF AppNext, ProcessStep

LEMMA ConnInvariant == AppSpec => []ConnInv
BY ConnInit, ConnStep, PTL DEF AppSpec

-----------------------------------------------------------------------------
(* The coordinator of the application is the one of the module Coordinator *)

\* A request that is applied is a request of the module Coordinator.
LEMMA AcceptsIsRequest ==
  ASSUME ConnInv, handle_accepts
  PROVE  CoordNext
<1> DEFINE r == line[1].request[1]
<1>1. r \in Sendable /\ r.type \in Mutations /\ Operation(r)
  BY HeadRequest DEF ConnInv, handle_accepts, Current
<1>2. pending_write = <<>> /\ UNCHANGED fileVars
  BY NotSaving DEF handle_accepts, Mutations
<1>3. WellFormed(r)
  BY <1>1, SendableFacts
<1> HIDE DEF r
<1>4. CASE r.type = "REGISTER_REQ"
  <2>1. r.who \in Authority
    BY <1>3, <1>4 DEF WellFormed
  <2>2. register_source(r.who) /\ UNCHANGED restored
    BY <1>1, <1>4 DEF Operation
  <2> QED BY <1>2, <2>1, <2>2, Zenon DEF CoordNext, handle_request, DeclareRequests
<1>5. CASE r.type = "PUBLISH_NODE_REQ"
  <2>1. r.who \in Authority /\ r.decl \in NodeDecls /\ ~r.decl.static
    BY <1>3, <1>5 DEF WellFormed
  <2>2. declare_node(r.decl, r.who) /\ UNCHANGED restored
    BY <1>1, <1>5 DEF Operation
  <2> QED BY <1>2, <2>1, <2>2, Zenon DEF CoordNext, handle_request, DeclareRequests
<1>6. CASE r.type = "PUBLISH_GEN_REQ"
  <2>1. r.who \in Authority /\ r.node \in Node /\ r.gen \in Generation
    BY <1>3, <1>6 DEF WellFormed
  <2>2. publish_generation(r.node, r.gen, r.who) /\ restored' = restored \ {r.node}
    BY <1>1, <1>6 DEF Operation
  <2> QED BY <1>2, <2>1, <2>2, Zenon DEF CoordNext, handle_publish
<1>7. CASE r.type = "PUBLISH_READINESS_REQ"
  <2>1. r.who \in Authority /\ r.node \in Node
    BY <1>3, <1>7 DEF WellFormed
  <2>2. publish_readiness(r.node, "READY", r.who) /\ restored' = restored \ {r.node}
    BY <1>1, <1>7 DEF Operation
  <2> QED BY <1>2, <2>1, <2>2, Zenon DEF CoordNext, handle_publish
<1>8. CASE r.type = "ADD_EDGE_REQ"
  <2>1. r.who \in Authority /\ r.edge \in EdgeCatalog
    BY <1>3, <1>8 DEF WellFormed
  <2>2. add_edge(r.edge, r.who) /\ UNCHANGED restored
    BY <1>1, <1>8 DEF Operation
  <2> QED BY <1>2, <2>1, <2>2, Zenon DEF CoordNext, handle_request, ChangeRequests
<1>9. CASE r.type = "REMOVE_EDGE_REQ"
  <2>1. r.who \in Authority /\ r.edge_id \in EdgeId
    BY <1>3, <1>9 DEF WellFormed
  <2>2. remove_edge(r.edge_id, r.who) /\ UNCHANGED restored
    BY <1>1, <1>9 DEF Operation
  <2> QED BY <1>2, <2>1, <2>2, Zenon DEF CoordNext, handle_request, ChangeRequests
<1>10. CASE r.type = "ADVANCE_EPOCH"
  <2>1. r.epoch \in Epoch
    BY <1>3, <1>10 DEF WellFormed
  <2>2. advance_epoch(r.epoch) /\ UNCHANGED restored
    BY <1>1, <1>10 DEF Operation
  <2> QED BY <1>2, <2>1, <2>2, Zenon DEF CoordNext, handle_advance_epoch
<1> QED BY <1>1, <1>3, <1>4, <1>5, <1>6, <1>7, <1>8, <1>9, <1>10 DEF Mutations, WellFormed

LEMMA StopsIsStep ==
  ASSUME CoordinatorStops
  PROVE  [CoordNext]_coordVars
<1>1. pending_write' = <<>> /\ UNCHANGED <<vars, graph_file, restored>>
  BY DEF CoordinatorStops
<1>2. CASE pending_write = <<>>
  BY <1>1, <1>2 DEF coordVars, fileVars
<1>3. CASE pending_write # <<>>
  BY <1>1, <1>3 DEF CoordNext, persist_fails
<1> QED BY <1>2, <1>3

\* Clients talk to the coordinator and never touch its graph.
LEMMA ClientsOnlyAsk ==
  ASSUME NEW p \in Client, ClientStep(p)
  PROVE  UNCHANGED coordVars \/ CoordinatorStops
<1>1. opens(p) \/ open_fails(p) \/ rpc_writes(p) \/ rpc_reads(p) \/ rpc_fails(p) => UNCHANGED coordVars
  BY DEF opens, open_fails, rpc_writes, rpc_reads, rpc_fails, connect, connect_refused, exchange_writes,
     exchange_reads, exchange_fails
<1>2. /\ closes(p) \/ spawns(p) \/ concludes(p) => UNCHANGED coordVars
      /\ creates_file(p) \/ fills_file(p) \/ removes_file(p) => UNCHANGED coordVars
  BY DEF closes, close, Abandon, spawns, concludes, creates_file, fills_file, removes_file
<1>3. /\ wait_finds_file(p) \/ wait_times_out(p) => UNCHANGED coordVars
      /\ checks_exists(p) \/ checks_file(p) \/ checks_variable(p) => UNCHANGED coordVars
  BY DEF wait_finds_file, wait_times_out, checks_exists, checks_file, checks_variable
<1>4. kills_worker(p) => UNCHANGED coordVars
  BY DEF kills_worker, Dies, Abandon
<1>5. kills_coordinator(p) => CoordinatorStops
  BY DEF kills_coordinator
<1> QED BY <1>1, <1>2, <1>3, <1>4, <1>5, Zenon DEF ClientStep

LEMMA AppIsCoord == ConnInv /\ [AppNext]_appVars => [CoordNext]_coordVars
<1> SUFFICES ASSUME ConnInv, [AppNext]_appVars PROVE [CoordNext]_coordVars
  OBVIOUS
<1>1. ASSUME NEW p \in Client, ClientStep(p) PROVE [CoordNext]_coordVars
  BY <1>1, ClientsOnlyAsk, StopsIsStep
<1>2. CASE Serve
  <2>1. CASE handle_accepts
    BY <2>1, AcceptsIsRequest
  <2>2. CASE handle_rejects \/ handle_hello \/ handle_query \/ handle_bye \/ serve_next_client
    BY <2>2 DEF handle_rejects, handle_hello, handle_query, handle_bye, serve_next_client
  <2>3. CASE handle_persist \/ save_file_succeeds
    BY <2>3 DEF handle_persist, save_file_succeeds, CoordNext
  <2> QED BY <1>2, <2>1, <2>2, <2>3 DEF Serve
<1>3. CASE CoordinatorStep
  BY <1>2, <1>3 DEF CoordinatorStep, coordinator_announces, coordinator_listens
<1>4. CASE Loading
  BY <1>4 DEF Loading, coordinator_loads, CoordNext
<1>5. CASE Fault
  <2>1. ASSUME NEW w \in Client, worker_crashes(w) PROVE [CoordNext]_coordVars
    BY <2>1 DEF worker_crashes, Dies, Abandon
  <2>2. CASE save_file_fails
    BY <2>2 DEF save_file_fails, CoordNext
  <2>3. CASE coordinator_cannot_listen
    BY <2>3 DEF coordinator_cannot_listen
  <2>4. CASE coordinator_crashes
    BY <2>4, StopsIsStep DEF coordinator_crashes
  <2> QED BY <1>5, <2>1, <2>2, <2>3, <2>4 DEF Fault
<1>6. CASE UNCHANGED appVars
  BY <1>6 DEF appVars
<1> QED BY <1>1, <1>3, <1>4, <1>5, <1>6 DEF AppNext, ProcessStep

(***************************************************************************)
(* Whatever the six client processes do, and wherever one of them or the   *)
(* coordinator dies, what happens to the coordinator's graph and file is a *)
(* behaviour of the module Coordinator: one request is applied at a time,  *)
(* none while a save is under way, a death leaves the file truncated or    *)
(* whole, and a restart serves what the file holds.  What CoordinatorProofs *)
(* proves of CoordSpec therefore holds in the multiprocess proof.          *)
(***************************************************************************)
THEOREM AppDrivesCoordinator == AppSpec => CoordSpec
<1>1. AppInit => CoordInit
  BY DEF AppInit, SessionInit
<1> QED BY <1>1, ConnInvariant, AppIsCoord, PTL DEF AppSpec, CoordSpec
=============================================================================
