------------------------------ MODULE ProofApp ------------------------------
(***************************************************************************)
(* The multiprocess proof (tools/df_app_main.cpp): an orchestrator starts  *)
(* a coordinator, workers and a consumer as processes, watches the marker  *)
(* files they write, kills worker A and later the coordinator, and records *)
(* a verdict.                                                              *)
(*                                                                         *)
(* Every role but the coordinator's is a script: a sequence of steps that  *)
(* its process takes one after the other.  Opening a marker file creates   *)
(* it empty and the content follows in a step of its own, so a watcher can *)
(* find the file before it has a content.  The content of a flag is never  *)
(* read and left out.                                                      *)
(***************************************************************************)
EXTENDS Session

VARIABLES
  pc,        \* client -> position in its script; 0 before it is started
  awaiting,  \* clients that wrote a request and wait for the reply
  local,     \* client -> the values of the variables its script reads
  marker,    \* marker file -> "absent", "empty" or its content
  verdict    \* what the orchestrator wrote to proof_result.txt

appVars == <<coordVars, serverVars, pc, awaiting, local, marker, verdict>>

Marker == {"coord.ready", "a_published", "b_published", "consumer_result",
           "replay_outcome", "a2_published"}

-----------------------------------------------------------------------------
(* Script steps *)

Open(failure) == [do |-> "open", failure |-> failure]
Close == [do |-> "close"]

\* rpc keeps the frame in `resp`, where the parser of the reply finds it, also
\* when the exchange failed and the frame is an older one.  rpc_outcome keeps
\* the outcome in `o` and leaves `o` alone when the exchange fails.  A reply
\* that no later step looks at is ignored.
Rpc(request, parsed, into) ==
  [do |-> "rpc", request |-> request, parsed |-> parsed, into |-> into]
Hello == Rpc([type |-> "HELLO_REQ"], "nothing", "resp")
Query(n, into) == Rpc([type |-> "QUERY_REQ", node |-> n], "QUERY_RESP", into)
Persist == Rpc([type |-> "PERSIST_REQ"], "PERSIST_RESP", "po")
RpcOutcome(request) == Rpc(request, "outcome", "o")
RpcIgnored(request) == Rpc(request, "ignored", "o")

\* BYE is answered by the end of the connection, so that the close that follows
\* it finds nothing to close.
ByeClose == RpcIgnored([type |-> "BYE"])

Register(who) == RpcIgnored([type |-> "REGISTER_REQ", who |-> who])
PublishNode(n, kind, who) ==
  RpcIgnored([type |-> "PUBLISH_NODE_REQ", who |-> who,
              decl |-> [id |-> n, kind |-> kind, static |-> FALSE]])
publish_gen_req(n, gen, who) ==
  [type |-> "PUBLISH_GEN_REQ", node |-> n, gen |-> gen, who |-> who]
PublishGen(n, gen, who) == RpcIgnored(publish_gen_req(n, gen, who))
PublishReadiness(n, who) ==
  RpcIgnored([type |-> "PUBLISH_READINESS_REQ", node |-> n, who |-> who])
RemoveEdge(id, who) == RpcIgnored([type |-> "REMOVE_EDGE_REQ", edge_id |-> id, who |-> who])
AdvanceEpoch(e) == RpcOutcome([type |-> "ADVANCE_EPOCH", epoch |-> e])

make_edge(id, producer, consumer, pinned) ==
  [id |-> id, kind |-> "REQUIRES_GENERATION", producer |-> producer, consumer |-> consumer,
   generation_kind |-> "EXACT", generations |-> {pinned}, required_readiness |-> "READY",
   needs |-> {}, is_required |-> TRUE, active |-> TRUE]
AddEdge(e, who) == RpcIgnored([type |-> "ADD_EDGE_REQ", edge |-> e, who |-> who])

\* write_file: the file exists, then it has its content.  Nobody reads the
\* content of a flag.
WriteFlag(file) == << [do |-> "create", file |-> file] >>
WriteFile(file, content) ==
  WriteFlag(file) \o << [do |-> "fill", file |-> file, content |-> content] >>

Spawn(process) == [do |-> "spawn", process |-> process, loads |-> FALSE]
SpawnLoading(process) == [Spawn(process) EXCEPT !.loads = TRUE]
Kill(process) == [do |-> "kill", process |-> process]
Remove(file) == [do |-> "remove", file |-> file]
WaitFor(file) == [do |-> "wait", file |-> file]
CheckExists(file, failure) == [do |-> "exists", file |-> file, failure |-> failure]
CheckFile(file, good, failure) ==
  [do |-> "read", file |-> file, good |-> good, failure |-> failure]
Check(variable, good, failure) ==
  [do |-> "check", variable |-> variable, good |-> good, failure |-> failure]
Conclude(v) == [do |-> "conclude", verdict |-> v]

-----------------------------------------------------------------------------
(* The roles *)

As(source, boot, epoch) == [source |-> source, boot |-> boot, epoch |-> epoch]
A1 == As("SRC_A", 1, 1)
A2 == As("SRC_A", 2, 2)
B1 == As("SRC_B", 1, 1)
C1 == As("SRC_C", 1, 1)
Orch == As("SRC_ORCH", 1, 2)

edge_1 == make_edge(1, 1, 2, 1)
edge_2 == make_edge(2, 2, 3, 1)
edge_5 == make_edge(5, 1, 2, 2)
edge_6 == make_edge(6, 2, 3, 2)

\* Worker A stays alive after its last step until it is killed.
run_worker_a ==
  <<Open("exit"), Hello, Register(A1), PublishNode(1, "MODEL", A1), PublishGen(1, 1, A1), ByeClose>>
  \o WriteFlag("a_published")

run_worker_b ==
  <<Open("exit"), Hello, Register(B1), PublishNode(2, "ARTIFACT", B1), PublishGen(2, 1, B1),
    AddEdge(edge_1, B1), ByeClose>>
  \o WriteFlag("b_published")

run_consumer ==
  <<Open("exit"), Hello, Register(C1), PublishNode(3, "WORKLOAD_PHASE", C1), AddEdge(edge_2, C1),
    Query(3, "st")>>
  \o WriteFile("consumer_result", "st") \o <<ByeClose>>

run_worker_a2 ==
  <<Open("exit"), Hello, Register(A2), PublishGen(1, 2, A2),
    RpcIgnored([type |-> "QUERY_REQ", node |-> 1]), ByeClose>>
  \o WriteFlag("a2_published")

\* A message of the first incarnation, sent again.
StaleGeneration == 999
run_replay ==
  <<Open("exit"), Hello, RpcOutcome(publish_gen_req(1, StaleGeneration, A1))>>
  \o WriteFile("replay_outcome", "o") \o <<ByeClose>>

run_orchestrator ==
  <<Spawn("coordinator"), WaitFor("coord.ready"), CheckExists("coord.ready", "COORD_NOT_READY"),
    Spawn("worker_a"), WaitFor("a_published"),
    Spawn("worker_b"), WaitFor("b_published"),
    Spawn("consumer"), WaitFor("consumer_result"),
    CheckFile("consumer_result", {"READY"}, "STEP4_CONSUMER_NOT_READY"),
    Kill("worker_a"),
    Open("CLIENT_OPEN_FAIL"), Hello, AdvanceEpoch(2), Check("o", {"ACCEPTED"}, "ADVANCE_EPOCH_FAIL"),
    Close,
    Remove("replay_outcome"), Spawn("replay"), WaitFor("replay_outcome"),
    CheckFile("replay_outcome", {"REJECT_STALE_EPOCH", "REJECT_STALE_BOOT"},
              "STEP7_STALE_NOT_REJECTED"),
    Spawn("worker_a2"), WaitFor("a2_published"),
    Open("no result"), Hello, Query(2, "st"), Query(3, "st3"), Query(1, "mst"),
    Check("st", {"STALE"}, "STEP9_FAIL"), Check("st3", {"BLOCKED"}, "STEP9_FAIL"),
    Register(Orch), RemoveEdge(1, Orch), AddEdge(edge_5, Orch), PublishGen(2, 2, Orch),
    RemoveEdge(2, Orch), AddEdge(edge_6, Orch),
    Query(3, "stc"), Check("stc", {"READY"}, "STEP10_NOT_READY"),
    Persist, Check("po", {"ACCEPTED"}, "STEP11_PERSIST_FAIL"), Close,
    Kill("coordinator"), Remove("coord.ready"), SpawnLoading("coordinator"), WaitFor("coord.ready"),
    CheckExists("coord.ready", "STEP12_RESTART_NOT_READY"),
    Open("STEP13_OPEN_FAIL"), Hello, Query(3, "r2"),
    Check("r2", {"REVALIDATION_REQUIRED"}, "STEP13_NOT_CONSERVATIVE"),
    Register(Orch), PublishReadiness(1, Orch), PublishReadiness(2, Orch), PublishReadiness(3, Orch),
    Query(3, "stv"), Check("stv", {"READY"}, "STEP14_NOT_READY"), Close,
    Kill("coordinator"), Conclude("PASS")>>

Script ==
  [worker_a |-> run_worker_a, worker_b |-> run_worker_b, consumer |-> run_consumer,
   worker_a2 |-> run_worker_a2, replay |-> run_replay, orchestrator |-> run_orchestrator]

\* The constants of a run contain what the roles use.
ASSUME ClientAssumption ==
  Client = {"worker_a", "worker_b", "consumer", "worker_a2", "replay", "orchestrator"}
ASSUME ScriptAssumption ==
  /\ {1, 2, 3} \subseteq Node /\ {1, 2, StaleGeneration} \subseteq Generation
  /\ {A1, A2, B1, C1, Orch} \subseteq Authority /\ 2 \in Epoch
  /\ {[id |-> 1, kind |-> "MODEL", static |-> FALSE],
      [id |-> 2, kind |-> "ARTIFACT", static |-> FALSE],
      [id |-> 3, kind |-> "WORKLOAD_PHASE", static |-> FALSE]} \subseteq NodeDecls
  /\ {edge_1, edge_2, edge_5, edge_6} \subseteq EdgeCatalog /\ {1, 2} \subseteq EdgeId

Variable == {"resp", "o", "st", "st3", "mst", "stc", "po", "r2", "stv"}

Fresh == [v \in Variable |-> IF v = "resp" THEN Frame("ERROR", "") ELSE "uninitialised"]

AppInit ==
  /\ SessionInit
  /\ pc = [p \in Client |-> IF p = "orchestrator" THEN 1 ELSE 0]
  /\ awaiting = {}
  /\ local = [p \in Client |-> Fresh]
  /\ marker = [m \in Marker |-> "absent"]
  /\ verdict = "none"

-----------------------------------------------------------------------------
(* Taking a step *)

End(p) == Len(Script[p]) + 1
Running(p) == pc[p] \in DOMAIN Script[p]
Step(p) == Script[p][pc[p]]
At(p, what) == Running(p) /\ Step(p).do = what

Advance(p) == pc' = [pc EXCEPT ![p] = @ + 1]

\* The process ends, its variables with it; the orchestrator leaves a verdict.
Quits(p, result) ==
  /\ pc' = [pc EXCEPT ![p] = End(p)]
  /\ local' = [local EXCEPT ![p] = Fresh]
  /\ verdict' = IF p = "orchestrator" THEN result ELSE verdict

opens(p) ==
  /\ At(p, "open")
  /\ connect(p)
  /\ Advance(p)
  /\ UNCHANGED <<awaiting, local, marker, verdict>>

open_fails(p) ==
  /\ At(p, "open")
  /\ connect_refused(p)
  /\ Quits(p, Step(p).failure)
  /\ UNCHANGED <<awaiting, marker>>

rpc_writes(p) ==
  /\ At(p, "rpc")
  /\ p \notin awaiting
  /\ exchange_writes(p, Step(p).request)
  /\ awaiting' = awaiting \cup {p}
  /\ UNCHANGED <<pc, local, marker, verdict>>

\* What the variables hold once `resp` holds a frame and it was parsed.
Parsed(p, resp) ==
  [local[p] EXCEPT !["resp"] = resp,
                   ![Step(p).into] = IF resp.type = Step(p).parsed THEN resp.content ELSE @]

rpc_reads(p) ==
  /\ At(p, "rpc")
  /\ p \in awaiting
  /\ exchange_reads(p)
  /\ LET frame == reply[p][1]
     IN local' = [local EXCEPT ![p] = CASE Step(p).parsed = "ignored" -> @
                                        [] Step(p).parsed = "outcome" -> [@ EXCEPT !["o"] = frame.content]
                                        [] OTHER -> Parsed(p, frame)]
  /\ awaiting' = awaiting \ {p}
  /\ Advance(p)
  /\ UNCHANGED <<marker, verdict>>

\* The script goes on with what its variables held before.
rpc_fails(p) ==
  /\ At(p, "rpc")
  /\ exchange_fails(p)
  /\ local' = [local EXCEPT ![p] = IF Step(p).parsed \in {"ignored", "outcome"} THEN @
                                   ELSE Parsed(p, local[p]["resp"])]
  /\ awaiting' = awaiting \ {p}
  /\ Advance(p)
  /\ UNCHANGED <<marker, verdict>>

closes(p) ==
  /\ At(p, "close")
  /\ close(p)
  /\ Advance(p)
  /\ UNCHANGED <<awaiting, local, marker, verdict>>

-----------------------------------------------------------------------------
(* Marker files *)

creates_file(p) ==
  /\ At(p, "create")
  /\ marker' = [marker EXCEPT ![Step(p).file] = "empty"]
  /\ Advance(p)
  /\ UNCHANGED <<coordVars, serverVars, awaiting, local, verdict>>

\* The consumer writes ERR when its query was not answered; the replay writes
\* whatever its outcome variable happens to hold.
Contents(p, content) ==
  IF content \notin Variable THEN {content}
  ELSE IF local[p][content] # "uninitialised" THEN {local[p][content]}
  ELSE IF content = "st" THEN {"ERR"} ELSE {"ACCEPTED", "REJECT_STALE_EPOCH"}

fills_file(p) ==
  /\ At(p, "fill")
  /\ \E text \in Contents(p, Step(p).content) :
       marker' = [marker EXCEPT ![Step(p).file] = text]
  /\ Advance(p)
  /\ UNCHANGED <<coordVars, serverVars, awaiting, local, verdict>>

removes_file(p) ==
  /\ At(p, "remove")
  /\ marker' = [marker EXCEPT ![Step(p).file] = "absent"]
  /\ Advance(p)
  /\ UNCHANGED <<coordVars, serverVars, awaiting, local, verdict>>

wait_finds_file(p) ==
  /\ At(p, "wait")
  /\ marker[Step(p).file] # "absent"
  /\ Advance(p)
  /\ UNCHANGED <<coordVars, serverVars, awaiting, local, marker, verdict>>

\* The process that writes the file is still on its way to it.
Coming(file) ==
  IF file = "coord.ready" THEN coordinator \in {"loading", "starting"}
  ELSE \E p \in Client : /\ Running(p)
                        /\ \E i \in pc[p]..Len(Script[p]) :
                             Script[p][i].do = "create" /\ Script[p][i].file = file

\* A time-out is logged and the script goes on.
wait_times_out(p) ==
  /\ At(p, "wait")
  /\ marker[Step(p).file] = "absent"
  /\ IF Coming(Step(p).file) THEN Strikes("slow") ELSE faults' = faults \cup {"timeout"}
  /\ Advance(p)
  /\ UNCHANGED <<coordVars, coordinator, line, reply, awaiting, local, marker, verdict>>

-----------------------------------------------------------------------------
(* Checks: go on, or leave with the verdict of the step. *)

Judge(p, good) ==
  IF good
  THEN Advance(p) /\ UNCHANGED <<line, reply, local, verdict>>
  ELSE /\ Quits(p, Step(p).failure)
       /\ line' = [i \in DOMAIN line |->
                     IF line[i].who = p THEN [line[i] EXCEPT !.who = HungUp] ELSE line[i]]
       /\ UNCHANGED reply

checks_exists(p) ==
  /\ At(p, "exists")
  /\ Judge(p, marker[Step(p).file] # "absent")
  /\ UNCHANGED <<coordVars, coordinator, faults, awaiting, marker>>

checks_file(p) ==
  /\ At(p, "read")
  /\ Judge(p, marker[Step(p).file] \in Step(p).good)
  /\ faults' = IF marker[Step(p).file] = "empty" THEN faults \cup {"empty"} ELSE faults
  /\ UNCHANGED <<coordVars, coordinator, awaiting, marker>>

\* Mutant: a value that never arrived is taken for a good one.
trusts_variable(p) ==
  /\ At(p, "check")
  /\ LET value == local[p][Step(p).variable]
     IN Judge(p, value = "uninitialised" \/ value \in Step(p).good)
  /\ UNCHANGED <<coordVars, coordinator, faults, awaiting, marker>>

\* An uninitialised variable holds anything.
checks_variable(p) ==
  /\ At(p, "check")
  /\ LET value == local[p][Step(p).variable]
     IN IF value = "uninitialised"
        THEN /\ Judge(p, TRUE) \/ Judge(p, FALSE)
             /\ faults' = faults \cup {"uninitialised"}
        ELSE Judge(p, value \in Step(p).good) /\ UNCHANGED faults
  /\ UNCHANGED <<coordVars, coordinator, awaiting, marker>>

concludes(p) ==
  /\ At(p, "conclude")
  /\ Quits(p, Step(p).verdict)
  /\ UNCHANGED <<coordVars, serverVars, awaiting, marker>>

-----------------------------------------------------------------------------
(* Processes *)

spawns(p) ==
  /\ At(p, "spawn")
  /\ IF Step(p).process = "coordinator"
     THEN /\ coordinator' = IF Step(p).loads THEN "loading" ELSE "starting"
          /\ Advance(p)
     ELSE /\ pc' = [pc EXCEPT ![p] = @ + 1, ![Step(p).process] = 1]
          /\ UNCHANGED coordinator
  /\ UNCHANGED <<coordVars, line, reply, faults, awaiting, local, marker, verdict>>

Dies(w) ==
  /\ \E keeps_request \in BOOLEAN : Abandon(w, keeps_request)
  /\ awaiting' = awaiting \ {w}
  /\ local' = [local EXCEPT ![w] = Fresh]
  /\ UNCHANGED <<marker, verdict>>

kills_worker(p) ==
  /\ At(p, "kill") /\ Step(p).process # "coordinator"
  /\ Dies(Step(p).process)
  /\ pc' = [pc EXCEPT ![p] = @ + 1, ![Step(p).process] = End(Step(p).process)]
  /\ UNCHANGED faults

\* Any other process can die by itself.
worker_crashes(w) ==
  /\ w # "orchestrator" /\ Running(w)
  /\ Dies(w)
  /\ pc' = [pc EXCEPT ![w] = End(w)]
  /\ Strikes("worker")

kills_coordinator(p) ==
  /\ At(p, "kill") /\ Step(p).process = "coordinator"
  /\ CoordinatorStops
  /\ Advance(p)
  /\ UNCHANGED <<faults, awaiting, local, marker, verdict>>

\* run_coordinator writes its marker before serve listens.
coordinator_announces ==
  /\ coordinator = "starting"
  /\ coordinator' = "binding"
  /\ marker' = [marker EXCEPT !["coord.ready"] = "empty"]
  /\ UNCHANGED <<coordVars, line, reply, faults, pc, awaiting, local, verdict>>

ClientStep(p) ==
  \/ opens(p) \/ open_fails(p)
  \/ rpc_writes(p) \/ rpc_reads(p) \/ rpc_fails(p)
  \/ closes(p)
  \/ creates_file(p) \/ fills_file(p) \/ removes_file(p)
  \/ wait_finds_file(p) \/ wait_times_out(p)
  \/ checks_exists(p) \/ checks_file(p) \/ checks_variable(p)
  \/ concludes(p)
  \/ spawns(p) \/ kills_worker(p) \/ kills_coordinator(p)

CoordinatorStep ==
  \/ coordinator_announces
  \/ /\ Serve \/ coordinator_listens
     /\ UNCHANGED <<pc, awaiting, local, marker, verdict>>

Loading == coordinator_loads /\ UNCHANGED <<pc, awaiting, local, marker, verdict>>

Fault ==
  \/ \E w \in Client : worker_crashes(w)
  \/ /\ save_file_fails \/ coordinator_cannot_listen \/ coordinator_crashes
     /\ UNCHANGED <<pc, awaiting, local, marker, verdict>>

ProcessStep == (\E p \in Client : ClientStep(p)) \/ CoordinatorStep

AppNext == ProcessStep \/ Loading \/ Fault

load_file_returns == coordinator = "loading" /\ coordinator' = "starting"

(***************************************************************************)
(* Some process that can take a step takes one, and load_file returns with *)
(* whatever result.  That is less than every process being scheduled, and  *)
(* enough.  A wait can always go on, because its polls are counted; an     *)
(* exchange has no time-out and waits for the coordinator.  Faults never   *)
(* have to happen.                                                         *)
(***************************************************************************)
AppSpec ==
  /\ AppInit
  /\ [][AppNext]_appVars
  /\ WF_appVars(ProcessStep)
  /\ WF_coordinator(load_file_returns)
-----------------------------------------------------------------------------
(* Properties that hold *)

(***************************************************************************)
(* The multiprocess proof comes to an end: whatever is refused, times out, *)
(* is killed, crashes or fails to be written, every process that was       *)
(* started finishes its script, none waits for ever behind another client  *)
(* in the single-threaded serve loop or for a reply that was lost, and the *)
(* orchestrator's exit leaves nobody behind but an idle coordinator.       *)
(***************************************************************************)
EveryProcessFinishes == <>[](\A p \in Client : ~Running(p))

(***************************************************************************)
(* PASS means what README.md says of it: the coordinator ended in epoch 2  *)
(* with the model and the artifact at generation 2, the rebound edges, and *)
(* every node READY and published again after the restart.  The exception  *)
(* is a run that tested a variable its failed exchange left uninitialised. *)
(***************************************************************************)
PassIsEarned ==
  verdict = "PASS" /\ "uninitialised" \notin faults =>
    /\ epoch_ = 2
    /\ DOMAIN nodes_ = {1, 2, 3} /\ restored = {}
    /\ \A n \in {1, 2, 3} : state[n] = "READY"
    /\ \A n \in {1, 2} : nodes_[n].current_generation = 2
    /\ {id \in DOMAIN edges_ : edges_[id].active} = {5, 6}

\* What can make each step of the orchestrator fail.
Excuses ==
  [COORD_NOT_READY |-> {"crash", "slow"},
   STEP4_CONSUMER_NOT_READY |-> {"crash", "slow", "timeout", "empty"},
   CLIENT_OPEN_FAIL |-> {"crash"},
   ADVANCE_EPOCH_FAIL |-> {"crash"},
   STEP7_STALE_NOT_REJECTED |-> {"crash", "slow", "timeout", "empty"},
   STEP9_FAIL |-> {"crash", "slow", "timeout"},
   STEP10_NOT_READY |-> {"crash"},
   STEP11_PERSIST_FAIL |-> {"crash", "disk"},
   STEP12_RESTART_NOT_READY |-> {"crash", "slow"},
   STEP13_OPEN_FAIL |-> {"refused"},
   STEP13_NOT_CONSERVATIVE |-> {"crash", "disk"},
   STEP14_NOT_READY |-> {"crash"}]

(***************************************************************************)
(* A failed step has an outside cause, and only the causes listed: the     *)
(* graph's own answers never fail one.  Late workers of the first epoch,   *)
(* the order in which clients are served, a worker that dies and requests  *)
(* it leaves behind cannot turn a rejection into an acceptance, a recovery *)
(* into a block, or a restart into a ready node.                           *)
(***************************************************************************)
FailuresAreExcused ==
  verdict \in DOMAIN Excuses => faults \cap Excuses[verdict] # {}

(***************************************************************************)
(* The publication replayed from worker A's first incarnation is applied   *)
(* in no interleaving, neither to the served graph nor to the image that   *)
(* is saved and loaded, also when the replay is served late, after worker  *)
(* A's successor, or by the restarted coordinator.                         *)
(***************************************************************************)
StaleReplayNeverApplied ==
  \A nodes \in {nodes_} \cup {img.nodes : img \in Range(graph_file)} :
    \A n \in DOMAIN nodes : StaleGeneration \notin Range(nodes[n].generation_history)
=============================================================================
