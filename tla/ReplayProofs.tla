---------------------------- MODULE ReplayProofs ----------------------------
(***************************************************************************)
(* The publication replayed from worker A's first incarnation is not       *)
(* applied, for any number of faults.                                      *)
(*                                                                         *)
(* The replay is started when worker A is dead and the epoch was advanced, *)
(* or there was no coordinator to advance it.  From then on nothing that   *)
(* is served, saved or under way lets the first incarnation in again.      *)
(***************************************************************************)
EXTENDS AppProofs

\* The first incarnation of worker A is registered.
Admits(sources) == "SRC_A" \in DOMAIN sources /\ sources["SRC_A"].boot = 1

Waits(r) == \E i \in DOMAIN line : r \in Range(line[i].request)

\* The first incarnation is locked out, and no request under way admits it.
Fenced ==
  \/ coordinator \in {"down", "loading"}
  \/ epoch_ >= 2
  \/ ~Admits(sources_) /\ \A r : Waits(r) => ~Registers(r)

\* The order in which the orchestrator kills worker A and starts the replay.
InOrder ==
  /\ pc["orchestrator"] \in 1..18 => pc["replay"] = 0
  /\ pc["orchestrator"] \in 12..58 => pc["worker_a"] = 8
  /\ pc["orchestrator"] \in 19..58 => pc["replay"] # 0
  /\ pc["replay"] # 0 => pc["worker_a"] = 8

FencedInTime == pc["replay"] # 0 \/ pc["orchestrator"] \in 15..58 => Fenced

\* The replay and the save come after the fence.
LateRequests == \A r : Waits(r) /\ (Replays(r) \/ r.type = "PERSIST_REQ") => pc["replay"] # 0

\* While the orchestrator advances the epoch: it is connected unless the
\* coordinator is down, it has sent nothing else, and a reply means success.
Advancing ==
  pc["orchestrator"] \in {13, 14} =>
    /\ coordinator = "down" \/ Connected("orchestrator")
    /\ \A i \in DOMAIN line : line[i].who = "orchestrator" =>
         \A r \in Range(line[i].request) : SentBy("orchestrator", pc["orchestrator"], r)
    /\ pc["orchestrator"] = 14 /\ reply["orchestrator"] # <<>> => Fenced

Clean(nodes) == \A n \in DOMAIN nodes : StaleGeneration \notin Range(nodes[n].generation_history)

NothingStale ==
  /\ Clean(nodes_)
  /\ \A img \in Range(graph_file) : Clean(img.nodes) /\ (img.epoch >= 2 \/ ~Admits(img.sources))

ReplayInv == InOrder /\ FencedInTime /\ LateRequests /\ Advancing /\ NothingStale

(* Positions *)

LEMMA PcChange ==
  ASSUME ConnInv, [AppNext]_appVars
  PROVE  \/ pc' = pc
         \/ \E p \in Client : /\ Running(p) /\ Advance(p)
                              /\ p = "orchestrator" => pc[p] \notin {11, 18}
         \/ \E p \in Client : Running(p) /\ pc' = [pc EXCEPT ![p] = End(p)]
         \/ \E p \in Client : spawns(p)
         \/ \E p \in Client : kills_worker(p)
<1>1. ASSUME NEW p \in Client, Running(p), Step(p).do \notin {"kill", "spawn"}, p = "orchestrator"
      PROVE  pc[p] \notin {11, 18}
  BY <1>1, OrchestratorAt DEF OrchestratorStep
<1>2. ASSUME NEW p \in Client,
             \/ opens(p) \/ rpc_writes(p) \/ rpc_reads(p) \/ rpc_fails(p) \/ closes(p)
             \/ creates_file(p) \/ fills_file(p) \/ removes_file(p)
             \/ wait_finds_file(p) \/ wait_times_out(p)
      PROVE  pc' = pc \/ (Running(p) /\ Step(p).do \notin {"kill", "spawn"} /\ Advance(p))
  BY <1>2 DEF opens, rpc_writes, rpc_reads, rpc_fails, closes, creates_file, fills_file, removes_file,
     wait_finds_file, wait_times_out, At
<1>3. ASSUME NEW p \in Client,
             checks_exists(p) \/ checks_file(p) \/ checks_variable(p) \/ open_fails(p) \/ concludes(p)
      PROVE  /\ Running(p) /\ Step(p).do \notin {"kill", "spawn"}
             /\ Advance(p) \/ pc' = [pc EXCEPT ![p] = End(p)]
  <2>1. CASE checks_exists(p)
    BY <2>1 DEF checks_exists, At, Judge, Quits
  <2>2. CASE checks_file(p)
    BY <2>2 DEF checks_file, At, Judge, Quits
  <2>3. CASE checks_variable(p)
    BY <2>3 DEF checks_variable, At, Judge, Quits
  <2>4. CASE open_fails(p) \/ concludes(p)
    BY <2>4 DEF open_fails, concludes, At, Quits
  <2> QED BY <1>3, <2>1, <2>2, <2>3, <2>4
<1>4. ASSUME NEW p \in Client, kills_coordinator(p)
      PROVE  Running(p) /\ Advance(p) /\ (p = "orchestrator" => pc[p] \notin {11, 18})
  BY <1>4, StopsWhen DEF ConnInv
<1>5. ASSUME NEW p \in Client, worker_crashes(p) PROVE Running(p) /\ pc' = [pc EXCEPT ![p] = End(p)]
  BY <1>5 DEF worker_crashes
<1>6. CoordinatorStep \/ Loading \/ UNCHANGED appVars => pc' = pc
  BY DEF CoordinatorStep, coordinator_announces, Loading, appVars
<1>7. Fault => pc' = pc \/ \E w \in Client : worker_crashes(w)
  BY DEF Fault
<1>8. ASSUME NEW p \in Client, ClientStep(p)
      PROVE  \/ pc' = pc
             \/ Running(p) /\ Advance(p) /\ (p = "orchestrator" => pc[p] \notin {11, 18})
             \/ Running(p) /\ pc' = [pc EXCEPT ![p] = End(p)]
             \/ spawns(p) \/ kills_worker(p)
  BY <1>1, <1>2, <1>3, <1>4, <1>8, Zenon DEF ClientStep
<1> QED BY <1>5, <1>6, <1>7, <1>8, Zenon DEF AppNext, ProcessStep

LEMMA ReplayEnds == End("replay") = 7
<1>1. Len(run_replay) = 6
  BY SMT DEF run_replay, WriteFile, WriteFlag
<1>2. Len(Script["replay"]) = 6
  BY <1>1, ScriptOf, Zenon
<1> QED BY <1>2, SMT DEF End

LEMMA RunningWorkerA == Running("worker_a") => pc["worker_a"] \in 1..7
BY WorkerASteps, ScriptOf DEF Running

LEMMA OrderKept ==
  ASSUME ConnInv, InOrder, [AppNext]_appVars
  PROVE  InOrder' /\ (pc["replay"] # 0 => pc'["replay"] # 0)
<1>0. /\ "orchestrator" \in Client /\ "worker_a" \in Client /\ "replay" \in Client
      /\ "replay" \in Worker /\ ConnTypes
      /\ pc["orchestrator"] \in 1..59
  BY Roles DEF ConnInv, ConnTypes
<1>1. CASE pc' = pc
  BY <1>1 DEF InOrder
<1>2. ASSUME NEW p \in Client, Running(p), Advance(p), p = "orchestrator" => pc[p] \notin {11, 18}
      PROVE  InOrder' /\ (pc["replay"] # 0 => pc'["replay"] # 0)
  <2>1. pc'[p] = pc[p] + 1 /\ \A q \in Client \ {p} : pc'[q] = pc[q]
    BY <1>0, <1>2, Moves, Zenon
  <2>2. CASE p = "orchestrator"
    <3>1. /\ pc["orchestrator"] \in 1..58 /\ pc["orchestrator"] \notin {11, 18}
          /\ pc'["orchestrator"] = pc["orchestrator"] + 1
          /\ pc'["worker_a"] = pc["worker_a"] /\ pc'["replay"] = pc["replay"]
      BY <1>0, <1>2, <2>1, <2>2, OrchestratorAt
    <3> QED BY <3>1 DEF InOrder
  <2>3. CASE p = "worker_a"
    <3>1. /\ pc'["orchestrator"] = pc["orchestrator"] /\ pc'["replay"] = pc["replay"]
          /\ pc["worker_a"] # 8
      BY <1>0, <1>2, <2>1, <2>3, RunningWorkerA
    <3> QED BY <3>1 DEF InOrder
  <2>4. CASE p = "replay"
    <3>1. /\ pc'["orchestrator"] = pc["orchestrator"] /\ pc'["worker_a"] = pc["worker_a"]
          /\ pc["replay"] # 0 /\ pc'["replay"] # 0
      BY <1>0, <1>2, <2>1, <2>4, WorkerAt
    <3> QED BY <3>1 DEF InOrder
  <2>5. CASE p \notin {"orchestrator", "worker_a", "replay"}
    BY <1>0, <2>1, <2>5 DEF InOrder
  <2> QED BY <2>2, <2>3, <2>4, <2>5
<1>3. ASSUME NEW p \in Client, Running(p), pc' = [pc EXCEPT ![p] = End(p)]
      PROVE  InOrder' /\ (pc["replay"] # 0 => pc'["replay"] # 0)
  <2>1. /\ pc'[p] = End(p) /\ \A q \in Client \ {p} : pc'[q] = pc[q]
    BY <1>0, <1>3, Ends, Zenon
  <2>2. CASE p = "orchestrator"
    BY <1>0, <2>1, <2>2, ScriptEnds DEF InOrder
  <2>3. CASE p = "worker_a"
    BY <1>0, <2>1, <2>3, ScriptEnds DEF InOrder
  <2>4. CASE p = "replay"
    <3>1. pc["replay"] # 0 /\ pc'["replay"] # 0
      BY <1>0, <1>3, <2>1, <2>4, WorkerAt, ReplayEnds
    <3> QED BY <1>0, <2>1, <2>4, <3>1 DEF InOrder
  <2>5. CASE p \notin {"orchestrator", "worker_a", "replay"}
    BY <1>0, <2>1, <2>5 DEF InOrder
  <2> QED BY <2>2, <2>3, <2>4, <2>5
<1>4. ASSUME NEW p \in Client, spawns(p) PROVE InOrder' /\ (pc["replay"] # 0 => pc'["replay"] # 0)
  <2>1. /\ pc["orchestrator"] \in 1..58 /\ pc'["orchestrator"] = pc["orchestrator"] + 1
        /\ pc["orchestrator"] # 4 => pc'["worker_a"] = pc["worker_a"]
        /\ pc'["replay"] = IF pc["orchestrator"] = 18 THEN 1 ELSE pc["replay"]
        /\ p = "orchestrator"
    BY <1>0, <1>4, SpawnsWhat
  <2>2. pc["orchestrator"] # 11
    BY <1>4, <2>1, OrchestratorAt DEF spawns, At, OrchestratorStep
  <2> QED BY <2>1, <2>2 DEF InOrder
<1>5. ASSUME NEW p \in Client, kills_worker(p) PROVE InOrder' /\ (pc["replay"] # 0 => pc'["replay"] # 0)
  BY <1>0, <1>5, KillsWhom DEF InOrder
<1> QED BY <1>1, <1>2, <1>3, <1>4, <1>5, PcChange

(* Requests under way *)

\* A client leaves; the orchestrator goes on or ends when it does.
Leaves(p) ==
  Departs(p) /\ (p = "orchestrator" => pc'["orchestrator"] # pc["orchestrator"])

\* The serve loop goes on to the next connection.
Drops ==
  /\ line # <<>> /\ line' = Tail(line)
  /\ line[1].who = HungUp \/ (line[1].request # <<>> /\ line[1].request[1].type = "BYE")

LEMMA LineChange ==
  ASSUME ConnInv, [AppNext]_appVars
  PROVE  \/ line' = line
         \/ \E p \in Client : opens(p)
         \/ \E p \in Client : rpc_writes(p)
         \/ \E p \in Client : Leaves(p)
         \/ Drops
         \/ line # <<>> /\ line' = [line EXCEPT ![1].request = <<>>]
         \/ line' = <<>> /\ coordinator' = "down"
<1>0. ConnTypes
  BY DEF ConnInv
<1>1. ASSUME NEW p \in Client, Running(p), NEW good, Judge(p, good) PROVE line' = line \/ Leaves(p)
  <2>1. CASE good
    BY <1>1, <2>1 DEF Judge
  <2>2. CASE ~good
    <3>1. Departs(p) /\ pc' = [pc EXCEPT ![p] = End(p)]
      BY <1>0, <1>1, <2>2, HangUpDeparts DEF Judge, Quits
    <3>2. p = "orchestrator" => pc["orchestrator"] \in 1..58 /\ pc'["orchestrator"] = 59
      BY <1>0, <1>1, <3>1, Ends, OrchestratorAt
    <3> QED BY <3>1, <3>2 DEF Leaves
  <2> QED BY <2>1, <2>2
<1>2. ASSUME NEW p \in Client, checks_exists(p) \/ checks_file(p) \/ checks_variable(p)
      PROVE  line' = line \/ Leaves(p)
  <2>1. CASE checks_exists(p)
    BY <1>1, <2>1, Zenon DEF checks_exists, At
  <2>2. CASE checks_file(p)
    BY <1>1, <2>2, Zenon DEF checks_file, At
  <2>3. CASE checks_variable(p)
    BY <1>1, <2>3, Zenon DEF checks_variable, At
  <2> QED BY <1>2, <2>1, <2>2, <2>3
<1>3. ASSUME NEW p \in Client, closes(p) PROVE Leaves(p)
  <2>1. Departs(p) /\ Running(p) /\ Advance(p)
    BY <1>0, <1>3, AbandonDeparts DEF closes, close, At
  <2>2. p = "orchestrator" => /\ pc["orchestrator"] \in 1..58
                              /\ pc'["orchestrator"] = pc["orchestrator"] + 1
    BY <1>0, <2>1, Moves
  <2> QED BY <2>1, <2>2 DEF Leaves
<1>4. ASSUME NEW w \in Worker, Dies(w) PROVE Leaves(w)
  <2>1. w \in Client /\ w # "orchestrator"
    BY Roles
  <2> QED BY <1>0, <1>4, <2>1, AbandonDeparts DEF Dies, Leaves
<1>5. ASSUME NEW p \in Client, kills_worker(p) PROVE Leaves("worker_a")
  BY <1>0, <1>4, <1>5, KillsWhom, Roles
<1>6. ASSUME NEW w \in Client, worker_crashes(w) PROVE Leaves(w)
  BY <1>4, <1>6, Roles DEF worker_crashes
<1>7. ASSUME NEW p \in Client,
             \/ open_fails(p) \/ rpc_reads(p) \/ rpc_fails(p) \/ creates_file(p) \/ fills_file(p)
             \/ removes_file(p) \/ wait_finds_file(p) \/ wait_times_out(p) \/ concludes(p) \/ spawns(p)
      PROVE  line' = line
  BY <1>7 DEF open_fails, rpc_reads, rpc_fails, creates_file, fills_file, removes_file, wait_finds_file,
     wait_times_out, concludes, spawns, connect_refused, exchange_reads, exchange_fails, serverVars
<1>8. ASSUME NEW frame, Answer(frame), line # <<>>
      PROVE  Drops \/ line' = [line EXCEPT ![1].request = <<>>]
  BY <1>8 DEF Answer, Drops, Current
<1>9. CASE Serve \/ save_file_fails
  <2>1. CASE handle_persist
    BY <2>1 DEF handle_persist, serverVars
  <2>2. CASE handle_bye
    <3>1. line # <<>> /\ line[1].request # <<>> /\ line[1].request[1].type = "BYE"
      BY <1>0, <2>2, HeadRequest DEF handle_bye
    <3> QED BY <2>2, <3>1 DEF handle_bye, Drops
  <2>4. CASE serve_next_client
    BY <2>4 DEF serve_next_client, Drops, Current
  <2>3. CASE \/ handle_accepts \/ handle_rejects \/ handle_hello \/ handle_query
             \/ save_file_succeeds \/ save_file_fails
    <3>1. line # <<>>
      BY <2>3 DEF handle_accepts, handle_rejects, handle_hello, handle_query, save_file_succeeds,
         save_file_fails, Requested
    <3>2. PICK frame : Answer(frame)
      BY <2>3, Zenon DEF handle_accepts, handle_rejects, handle_hello, handle_query, save_file_succeeds,
         save_file_fails
    <3> QED BY <1>8, <3>1, <3>2
  <2> QED BY <1>9, <2>1, <2>2, <2>3, <2>4 DEF Serve
<1>10. (coordinator_announces \/ coordinator_listens \/ coordinator_cannot_listen \/ coordinator_loads
        \/ UNCHANGED appVars) => line' = line
  BY DEF coordinator_announces, coordinator_listens, coordinator_cannot_listen, coordinator_loads, appVars,
     serverVars
<1>11. CoordinatorStops => line' = <<>> /\ coordinator' = "down"
  BY DEF CoordinatorStops
<1>12. ASSUME NEW p \in Client, ClientStep(p)
       PROVE  \/ line' = line \/ opens(p) \/ rpc_writes(p) \/ (\E q \in Client : Leaves(q))
              \/ (line' = <<>> /\ coordinator' = "down")
  <2>1. CASE kills_worker(p)
    BY <1>5, <2>1, Roles
  <2>2. CASE kills_coordinator(p)
    BY <1>11, <2>2 DEF kills_coordinator
  <2> QED BY <1>2, <1>3, <1>7, <1>12, <2>1, <2>2, Zenon DEF ClientStep
<1>13. CASE CoordinatorStep
  BY <1>9, <1>10, <1>13 DEF CoordinatorStep
<1>14. CASE Loading
  BY <1>10, <1>14 DEF Loading
<1>15. CASE Fault
  BY <1>6, <1>9, <1>10, <1>11, <1>15 DEF Fault, coordinator_crashes
<1> QED BY <1>10, <1>12, <1>13, <1>14, <1>15 DEF AppNext, ProcessStep

\* A request under way was under way, or a client just wrote it.
LEMMA NewRequests ==
  ASSUME ConnInv, [AppNext]_appVars, NEW i \in DOMAIN line', NEW r \in Range(line'[i].request)
  PROVE  \/ Waits(r)
         \/ \E p \in Client : rpc_writes(p) /\ r = Step(p).request
<1>0. line \in Seq(Entry) /\ \A j \in DOMAIN line : line[j] \in Entry
  BY DEF ConnInv, ConnTypes
<1>1. Range(<<>>) = {}
  BY DEF Range
<1>2. ASSUME NEW j \in DOMAIN line, line'[i].request \in {<<>>, line[j].request} PROVE Waits(r)
  BY <1>1, <1>2 DEF Waits
<1>3. CASE line' = line
  BY <1>3 DEF Waits
<1>4. ASSUME NEW p \in Client, opens(p) PROVE Waits(r)
  <2>1. line' = Append(line, [who |-> p, request |-> <<>>]) /\ [who |-> p, request |-> <<>>] \in Entry
    BY <1>4, Entries, Zenon DEF opens, connect
  <2>2. CASE i = Len(line) + 1
    <3>1. line'[i] = [who |-> p, request |-> <<>>]
      BY <1>0, <2>1, <2>2, Joined, Zenon
    <3> QED BY <1>1, <3>1
  <2>3. CASE i # Len(line) + 1
    <3>1. DOMAIN line' = 1..(Len(line) + 1) /\ \A j \in DOMAIN line : line'[j] = line[j]
      BY <1>0, <2>1, Joined, Zenon
    <3>2. i \in DOMAIN line
      BY <1>0, <2>3, <3>1
    <3> QED BY <3>1, <3>2 DEF Waits
  <2> QED BY <2>2, <2>3
<1>5. ASSUME NEW p \in Client, rpc_writes(p) PROVE Waits(r) \/ r = Step(p).request
  <2>1. line' = [j \in DOMAIN line |->
                   IF line[j].who = p THEN [line[j] EXCEPT !.request = <<Step(p).request>>] ELSE line[j]]
    BY <1>5 DEF rpc_writes, exchange_writes
  <2>2. i \in DOMAIN line
    BY <2>1
  <2>3. CASE line[i].who = p
    <3>1. line'[i] = [line[i] EXCEPT !.request = <<Step(p).request>>]
      BY <2>1, <2>2, <2>3
    <3>2. line[i] \in [who : Client \cup {HungUp}, request : {<<>>} \cup {<<q>> : q \in Sendable}]
      BY <1>0, <2>2 DEF Entry
    <3>3. line'[i].request = <<Step(p).request>>
      BY <3>1, <3>2
    <3>4. Range(<<Step(p).request>>) = {Step(p).request}
      BY DEF Range
    <3> QED BY <3>3, <3>4
  <2>4. CASE line[i].who # p
    BY <2>1, <2>2, <2>4 DEF Waits
  <2> QED BY <2>3, <2>4
<1>6. ASSUME NEW p \in Client, Leaves(p) PROVE Waits(r)
  <2>1. i \in DOMAIN line /\ line'[i].request \in {<<>>, line[i].request}
    BY <1>6 DEF Leaves, Departs
  <2> QED BY <1>2, <2>1
<1>7. CASE Drops
  <2>1. i + 1 \in DOMAIN line /\ line'[i] = line[i + 1]
    BY <1>0, <1>7, Shortened, Zenon DEF Drops
  <2> QED BY <1>2, <2>1
<1>8. CASE line # <<>> /\ line' = [line EXCEPT ![1].request = <<>>]
  <2>1. i \in DOMAIN line /\ 1 \in DOMAIN line
    BY <1>0, <1>8, Answering, Shortened, Zenon
  <2>2. CASE i = 1
    <3>1. line'[i] = [line[1] EXCEPT !.request = <<>>]
      BY <1>0, <1>8, <2>2, Answering, Zenon
    <3>2. line[1] \in [who : Client \cup {HungUp}, request : {<<>>} \cup {<<q>> : q \in Sendable}]
      BY <1>0, <2>1 DEF Entry
    <3>3. line'[i].request = <<>>
      BY <3>1, <3>2
    <3> QED BY <1>1, <3>3
  <2>3. CASE i # 1
    <3>1. line'[i] = line[i]
      BY <1>0, <1>8, <2>1, <2>3, Answering, Zenon
    <3> QED BY <2>1, <3>1 DEF Waits
  <2> QED BY <2>2, <2>3
<1>9. CASE line' = <<>>
  BY <1>9
<1> QED BY <1>3, <1>4, <1>5, <1>6, <1>7, <1>8, <1>9, LineChange

LEMMA RequestsKept ==
  ASSUME ConnInv, InOrder, LateRequests, [AppNext]_appVars
  PROVE  /\ LateRequests'
         /\ pc["worker_a"] = 8 /\ (\A r : Waits(r) => ~Registers(r)) => \A r : Waits(r)' => ~Registers(r)
<1>1. ASSUME NEW r, Waits(r)'
      PROVE  Waits(r) \/ \E p \in Client : rpc_writes(p) /\ r = Step(p).request
  <2>1. PICK i \in DOMAIN line' : r \in Range(line'[i].request)
    BY <1>1 DEF Waits
  <2> QED BY <2>1, NewRequests
<1>2. ASSUME NEW p \in Client, rpc_writes(p)
      PROVE  Running(p) /\ SentBy(p, pc[p], Step(p).request)
  <2>1. Running(p) /\ Step(p).do = "rpc"
    BY <1>2 DEF rpc_writes, At
  <2> QED BY <2>1, ScriptSends DEF Running, Step
<1>3. pc["replay"] # 0 => pc'["replay"] # 0
  BY OrderKept
<1>4. ASSUME NEW r, Waits(r)', Replays(r) \/ r.type = "PERSIST_REQ" PROVE pc'["replay"] # 0
  <2>1. CASE Waits(r)
    BY <1>3, <1>4, <2>1 DEF LateRequests
  <2>2. ASSUME NEW p \in Client, rpc_writes(p), r = Step(p).request PROVE pc'["replay"] # 0
    <3>1. Running(p) /\ SentBy(p, pc[p], r)
      BY <1>2, <2>2
    <3>2. CASE Replays(r)
      BY <1>3, <3>1, <3>2, WorkerAt, Roles DEF SentBy
    <3>3. CASE r.type = "PERSIST_REQ"
      BY <1>3, <3>1, <3>3 DEF SentBy, InOrder
    <3> QED BY <1>4, <3>2, <3>3
  <2> QED BY <1>1, <1>4, <2>1, <2>2
<1>5. ASSUME pc["worker_a"] = 8, \A r : Waits(r) => ~Registers(r), NEW r, Waits(r)'
      PROVE  ~Registers(r)
  <2>1. ASSUME NEW p \in Client, rpc_writes(p), r = Step(p).request PROVE ~Registers(r)
    <3>1. Running(p) /\ SentBy(p, pc[p], r)
      BY <1>2, <2>1
    <3> QED BY <1>5, <3>1, RunningWorkerA DEF SentBy
  <2> QED BY <1>1, <1>5, <2>1
<1> QED BY <1>4, <1>5 DEF LateRequests


(* What an applied request does *)

LEMMA CleanKept ==
  ASSUME ShapeOK, Clean(nodes_), LedgerMove,
         \A n \in Node : ~Records(n, StaleGeneration)
  PROVE  Clean(nodes_')
<1>0. nodes_ \in [DOMAIN nodes_ -> NodeFacts]
  BY DEF ShapeOK, StructOK
<1>1. \A m \in DOMAIN nodes_ : Kept(m) => StaleGeneration \notin Range(nodes_'[m].generation_history)
  BY DEF Clean, Kept
<1>2. CASE KeepsNodes
  BY <1>1, <1>2 DEF KeepsNodes, Clean
<1>3. ASSUME NEW n \in Node, Declares(n) PROVE Clean(nodes_')
  <2>1. Range(nodes_'[n].generation_history) = {}
    BY <1>3 DEF Declares, Range
  <2> QED BY <1>1, <1>3, <2>1 DEF Declares, Clean
<1>4. ASSUME NEW n \in Node, NEW gen \in Generation, Records(n, gen) PROVE Clean(nodes_')
  <2> DEFINE h == nodes_[n].generation_history
  <2>1. h \in Seq(Generation) /\ n \in DOMAIN nodes_ /\ gen # StaleGeneration
    BY <1>0, <1>4 DEF NodeFacts, Records
  <2>2. nodes_'[n].generation_history = Append(h, gen) /\ StaleGeneration \notin Range(h)
    BY <1>4, <2>1 DEF Records, Clean
  <2> HIDE DEF h
  <2>3. StaleGeneration \notin Range(Append(h, gen))
    BY <2>1, <2>2 DEF Range
  <2> QED BY <1>1, <1>4, <2>2, <2>3 DEF Records, Clean
<1> QED BY <1>2, <1>3, <1>4 DEF LedgerMove

\* What each kind of request does to the epoch and the registered sources.
LEMMA AuthorityMove ==
  ASSUME ShapeOK, NEW r, WellFormed(r), r.type \in Mutations, Operation(r)
  PROVE  \/ epoch_' = epoch_ /\ sources_' = sources_ /\ r.type # "ADVANCE_EPOCH"
         \/ r.type = "REGISTER_REQ" /\ register_source(r.who)
         \/ r.type = "ADVANCE_EPOCH" /\ advance_epoch(r.epoch)
<1>1. CASE r.type = "REGISTER_REQ"
  BY <1>1 DEF Operation
<1>2. CASE r.type = "PUBLISH_NODE_REQ"
  <2>1. declare_node(r.decl, r.who)
    BY <1>2 DEF Operation
  <2> QED BY <1>2, <2>1 DEF declare_node, authVars
<1>3. CASE r.type = "PUBLISH_GEN_REQ"
  <2>1. publish_generation(r.node, r.gen, r.who)
    BY <1>3 DEF Operation
  <2> QED BY <1>3, <2>1 DEF publish_generation, CommitNodes, authVars
<1>4. CASE r.type = "PUBLISH_READINESS_REQ"
  <2>1. publish_readiness(r.node, "READY", r.who) /\ r.node \in Node
    BY <1>4 DEF Operation, WellFormed
  <2> QED BY <1>4, <2>1, PublishReadyFacts DEF authVars
<1>5. CASE r.type = "ADD_EDGE_REQ"
  <2>1. add_edge(r.edge, r.who)
    BY <1>5 DEF Operation
  <2> QED BY <1>5, <2>1 DEF add_edge, CommitEdges, authVars
<1>6. CASE r.type = "REMOVE_EDGE_REQ"
  <2>1. remove_edge(r.edge_id, r.who)
    BY <1>6 DEF Operation
  <2> QED BY <1>6, <2>1 DEF remove_edge, CommitEdges, authVars
<1>7. CASE r.type = "ADVANCE_EPOCH"
  BY <1>7 DEF Operation
<1> QED BY <1>1, <1>2, <1>3, <1>4, <1>5, <1>6, <1>7 DEF Mutations, WellFormed

\* Only a replay records the stale generation.
LEMMA LedgerKeptClean ==
  ASSUME ShapeOK, NEW r, WellFormed(r), r.type \in Mutations, Operation(r), ~Replays(r), Clean(nodes_)
  PROVE  Clean(nodes_')
<1>1. CASE r.type = "REGISTER_REQ"
  <2>1. register_source(r.who)
    BY <1>1 DEF Operation
  <2> QED BY <2>1 DEF register_source
<1>2. CASE r.type = "PUBLISH_NODE_REQ"
  <2>1. declare_node(r.decl, r.who) /\ r.decl \in NodeDecls /\ r.who \in Authority
    BY <1>2 DEF Operation, WellFormed
  <2>2. Declares(r.decl.id)
    BY <2>1, DeclareMoves
  <2>3. r.decl.id \in Node /\ \A n \in Node : ~Records(n, StaleGeneration)
    BY <2>2 DEF Declares, Records
  <2> QED BY <2>2, <2>3, CleanKept DEF LedgerMove
<1>3. CASE r.type = "PUBLISH_GEN_REQ"
  <2>1. /\ publish_generation(r.node, r.gen, r.who)
        /\ r.node \in Node /\ r.gen \in Generation /\ r.who \in Authority
    BY <1>3 DEF Operation, WellFormed
  <2>2. Records(r.node, r.gen) /\ r.gen # StaleGeneration
    BY <1>3, <2>1, PublishRecords DEF Replays
  <2>3. ASSUME NEW n \in Node, Records(n, StaleGeneration) PROVE FALSE
    <3>1. nodes_'[r.node].current_generation = r.gen /\ nodes_'[n].current_generation = StaleGeneration
      BY <2>2, <2>3 DEF Records
    <3>2. n # r.node
      BY <2>2, <3>1
    <3>3. n \in DOMAIN nodes_ /\ Kept(n) /\ StaleGeneration > nodes_[n].current_generation
      BY <2>2, <2>3, <3>2 DEF Records
    <3>4. nodes_'[n].current_generation = nodes_[n].current_generation
      BY <3>3 DEF Kept
    <3> QED BY <3>1, <3>3, <3>4 DEF StaleGeneration
  <2> QED BY <2>1, <2>2, <2>3, CleanKept DEF LedgerMove
<1>4. CASE r.type = "PUBLISH_READINESS_REQ"
  <2>1. publish_readiness(r.node, "READY", r.who) /\ r.node \in Node
    BY <1>4 DEF Operation, WellFormed
  <2>2. KeepsNodes
    BY <2>1, PublishReadyFacts
  <2> QED BY <2>2 DEF KeepsNodes, Kept, Clean
<1>5. CASE r.type = "ADD_EDGE_REQ"
  <2>1. add_edge(r.edge, r.who)
    BY <1>5 DEF Operation
  <2> QED BY <2>1 DEF add_edge, CommitEdges
<1>6. CASE r.type = "REMOVE_EDGE_REQ"
  <2>1. remove_edge(r.edge_id, r.who)
    BY <1>6 DEF Operation
  <2> QED BY <2>1 DEF remove_edge, CommitEdges
<1>7. CASE r.type = "ADVANCE_EPOCH"
  <2>1. advance_epoch(r.epoch)
    BY <1>7 DEF Operation
  <2> QED BY <2>1 DEF advance_epoch
<1> QED BY <1>1, <1>2, <1>3, <1>4, <1>5, <1>6, <1>7 DEF Mutations, WellFormed

LEMMA AppliedRequest ==
  ASSUME ConnInv, CoordInv, handle_accepts, NEW r, r = line[1].request[1]
  PROVE  /\ Waits(r) /\ WellFormed(r) /\ (Replays(r) => r.who = A1) /\ Operation(r) /\ r.type \in Mutations
         /\ coordinator = "serving" /\ UNCHANGED <<coordinator, graph_file>>
         /\ epoch_ \in Nat /\ epoch_' \in Nat /\ epoch_' >= epoch_
         /\ r.type = "ADVANCE_EPOCH" => epoch_' = r.epoch
         /\ ~Admits(sources_) /\ ~Registers(r) => ~Admits(sources_')
<1>1. /\ r \in Sendable /\ r.type \in Mutations /\ Operation(r) /\ coordinator = "serving"
      /\ 1 \in DOMAIN line /\ line[1] \in Entry /\ line[1].request # <<>>
  BY HeadRequest DEF ConnInv, handle_accepts, Current
<1>2. Waits(r)
  BY <1>1, Asked DEF Waits
<1>3. WellFormed(r) /\ (Replays(r) => r.who = A1)
  BY <1>1, SendableFacts
<1>4. UNCHANGED <<coordinator, graph_file>>
  BY DEF handle_accepts, fileVars
<1>5. ShapeOK /\ epoch_ \in Nat
  BY AuthorityAssumption DEF CoordInv, Served, ShapeOK, StructOK
<1>6. CASE epoch_' = epoch_ /\ sources_' = sources_ /\ r.type # "ADVANCE_EPOCH"
  BY <1>1, <1>2, <1>3, <1>4, <1>5, <1>6
<1>7. CASE r.type = "REGISTER_REQ" /\ register_source(r.who)
  <2>1. /\ epoch_' = epoch_
        /\ sources_' = Put(sources_, r.who.source, [boot |-> r.who.boot, epoch |-> r.who.epoch])
    BY <1>7 DEF register_source
  <2>2. ~Admits(sources_) /\ ~Registers(r) => ~Admits(sources_')
    <3>1. CASE r.who.source = "SRC_A"
      <4>1. sources_'["SRC_A"] = [boot |-> r.who.boot, epoch |-> r.who.epoch]
        BY <2>1, <3>1 DEF Put
      <4> QED BY <1>7, <3>1, <4>1 DEF Registers, Admits
    <3>2. CASE r.who.source # "SRC_A"
      BY <2>1, <3>2 DEF Put, Admits
    <3> QED BY <3>1, <3>2
  <2> QED BY <1>1, <1>2, <1>3, <1>4, <1>5, <1>7, <2>1, <2>2
<1>8. CASE r.type = "ADVANCE_EPOCH" /\ advance_epoch(r.epoch)
  <2>1. r.epoch \in Epoch
    BY <1>3, <1>8 DEF WellFormed
  <2>2. r.epoch \in Nat /\ r.epoch > epoch_ /\ epoch_' = r.epoch /\ sources_' = sources_
    BY <1>8, <2>1, AuthorityAssumption DEF advance_epoch
  <2> QED BY <1>1, <1>2, <1>3, <1>4, <1>5, <1>8, <2>2
<1> QED BY <1>1, <1>3, <1>5, <1>6, <1>7, <1>8, AuthorityMove

(* What a step does to the served graph and the coordinator's life *)

LEMMA GraphChange ==
  ASSUME [AppNext]_appVars
  PROVE  \/ handle_accepts
         \/ coordinator_loads
         \/ save_file_succeeds
         \/ UNCHANGED <<epoch_, sources_, nodes_>> /\ graph_file' \in {graph_file, <<>>}
<1>1. UNCHANGED coordVars => UNCHANGED <<epoch_, sources_, nodes_, graph_file>>
  BY DEF coordVars, vars, fileVars
<1>2. CoordinatorStops => UNCHANGED <<epoch_, sources_, nodes_, graph_file>>
  BY DEF CoordinatorStops, vars
<1>3. ASSUME NEW p \in Client, ClientStep(p) PROVE UNCHANGED <<epoch_, sources_, nodes_, graph_file>>
  BY <1>1, <1>2, <1>3, ClientsOnlyAsk
<1>4. handle_rejects \/ handle_hello \/ handle_query \/ handle_bye \/ serve_next_client => UNCHANGED coordVars
  BY DEF handle_rejects, handle_hello, handle_query, handle_bye, serve_next_client
<1>5. /\ handle_persist => UNCHANGED <<epoch_, sources_, nodes_>> /\ graph_file' = <<>>
      /\ save_file_fails => UNCHANGED <<epoch_, sources_, nodes_, graph_file>>
  BY DEF handle_persist, save_file_fails, persist_truncates, persist_fails, vars
<1>6. CASE CoordinatorStep
  <2>1. coordinator_announces \/ coordinator_listens => UNCHANGED coordVars
    BY DEF coordinator_announces, coordinator_listens
  <2> QED BY <1>1, <1>4, <1>5, <1>6, <2>1 DEF CoordinatorStep, Serve
<1>7. CASE Fault
  <2>1. ASSUME NEW w \in Client, worker_crashes(w) PROVE UNCHANGED coordVars
    BY <2>1 DEF worker_crashes, Dies, Abandon
  <2>2. coordinator_cannot_listen => UNCHANGED coordVars
    BY DEF coordinator_cannot_listen
  <2> QED BY <1>1, <1>2, <1>5, <1>7, <2>1, <2>2 DEF Fault, coordinator_crashes
<1>8. UNCHANGED appVars => UNCHANGED coordVars
  BY DEF appVars
<1> QED BY <1>1, <1>3, <1>6, <1>7, <1>8 DEF AppNext, ProcessStep, Loading

LEMMA LifeChange ==
  ASSUME [AppNext]_appVars
  PROVE  \/ coordinator' \in {coordinator, "down"}
         \/ coordinator \notin {"down", "loading"}
         \/ coordinator_loads
         \/ \E p \in Client : spawns(p)
<1>1. ASSUME NEW p \in Client, ClientStep(p)
      PROVE  coordinator' \in {coordinator, "down"} \/ spawns(p)
  <2>1. opens(p) \/ open_fails(p) \/ rpc_writes(p) \/ rpc_reads(p) \/ rpc_fails(p) => UNCHANGED coordinator
    BY DEF opens, open_fails, rpc_writes, rpc_reads, rpc_fails, connect, connect_refused, exchange_writes,
       exchange_reads, exchange_fails, serverVars
  <2>2. /\ closes(p) \/ concludes(p) => UNCHANGED coordinator
        /\ creates_file(p) \/ fills_file(p) \/ removes_file(p) => UNCHANGED coordinator
    BY DEF closes, close, Abandon, concludes, creates_file, fills_file, removes_file, serverVars
  <2>3. /\ wait_finds_file(p) \/ wait_times_out(p) => UNCHANGED coordinator
        /\ checks_exists(p) \/ checks_file(p) \/ checks_variable(p) => UNCHANGED coordinator
    BY DEF wait_finds_file, wait_times_out, checks_exists, checks_file, checks_variable, serverVars
  <2>4. kills_worker(p) => UNCHANGED coordinator
    BY DEF kills_worker, Dies, Abandon
  <2>5. kills_coordinator(p) => coordinator' = "down"
    BY DEF kills_coordinator, CoordinatorStops
  <2> QED BY <1>1, <2>1, <2>2, <2>3, <2>4, <2>5, Zenon DEF ClientStep
<1>2. Serve \/ save_file_fails => UNCHANGED coordinator
  BY DEF Serve, handle_accepts, handle_rejects, handle_hello, handle_query, handle_persist, save_file_succeeds,
     save_file_fails, handle_bye, serve_next_client, serverVars
<1>3. coordinator_announces \/ coordinator_listens => coordinator \notin {"down", "loading"}
  BY DEF coordinator_announces, coordinator_listens
<1>4. coordinator_cannot_listen \/ coordinator_crashes => coordinator' = "down"
  BY DEF coordinator_cannot_listen, coordinator_crashes, CoordinatorStops
<1>5. ASSUME NEW w \in Client, worker_crashes(w) PROVE UNCHANGED coordinator
  BY <1>5 DEF worker_crashes, Dies, Abandon
<1>6. UNCHANGED appVars => UNCHANGED coordinator
  BY DEF appVars, serverVars
<1> QED BY <1>1, <1>2, <1>3, <1>4, <1>5, <1>6
        DEF AppNext, ProcessStep, CoordinatorStep, Loading, Fault

\* A load brings back what the file says, or nothing.
LEMMA LoadsWhat ==
  ASSUME coordinator_loads
  PROVE  /\ UNCHANGED <<graph_file, line>> /\ coordinator = "loading"
         /\ \/ \E img \in Range(graph_file) : /\ epoch_' = img.epoch /\ sources_' = img.sources
                                              /\ nodes_' = demote_evidence(img.nodes)
            \/ sources_' = <<>> /\ nodes_' = <<>>
<1>1. CASE restart_loads
  <2>1. PICK img \in Range(graph_file) : load(img)
    BY <1>1 DEF restart_loads
  <2>2. epoch_' = img.epoch /\ sources_' = img.sources /\ nodes_' = demote_evidence(img.nodes)
    BY <2>1 DEF load
  <2> QED BY <1>1, <2>2 DEF coordinator_loads, restart_loads
<1>2. CASE restart_serves_empty
  BY <1>2 DEF coordinator_loads, restart_serves_empty
<1> QED BY <1>1, <1>2 DEF coordinator_loads

LEMMA FencedKept ==
  ASSUME ConnInv, CoordInv, InOrder, LateRequests, NothingStale, Fenced,
         pc["orchestrator"] # 1, pc["worker_a"] = 8, [AppNext]_appVars
  PROVE  Fenced'
<1>1. (\A r : Waits(r) => ~Registers(r)) => \A r : Waits(r)' => ~Registers(r)
  BY RequestsKept
<1>2. CASE coordinator_loads
  <2>1. UNCHANGED line /\ line = <<>> /\ line' = <<>>
    BY <1>2, LoadsWhat DEF ConnInv, OneCoordinator
  <2>2. \A r : ~Waits(r)'
    BY <2>1 DEF Waits
  <2>3. CASE sources_' = <<>>
    BY <2>2, <2>3 DEF Fenced, Admits
  <2>4. ASSUME NEW img \in Range(graph_file), epoch_' = img.epoch, sources_' = img.sources PROVE Fenced'
    BY <2>2, <2>4 DEF Fenced, NothingStale
  <2> QED BY <1>2, <2>3, <2>4, LoadsWhat
<1>3. CASE coordinator' \in {"down", "loading"}
  BY <1>3 DEF Fenced
<1>4. ASSUME NEW p \in Client, spawns(p) PROVE coordinator' = coordinator \/ coordinator' = "loading"
  BY <1>4, SpawnsWhat DEF ConnInv
<1>5. CASE ~coordinator_loads /\ coordinator' \notin {"down", "loading"}
  <2>1. coordinator \notin {"down", "loading"}
    BY <1>4, <1>5, LifeChange
  <2>2. epoch_ >= 2 \/ (~Admits(sources_) /\ \A r : Waits(r) => ~Registers(r))
    BY <2>1 DEF Fenced
  <2>3. CASE UNCHANGED <<epoch_, sources_>>
    BY <1>1, <2>2, <2>3 DEF Fenced
  <2>4. CASE handle_accepts
    <3> DEFINE r == line[1].request[1]
    <3>1. /\ Waits(r) /\ epoch_ \in Nat /\ epoch_' \in Nat /\ epoch_' >= epoch_
          /\ ~Admits(sources_) /\ ~Registers(r) => ~Admits(sources_')
      BY <2>4, AppliedRequest
    <3> HIDE DEF r
    <3> QED BY <1>1, <2>2, <3>1 DEF Fenced
  <2>5. save_file_succeeds => UNCHANGED <<epoch_, sources_>>
    BY DEF save_file_succeeds, persist_writes, vars
  <2> QED BY <1>5, <2>3, <2>4, <2>5, GraphChange
<1> QED BY <1>2, <1>3, <1>5

LEMMA StaleKeptOut ==
  ASSUME ConnInv, CoordInv, FencedInTime, LateRequests, NothingStale, [AppNext]_appVars
  PROVE  NothingStale'
<1>0. ShapeOK /\ epoch_ \in Nat
  BY AuthorityAssumption DEF CoordInv, Served, ShapeOK, StructOK
<1>1. CASE handle_accepts
  <2> DEFINE r == line[1].request[1]
  <2>1. /\ Waits(r) /\ WellFormed(r) /\ (Replays(r) => r.who = A1) /\ Operation(r) /\ r.type \in Mutations
        /\ coordinator = "serving" /\ UNCHANGED graph_file
    BY <1>1, AppliedRequest
  <2> HIDE DEF r
  <2>2. ASSUME Replays(r) PROVE FALSE
    <3>1. Fenced
      BY <2>1, <2>2 DEF LateRequests, FencedInTime
    <3>2. publish_generation(r.node, r.gen, A1)
      BY <2>1, <2>2 DEF Operation, Replays
    <3>3. A1.epoch = epoch_ /\ A1.source \in DOMAIN sources_ /\ A1.boot = sources_[A1.source].boot
      BY <3>2 DEF publish_generation, authority_ok
    <3>4. epoch_ = 1 /\ Admits(sources_)
      BY <3>3, Origins DEF Admits
    <3> QED BY <2>1, <3>1, <3>4 DEF Fenced
  <2>3. Clean(nodes_')
    BY <1>0, <2>1, <2>2, LedgerKeptClean DEF NothingStale
  <2> QED BY <2>1, <2>3 DEF NothingStale
<1>2. CASE coordinator_loads
  <2>1. UNCHANGED graph_file
    BY <1>2, LoadsWhat
  <2>2. CASE nodes_' = <<>>
    BY <2>1, <2>2 DEF NothingStale, Clean
  <2>3. ASSUME NEW img \in Range(graph_file), nodes_' = demote_evidence(img.nodes) PROVE Clean(nodes_')
    <3>1. Clean(img.nodes) /\ img.nodes \in [DOMAIN img.nodes -> NodeFacts]
      BY <2>3 DEF NothingStale, CoordInv, FileOK, GoodImage, ImageOK
    <3>2. /\ nodes_' \in [DOMAIN img.nodes -> NodeFacts]
          /\ \A n \in DOMAIN img.nodes : nodes_'[n].generation_history = img.nodes[n].generation_history
      BY <2>3, <3>1, DemotedFacts
    <3> QED BY <3>1, <3>2 DEF Clean
  <2> QED BY <1>2, <2>1, <2>2, <2>3, LoadsWhat DEF NothingStale
<1>3. CASE save_file_succeeds
  <2>1. /\ Requested({"PERSIST_REQ"}) /\ UNCHANGED nodes_ /\ pending_write # <<>> /\ graph_file' = pending_write
    BY <1>3 DEF save_file_succeeds, persist_writes, vars
  <2>2. graph_file' = <<Image>>
    BY <2>1 DEF CoordInv, WriteOK
  <2>3. Image.epoch = epoch_ /\ Image.sources = sources_ /\ Image.nodes = nodes_
    BY DEF Image
  <2> DEFINE r == line[1].request[1]
  <2>4. /\ coordinator = "serving" /\ r.type = "PERSIST_REQ"
        /\ 1 \in DOMAIN line /\ line[1] \in Entry /\ line[1].request # <<>>
    BY <2>1, HeadRequest DEF ConnInv
  <2>5. Waits(r)
    BY <2>4, Asked DEF Waits
  <2> HIDE DEF r
  <2>6. Fenced
    BY <2>4, <2>5 DEF LateRequests, FencedInTime
  <2>7. epoch_ >= 2 \/ ~Admits(sources_)
    BY <2>4, <2>6 DEF Fenced
  <2>8. \A img \in Range(graph_file') : img = Image
    BY <2>2 DEF Range
  <2> QED BY <2>1, <2>3, <2>7, <2>8 DEF NothingStale
<1>4. CASE UNCHANGED nodes_ /\ graph_file' \in {graph_file, <<>>}
  <2>1. Range(<<>>) = {}
    BY DEF Range
  <2> QED BY <1>4, <2>1 DEF NothingStale
<1> QED BY <1>1, <1>2, <1>3, <1>4, GraphChange

(* The orchestrator advances the epoch *)

\* How the orchestrator gets past steps 12, 13 and 14, and who starts the replay.
LEMMA OrchestratorMoves ==
  ASSUME ConnInv, [AppNext]_appVars
  PROVE  /\ \/ pc'["orchestrator"] \in {pc["orchestrator"], 59}
            \/ /\ pc["orchestrator"] \in 1..58
               /\ pc'["orchestrator"] = pc["orchestrator"] + 1
         /\ pc["replay"] = 0 /\ pc'["replay"] # 0 => pc["orchestrator"] = 18
<1>0. "orchestrator" \in Client /\ "replay" \in Client /\ "replay" \in Worker /\ ConnTypes
  BY Roles DEF ConnInv
<1>1. ASSUME NEW p \in Client, Running(p) PROVE p = "replay" => pc["replay"] # 0
  BY <1>0, <1>1, WorkerAt
<1>2. ASSUME NEW p \in Client, Running(p), Advance(p)
      PROVE  /\ \/ pc'["orchestrator"] = pc["orchestrator"]
                \/ pc["orchestrator"] \in 1..58 /\ pc'["orchestrator"] = pc["orchestrator"] + 1
             /\ pc["replay"] = 0 => pc'["replay"] = 0
  BY <1>0, <1>1, <1>2, Moves
<1>3. ASSUME NEW p \in Client, Running(p), pc' = [pc EXCEPT ![p] = End(p)]
      PROVE  /\ pc'["orchestrator"] \in {pc["orchestrator"], 59}
             /\ pc["replay"] = 0 => pc'["replay"] = 0
  BY <1>0, <1>1, <1>3, Ends
<1>4. ASSUME NEW p \in Client, spawns(p)
      PROVE  /\ pc["orchestrator"] \in 1..58 /\ pc'["orchestrator"] = pc["orchestrator"] + 1
             /\ pc["replay"] = 0 /\ pc'["replay"] # 0 => pc["orchestrator"] = 18
  BY <1>0, <1>4, SpawnsWhat
<1>5. ASSUME NEW p \in Client, kills_worker(p)
      PROVE  /\ pc["orchestrator"] \in 1..58 /\ pc'["orchestrator"] = pc["orchestrator"] + 1
             /\ pc'["replay"] = pc["replay"]
  BY <1>0, <1>5, KillsWhom
<1> QED BY <1>2, <1>3, <1>4, <1>5, PcChange

\* Only a step of the orchestrator moves it.
LEMMA OrchestratorActs ==
  ASSUME ConnInv, [AppNext]_appVars, pc'["orchestrator"] # pc["orchestrator"]
  PROVE  ClientStep("orchestrator")
<1>0. "orchestrator" \in Client /\ ConnTypes
  BY Roles DEF ConnInv
<1>1. CoordinatorStep \/ Loading \/ UNCHANGED appVars => pc' = pc
  BY DEF CoordinatorStep, coordinator_announces, Loading, appVars
<1>2. ASSUME Fault PROVE pc'["orchestrator"] = pc["orchestrator"]
  <2>1. ASSUME NEW w \in Client, worker_crashes(w) PROVE pc'["orchestrator"] = pc["orchestrator"]
    <3>1. w # "orchestrator" /\ pc' = [pc EXCEPT ![w] = End(w)]
      BY <2>1 DEF worker_crashes
    <3> QED BY <1>0, <3>1 DEF ConnTypes
  <2> QED BY <1>2, <2>1 DEF Fault
<1>3. ASSUME NEW p \in Client, p # "orchestrator", ClientStep(p)
      PROVE  pc'["orchestrator"] = pc["orchestrator"]
  <2>1. ASSUME Running(p), Advance(p) \/ pc' = [pc EXCEPT ![p] = End(p)]
        PROVE  pc'["orchestrator"] = pc["orchestrator"]
    BY <1>0, <1>3, <2>1, Moves, Ends
  <2>2. ~spawns(p) /\ ~kills_worker(p) /\ ~kills_coordinator(p)
    BY <1>0, <1>3, SpawnsWhat, KillsWhom, StopsWhen
  <2>3. opens(p) \/ rpc_reads(p) \/ rpc_fails(p) \/ closes(p) => Running(p) /\ Advance(p)
    BY DEF opens, rpc_reads, rpc_fails, closes, At
  <2>4. creates_file(p) \/ fills_file(p) \/ removes_file(p) \/ wait_finds_file(p) \/ wait_times_out(p)
          => Running(p) /\ Advance(p)
    BY DEF creates_file, fills_file, removes_file, wait_finds_file, wait_times_out, At
  <2>5. rpc_writes(p) => pc' = pc
    BY DEF rpc_writes
  <2>6. open_fails(p) \/ concludes(p) => Running(p) /\ pc' = [pc EXCEPT ![p] = End(p)]
    BY DEF open_fails, concludes, Quits, At
  <2>7. checks_exists(p) \/ checks_file(p) \/ checks_variable(p)
          => Running(p) /\ (Advance(p) \/ pc' = [pc EXCEPT ![p] = End(p)])
    <3>1. checks_exists(p) => Running(p) /\ (Advance(p) \/ pc' = [pc EXCEPT ![p] = End(p)])
      BY DEF checks_exists, At, Judge, Quits
    <3>2. checks_file(p) => Running(p) /\ (Advance(p) \/ pc' = [pc EXCEPT ![p] = End(p)])
      BY DEF checks_file, At, Judge, Quits
    <3>3. checks_variable(p) => Running(p) /\ (Advance(p) \/ pc' = [pc EXCEPT ![p] = End(p)])
      BY DEF checks_variable, At, Judge, Quits
    <3> QED BY <3>1, <3>2, <3>3
  <2> QED BY <1>3, <2>1, <2>2, <2>3, <2>4, <2>5, <2>6, <2>7, Zenon DEF ClientStep
<1> QED BY <1>1, <1>2, <1>3, Zenon DEF AppNext, ProcessStep

LEMMA OrchestratorTurn ==
  ASSUME ConnInv, [AppNext]_appVars, pc'["orchestrator"] \in {13, 14, 15},
         pc'["orchestrator"] # pc["orchestrator"]
  PROVE  /\ pc'["orchestrator"] = pc["orchestrator"] + 1 /\ pc["orchestrator"] \in {12, 13, 14}
         /\ pc["orchestrator"] = 12 => opens("orchestrator")
         /\ pc["orchestrator"] # 12 => rpc_reads("orchestrator") \/ rpc_fails("orchestrator")
<1> DEFINE o == "orchestrator"
<1>1. pc'[o] = pc[o] + 1 /\ pc[o] \in {12, 13, 14} /\ pc'[o] # 59
  BY OrchestratorMoves
<1>2. ClientStep(o)
  BY OrchestratorActs
<1>3. Running(o)
  BY <1>1, ScriptEnds DEF Running
<1>4. Step(o).do = IF pc[o] = 12 THEN "open" ELSE "rpc"
  BY <1>1, <1>3, OrchestratorAt DEF OrchestratorStep
<1>5. opens(o) \/ open_fails(o) \/ rpc_writes(o) \/ rpc_reads(o) \/ rpc_fails(o)
  <2>1. Step(o).do \in {"open", "rpc"}
    BY <1>4
  <2> QED BY <1>2, <2>1 DEF ClientStep, closes, creates_file, fills_file, removes_file, wait_finds_file,
          wait_times_out, checks_exists, checks_file, checks_variable, concludes, spawns, kills_worker,
          kills_coordinator, At
<1>6. ~rpc_writes(o)
  BY DEF rpc_writes
<1>7. ~open_fails(o)
  <2>1. open_fails(o) => pc' = [pc EXCEPT ![o] = End(o)]
    BY DEF open_fails, Quits
  <2> QED BY <1>1, <2>1, Ends, Roles DEF ConnInv
<1>8. /\ opens(o) => Step(o).do = "open"
      /\ rpc_reads(o) \/ rpc_fails(o) => Step(o).do = "rpc"
  BY DEF opens, rpc_reads, rpc_fails, At
<1> QED BY <1>1, <1>4, <1>5, <1>6, <1>7, <1>8

\* The orchestrator's connection while it stays where it is.
LEMMA OwnConnection ==
  ASSUME ConnInv, [AppNext]_appVars, pc'["orchestrator"] = pc["orchestrator"],
         NEW i \in DOMAIN line, line[i].who = "orchestrator",
         line[i].request # <<>> => line[i].request[1].type # "BYE"
  PROVE  Connected("orchestrator")' \/ coordinator' = "down"
<1>0. line \in Seq(Entry) /\ (\A j \in DOMAIN line : line[j] \in Entry) /\ HungUp # "orchestrator"
  BY Roles DEF ConnInv, ConnTypes
<1>1. CASE line' = line
  BY <1>1 DEF Connected
<1>2. ASSUME NEW p \in Client, opens(p) PROVE Connected("orchestrator")'
  <2>1. line' = Append(line, [who |-> p, request |-> <<>>]) /\ [who |-> p, request |-> <<>>] \in Entry
    BY <1>2, Entries, Zenon DEF opens, connect
  <2>2. i \in DOMAIN line' /\ line'[i] = line[i]
    BY <1>0, <2>1, Joined, Zenon
  <2> QED BY <2>2 DEF Connected
<1>3. ASSUME NEW p \in Client, rpc_writes(p) PROVE Connected("orchestrator")'
  <2>1. line' = [j \in DOMAIN line |->
                   IF line[j].who = p THEN [line[j] EXCEPT !.request = <<Step(p).request>>] ELSE line[j]]
    BY <1>3 DEF rpc_writes, exchange_writes
  <2>2. i \in DOMAIN line' /\ line'[i] \in {line[i], [line[i] EXCEPT !.request = <<Step(p).request>>]}
    BY <2>1
  <2>3. line[i] \in [who : Client \cup {HungUp}, request : {<<>>} \cup {<<q>> : q \in Sendable}]
    BY <1>0 DEF Entry
  <2>4. line'[i].who = "orchestrator"
    BY <2>2, <2>3
  <2> QED BY <2>2, <2>4 DEF Connected
<1>4. ASSUME NEW p \in Client, Leaves(p) PROVE Connected("orchestrator")'
  <2>1. p # "orchestrator" /\ i \in DOMAIN line' /\ line'[i] = line[i]
    BY <1>4 DEF Leaves, Departs
  <2> QED BY <2>1 DEF Connected
<1>5. CASE Drops
  <2>1. i # 1 /\ line # <<>> /\ line' = Tail(line)
    BY <1>0, <1>5 DEF Drops
  <2>2. i - 1 \in DOMAIN line' /\ line'[i - 1] = line[i]
    BY <1>0, <2>1
  <2> QED BY <2>2 DEF Connected
<1>6. CASE line # <<>> /\ line' = [line EXCEPT ![1].request = <<>>]
  <2>1. i \in DOMAIN line' /\ (i # 1 => line'[i] = line[i])
        /\ (i = 1 => line'[i] = [line[i] EXCEPT !.request = <<>>])
    BY <1>0, <1>6, Answering, Zenon
  <2>2. line[i] \in [who : Client \cup {HungUp}, request : {<<>>} \cup {<<q>> : q \in Sendable}]
    BY <1>0 DEF Entry
  <2>3. line'[i].who = "orchestrator"
    BY <2>1, <2>2
  <2> QED BY <2>1, <2>3 DEF Connected
<1> QED BY <1>1, <1>2, <1>3, <1>4, <1>5, <1>6, LineChange

\* Its requests were there, or it just wrote them.
LEMMA OwnRequests ==
  ASSUME ConnInv, [AppNext]_appVars, NEW i \in DOMAIN line', line'[i].who = "orchestrator",
         NEW r \in Range(line'[i].request)
  PROVE  \/ \E j \in DOMAIN line : line[j].who = "orchestrator" /\ r \in Range(line[j].request)
         \/ SentBy("orchestrator", pc["orchestrator"], r)
<1>0. line \in Seq(Entry) /\ (\A j \in DOMAIN line : line[j] \in Entry) /\ HungUp # "orchestrator"
      /\ Range(<<>>) = {}
  BY Roles DEF ConnInv, ConnTypes, Range
<1>1. CASE line' = line
  BY <1>1
<1>2. ASSUME NEW p \in Client, opens(p)
      PROVE  \E j \in DOMAIN line : line[j].who = "orchestrator" /\ r \in Range(line[j].request)
  <2>1. line' = Append(line, [who |-> p, request |-> <<>>]) /\ [who |-> p, request |-> <<>>] \in Entry
    BY <1>2, Entries, Zenon DEF opens, connect
  <2>2. /\ DOMAIN line' = 1..(Len(line) + 1) /\ \A j \in DOMAIN line : line'[j] = line[j]
        /\ line'[Len(line) + 1] = [who |-> p, request |-> <<>>]
    BY <1>0, <2>1, Joined, Zenon
  <2>3. i # Len(line) + 1
    BY <1>0, <2>2
  <2>4. i \in DOMAIN line
    BY <1>0, <2>2, <2>3
  <2> QED BY <2>2, <2>4
<1>3. ASSUME NEW p \in Client, rpc_writes(p)
      PROVE  \/ \E j \in DOMAIN line : line[j].who = "orchestrator" /\ r \in Range(line[j].request)
             \/ SentBy("orchestrator", pc["orchestrator"], r)
  <2>1. line' = [j \in DOMAIN line |->
                   IF line[j].who = p THEN [line[j] EXCEPT !.request = <<Step(p).request>>] ELSE line[j]]
    BY <1>3 DEF rpc_writes, exchange_writes
  <2>2. i \in DOMAIN line
    BY <2>1
  <2>3. CASE line[i].who = p
    <3>1. line'[i] = [line[i] EXCEPT !.request = <<Step(p).request>>]
      BY <2>1, <2>2, <2>3
    <3>2. line[i] \in [who : Client \cup {HungUp}, request : {<<>>} \cup {<<q>> : q \in Sendable}]
      BY <1>0, <2>2 DEF Entry
    <3>3. line'[i].request = <<Step(p).request>> /\ line'[i].who = p
      BY <2>3, <3>1, <3>2
    <3>4. Range(<<Step(p).request>>) = {Step(p).request}
      BY DEF Range
    <3>5. p = "orchestrator" /\ r = Step(p).request
      BY <3>3, <3>4
    <3>6. Running(p) /\ Step(p).do = "rpc"
      BY <1>3 DEF rpc_writes, At
    <3> QED BY <3>5, <3>6, ScriptSends DEF Running, Step
  <2>4. CASE line[i].who # p
    BY <2>1, <2>2, <2>4
  <2> QED BY <2>3, <2>4
<1>4. ASSUME NEW p \in Client, Leaves(p)
      PROVE  \E j \in DOMAIN line : line[j].who = "orchestrator" /\ r \in Range(line[j].request)
  <2>1. i \in DOMAIN line /\ line'[i] = line[i]
    BY <1>0, <1>4 DEF Leaves, Departs
  <2> QED BY <2>1
<1>5. ASSUME Drops
      PROVE  \E j \in DOMAIN line : line[j].who = "orchestrator" /\ r \in Range(line[j].request)
  <2>1. i + 1 \in DOMAIN line /\ line'[i] = line[i + 1]
    BY <1>0, <1>5, Shortened, Zenon DEF Drops
  <2> QED BY <2>1
<1>6. ASSUME line # <<>>, line' = [line EXCEPT ![1].request = <<>>]
      PROVE  \E j \in DOMAIN line : line[j].who = "orchestrator" /\ r \in Range(line[j].request)
  <2>1. /\ i \in DOMAIN line /\ (i # 1 => line'[i] = line[i])
        /\ (i = 1 => line'[i] = [line[i] EXCEPT !.request = <<>>])
    BY <1>0, <1>6, Answering, Zenon
  <2>2. line[i] \in [who : Client \cup {HungUp}, request : {<<>>} \cup {<<q>> : q \in Sendable}]
    BY <1>0, <2>1 DEF Entry
  <2>3. i = 1 => line'[i].request = <<>>
    BY <2>1, <2>2
  <2>4. i # 1
    BY <1>0, <2>3
  <2> QED BY <2>1, <2>4
<1>7. CASE line' = <<>>
  BY <1>7
<1> QED BY <1>1, <1>2, <1>3, <1>4, <1>5, <1>6, <1>7, LineChange

\* A reply to the orchestrator answers the request at the head of the line.
LEMMA OwnReply ==
  ASSUME ConnInv, [AppNext]_appVars
  PROVE  \/ reply'["orchestrator"] \in {reply["orchestrator"], <<>>}
         \/ /\ line[1].who = "orchestrator"
            /\ \/ handle_accepts \/ handle_rejects
               \/ Requested({"HELLO_REQ", "QUERY_REQ", "PERSIST_REQ"})
<1>0. DOMAIN reply = Client /\ "orchestrator" \in Client
  BY Roles DEF ConnInv, ConnTypes
<1>1. ASSUME NEW p \in Client, ClientStep(p) PROVE reply'["orchestrator"] \in {reply["orchestrator"], <<>>}
  <2>1. opens(p) \/ open_fails(p) \/ rpc_writes(p) \/ rpc_fails(p) => UNCHANGED reply
    BY DEF opens, open_fails, rpc_writes, rpc_fails, connect, connect_refused, exchange_writes,
       exchange_fails, serverVars
  <2>2. closes(p) \/ rpc_reads(p) => reply' = [reply EXCEPT ![p] = <<>>]
    BY DEF closes, close, Abandon, rpc_reads, exchange_reads
  <2>3. creates_file(p) \/ fills_file(p) \/ removes_file(p) \/ concludes(p) \/ spawns(p) => UNCHANGED reply
    BY DEF creates_file, fills_file, removes_file, concludes, spawns, serverVars
  <2>4. wait_finds_file(p) \/ wait_times_out(p) => UNCHANGED reply
    BY DEF wait_finds_file, wait_times_out, serverVars
  <2>5. checks_exists(p) \/ checks_file(p) \/ checks_variable(p) => UNCHANGED reply
    BY DEF checks_exists, checks_file, checks_variable, Judge
  <2>6. kills_worker(p) => \E w : reply' = [reply EXCEPT ![w] = <<>>]
    BY DEF kills_worker, Dies, Abandon
  <2>7. kills_coordinator(p) => UNCHANGED reply
    BY DEF kills_coordinator, CoordinatorStops
  <2>8. UNCHANGED reply \/ \E w : reply' = [reply EXCEPT ![w] = <<>>]
    BY <1>1, <2>1, <2>2, <2>3, <2>4, <2>5, <2>6, <2>7, Zenon DEF ClientStep
  <2> QED BY <1>0, <2>8
<1>2. ASSUME NEW frame, Answer(frame)
      PROVE  reply'["orchestrator"] = reply["orchestrator"] \/ line[1].who = "orchestrator"
  BY <1>0, <1>2 DEF Answer, Current
<1>3. CASE handle_accepts \/ handle_rejects
  <2>1. PICK frame : Answer(frame)
    BY <1>3, Zenon DEF handle_accepts, handle_rejects
  <2> QED BY <1>2, <1>3, <2>1
<1>4. CASE handle_hello \/ handle_query \/ save_file_succeeds \/ save_file_fails
  <2>1. PICK frame : Answer(frame)
    BY <1>4, Zenon DEF handle_hello, handle_query, save_file_succeeds, save_file_fails
  <2>2. Requested({"HELLO_REQ", "QUERY_REQ", "PERSIST_REQ"})
    BY <1>4 DEF handle_hello, handle_query, save_file_succeeds, save_file_fails, Requested
  <2> QED BY <1>2, <2>1, <2>2
<1>5. handle_persist \/ handle_bye \/ serve_next_client => UNCHANGED reply
  BY DEF handle_persist, handle_bye, serve_next_client, serverVars
<1>6. /\ coordinator_announces \/ coordinator_listens \/ coordinator_loads => UNCHANGED reply
      /\ coordinator_cannot_listen \/ coordinator_crashes => UNCHANGED reply
  BY DEF coordinator_announces, coordinator_listens, coordinator_loads, coordinator_cannot_listen,
     coordinator_crashes, CoordinatorStops
<1>7. ASSUME NEW w \in Client, worker_crashes(w) PROVE reply'["orchestrator"] \in {reply["orchestrator"], <<>>}
  BY <1>0, <1>7 DEF worker_crashes, Dies, Abandon
<1>8. UNCHANGED appVars => UNCHANGED reply
  BY DEF appVars, serverVars
<1>9. CASE CoordinatorStep
  BY <1>3, <1>4, <1>5, <1>6, <1>9 DEF CoordinatorStep, Serve
<1>10. CASE Loading
  BY <1>6, <1>10 DEF Loading
<1>11. CASE Fault
  BY <1>4, <1>6, <1>7, <1>11 DEF Fault
<1> QED BY <1>1, <1>8, <1>9, <1>10, <1>11 DEF AppNext, ProcessStep

\* The answer to the request to advance the epoch comes from a fenced graph.
LEMMA AdvanceAnswered ==
  ASSUME ConnInv, CoordInv, Advancing, [AppNext]_appVars, pc["orchestrator"] = 14,
         reply["orchestrator"] = <<>>, reply'["orchestrator"] # <<>>
  PROVE  Fenced'
<1> DEFINE r == line[1].request[1]
<1>0. epoch_ \in Nat
  BY AuthorityAssumption DEF CoordInv, Served, ShapeOK, StructOK
<1>1. /\ line[1].who = "orchestrator"
      /\ \/ handle_accepts \/ handle_rejects
         \/ Requested({"HELLO_REQ", "QUERY_REQ", "PERSIST_REQ"})
  BY OwnReply
<1>2. PICK types : /\ Requested(types)
                   /\ \/ handle_accepts \/ handle_rejects
                      \/ types = {"HELLO_REQ", "QUERY_REQ", "PERSIST_REQ"}
  BY <1>1, Zenon DEF handle_accepts, handle_rejects
<1>3. 1 \in DOMAIN line /\ r \in Range(line[1].request) /\ r.type \in types
  <2>1. 1 \in DOMAIN line /\ line[1] \in Entry /\ line[1].request # <<>> /\ r.type \in types
    BY <1>2, HeadRequest DEF ConnInv
  <2> QED BY <2>1, Asked
<1> HIDE DEF r
<1>4. r.type = "ADVANCE_EPOCH" /\ r.epoch = 2
  BY <1>1, <1>3 DEF Advancing, SentBy
<1>5. CASE handle_accepts
  <2>1. epoch_' = 2
    BY <1>4, <1>5, AppliedRequest DEF r
  <2> QED BY <2>1 DEF Fenced
<1>6. CASE handle_rejects
  <2>1. ~Accepts(r) /\ epoch_' = epoch_
    BY <1>6 DEF handle_rejects, Current, r, coordVars, vars
  <2>2. epoch_' >= 2
    BY <1>0, <1>4, <2>1 DEF Accepts
  <2> QED BY <2>2 DEF Fenced
<1> QED BY <1>2, <1>3, <1>4, <1>5, <1>6

LEMMA AdvancingKept ==
  ASSUME ConnInv, CoordInv, ReplayInv, [AppNext]_appVars
  PROVE  Advancing'
<1> DEFINE o == "orchestrator"
           Owned == \A i \in DOMAIN line : line[i].who = o =>
                      \A r \in Range(line[i].request) : SentBy(o, pc[o], r)
<1>0. /\ HungUp # o /\ o \in Client /\ line \in Seq(Entry) /\ (\A i \in DOMAIN line : line[i] \in Entry)
      /\ DOMAIN reply = Client /\ Range(<<>>) = {}
  BY Roles DEF ConnInv, ConnTypes, Range
<1>1. CASE pc'[o] = pc[o] /\ pc[o] \in {13, 14}
  <2>1. /\ coordinator = "down" \/ Connected(o)
        /\ Owned
        /\ pc[o] = 14 /\ reply[o] # <<>> => Fenced
    BY <1>1 DEF ReplayInv, Advancing
  <2>2. coordinator' = "down" \/ Connected(o)'
    <3>1. CASE coordinator = "down"
      <4>1. ASSUME NEW p \in Client, spawns(p) PROVE FALSE
        BY <1>1, <4>1, SpawnsWhat DEF ConnInv
      <4>2. ~coordinator_loads
        BY <3>1 DEF coordinator_loads
      <4> QED BY <3>1, <4>1, <4>2, LifeChange
    <3>2. ASSUME NEW i \in DOMAIN line, line[i].who = o PROVE coordinator' = "down" \/ Connected(o)'
      <4>1. ASSUME line[i].request # <<>> PROVE line[i].request[1].type # "BYE"
        <5>1. line[i].request[1] \in Range(line[i].request)
          BY <1>0, <4>1, Asked
        <5>2. SentBy(o, pc[o], line[i].request[1])
          BY <2>1, <3>2, <5>1
        <5> QED BY <1>1, <5>2 DEF SentBy
      <4> QED BY <1>1, <3>2, <4>1, OwnConnection
    <3> QED BY <2>1, <3>1, <3>2 DEF Connected
  <2>3. Owned'
    <3>1. ASSUME NEW i \in DOMAIN line', line'[i].who = o, NEW r \in Range(line'[i].request)
          PROVE  SentBy(o, pc[o], r)
      BY <2>1, <3>1, OwnRequests
    <3> QED BY <1>1, <3>1
  <2>4. ASSUME pc[o] = 14, reply'[o] # <<>> PROVE Fenced'
    <3>1. CASE reply[o] # <<>>
      <4>1. Fenced /\ pc["worker_a"] = 8 /\ pc[o] # 1
        BY <1>1, <2>1, <2>4, <3>1 DEF ReplayInv, InOrder
      <4> QED BY <4>1, FencedKept DEF ReplayInv
    <3>2. CASE reply[o] = <<>>
      BY <2>4, <3>2, AdvanceAnswered DEF ReplayInv
    <3> QED BY <3>1, <3>2
  <2> HIDE DEF Owned
  <2>5. Advancing' <=>
          (pc'[o] \in {13, 14} =>
             /\ coordinator' = "down" \/ Connected(o)'
             /\ Owned'
             /\ pc'[o] = 14 /\ reply'[o] # <<>> => Fenced')
    BY DEF Advancing, Owned
  <2> QED BY <1>1, <2>2, <2>3, <2>4, <2>5
<1>2. CASE pc'[o] = 13 /\ pc[o] = 12 /\ opens(o)
  <2> DEFINE e == [who |-> o, request |-> <<>>]
  <2>1. line' = Append(line, e) /\ e \in Entry /\ e.request = <<>>
    BY <1>0, <1>2, Entries DEF opens, connect
  <2>6. e.who = o
    OBVIOUS
  <2> HIDE DEF e
  <2>2. /\ DOMAIN line' = 1..(Len(line) + 1) /\ \A j \in DOMAIN line : line'[j] = line[j]
        /\ line'[Len(line) + 1] = e
    BY <1>0, <2>1, Joined, Zenon
  <2>3. Len(line) + 1 \in DOMAIN line' /\ Connected(o)'
    BY <1>0, <2>2, <2>6 DEF Connected
  <2>4. \A j \in DOMAIN line : line[j].who # o
    BY <1>2 DEF ConnInv, OneExchange, Far
  <2>5. ASSUME NEW i \in DOMAIN line', line'[i].who = o, NEW r \in Range(line'[i].request) PROVE FALSE
    <3>1. i = Len(line) + 1
      <4>1. i \notin DOMAIN line
        BY <2>2, <2>4, <2>5
      <4> QED BY <1>0, <2>2, <4>1
    <3> QED BY <1>0, <2>1, <2>2, <2>5, <3>1
  <2>7. (pc[o] # 14)'
    BY <1>2
  <2>8. (\A i \in DOMAIN line : line[i].who = o => \A r \in Range(line[i].request) : SentBy(o, pc[o], r))'
    BY <2>5
  <2> QED BY <2>3, <2>7, <2>8 DEF Advancing
<1>3. CASE pc'[o] = 14 /\ pc[o] = 13 /\ (rpc_reads(o) \/ rpc_fails(o))
  <2>1. UNCHANGED <<line, coordinator>> /\ reply'[o] = <<>>
    BY <1>0, <1>3 DEF rpc_reads, rpc_fails, exchange_reads, exchange_fails, serverVars
  <2>2. coordinator = "down" \/ Connected(o)
    BY <1>3 DEF ReplayInv, Advancing
  <2>3. \A i \in DOMAIN line : line[i].who = o => line[i].request = <<>>
    <3>1. CASE rpc_reads(o)
      BY <3>1 DEF rpc_reads, exchange_reads, ConnInv, OneExchange
    <3>2. CASE rpc_fails(o)
      BY <3>2 DEF rpc_fails, exchange_fails, Connected
    <3> QED BY <1>3, <3>1, <3>2
  <2>4. Connected(o) => Connected(o)'
    BY <2>1 DEF Connected
  <2> QED BY <1>0, <2>1, <2>2, <2>3, <2>4 DEF Advancing
<1>4. CASE pc'[o] \notin {13, 14}
  BY <1>4 DEF Advancing
<1>5. CASE pc'[o] \in {13, 14} /\ pc'[o] # pc[o]
  BY <1>2, <1>3, <1>5, OrchestratorTurn
<1> QED BY <1>1, <1>4, <1>5

LEMMA FencedInTimeKept ==
  ASSUME ConnInv, CoordInv, ReplayInv, [AppNext]_appVars
  PROVE  FencedInTime'
<1> DEFINE o == "orchestrator"
<1>0. pc[o] \in 1..59
  BY DEF ConnInv, ConnTypes
<1> SUFFICES ASSUME pc'["replay"] # 0 \/ pc'[o] \in 15..58 PROVE Fenced'
  BY DEF FencedInTime
<1>1. CASE pc["replay"] # 0 \/ pc[o] \in 15..58
  <2>1. Fenced /\ pc["worker_a"] = 8 /\ pc[o] # 1
    BY <1>1 DEF ReplayInv, FencedInTime, InOrder
  <2> QED BY <2>1, FencedKept DEF ReplayInv
<1>2. CASE pc["replay"] = 0 /\ pc[o] \notin 15..58
  <2>1. pc'["replay"] = 0
    BY <1>2, OrchestratorMoves
  <2>2. pc'[o] = 15 /\ pc[o] = 14
    BY <1>0, <1>2, <2>1, OrchestratorMoves
  <2>3. rpc_reads(o) \/ rpc_fails(o)
    BY <2>2, OrchestratorTurn
  <2>4. CASE rpc_reads(o)
    <3>1. reply[o] # <<>>
      BY <2>4 DEF rpc_reads, exchange_reads
    <3>2. Fenced /\ pc["worker_a"] = 8 /\ pc[o] # 1
      BY <2>2, <3>1 DEF ReplayInv, Advancing, InOrder
    <3> QED BY <3>2, FencedKept DEF ReplayInv
  <2>5. CASE rpc_fails(o)
    <3>1. ~Connected(o) /\ UNCHANGED coordinator
      BY <2>5 DEF rpc_fails, exchange_fails, serverVars
    <3>2. coordinator' = "down"
      BY <2>2, <3>1 DEF ReplayInv, Advancing
    <3> QED BY <3>2 DEF Fenced
  <2> QED BY <2>3, <2>4, <2>5
<1> QED BY <1>1, <1>2

LEMMA ReplayInit == AppInit => ReplayInv
<1> SUFFICES ASSUME AppInit PROVE ReplayInv
  OBVIOUS
<1>1. /\ line = <<>> /\ graph_file = <<>> /\ nodes_ = <<>> /\ coordinator = "down"
      /\ pc = [p \in Client |-> IF p = "orchestrator" THEN 1 ELSE 0]
  BY DEF AppInit, SessionInit, CoordInit, Init
<1>2. pc["orchestrator"] = 1 /\ pc["replay"] = 0
  BY <1>1, Roles
<1>3. Range(<<>>) = {} /\ DOMAIN nodes_ = {} /\ DOMAIN line = {}
  BY <1>1 DEF Range
<1>4. InOrder /\ FencedInTime /\ Advancing
  BY <1>2 DEF InOrder, FencedInTime, Advancing
<1>5. LateRequests /\ NothingStale
  BY <1>1, <1>3 DEF LateRequests, Waits, NothingStale, Clean
<1> QED BY <1>4, <1>5 DEF ReplayInv

LEMMA ReplayStep == ConnInv /\ CoordInv /\ ReplayInv /\ [AppNext]_appVars => ReplayInv'
<1> SUFFICES ASSUME ConnInv, CoordInv, ReplayInv, [AppNext]_appVars PROVE ReplayInv'
  OBVIOUS
<1>1. InOrder' /\ LateRequests'
  BY OrderKept, RequestsKept DEF ReplayInv
<1>2. FencedInTime' /\ Advancing'
  BY FencedInTimeKept, AdvancingKept
<1>3. NothingStale'
  BY StaleKeptOut DEF ReplayInv
<1> QED BY <1>1, <1>2, <1>3 DEF ReplayInv

(***************************************************************************)
(* The publication that the replay role sends again in the name of worker  *)
(* A's first incarnation is never applied (handle and publish_generation): *)
(* not to the served graph, not to a saved image and not to a loaded one,  *)
(* for any number of faults, also when the replay is served late, after    *)
(* worker A's successor, or by a restarted coordinator.                    *)
(***************************************************************************)
THEOREM StaleReplaySafe == AppSpec => []StaleReplayNeverApplied
<1>1. ReplayInv => StaleReplayNeverApplied
  BY DEF ReplayInv, NothingStale, Clean, StaleReplayNeverApplied
<1>2. AppSpec => []CoordInv
  BY AppDrivesCoordinator, CoordInvariant, PTL
<1>3. AppSpec => []ReplayInv
  <2>1. AppSpec => AppInit /\ [][AppNext]_appVars
    BY PTL DEF AppSpec
  <2> QED BY <1>2, <2>1, ConnInvariant, ReplayInit, ReplayStep, PTL
<1> QED BY <1>1, <1>3, PTL
=============================================================================
