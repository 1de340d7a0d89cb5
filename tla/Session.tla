------------------------------ MODULE Session ------------------------------
(***************************************************************************)
(* The coordinator as a server: connections, the serve loop, the requests  *)
(* it dispatches with the replies it sends (Coordinator::serve and handle, *)
(* CoordinatorClient in src/coordinator/coordinator.cpp), and its process  *)
(* from start to death (run_coordinator in tools/df_app_main.cpp).         *)
(*                                                                         *)
(* A frame arrives whole and in order or the connection ends, which is     *)
(* what FrameChannel promises and Framing implements.  A client has one    *)
(* request under way at most: exchange writes a frame and reads one.       *)
(***************************************************************************)
EXTENDS Coordinator

CONSTANTS
  Client,    \* processes that open connections to the coordinator
  MaxFaults  \* bound on what goes wrong by itself

VARIABLES
  coordinator,  \* "down", "loading", "starting", "binding" or "serving"
  line,         \* connections in the order they were opened; the first is served
  reply,        \* client -> the frame waiting to be read, at most one
  faults        \* history: what went wrong outside the program's control

serverVars == <<coordinator, line, reply, faults>>

SessionInit ==
  /\ CoordInit
  /\ coordinator = "down"
  /\ line = <<>>
  /\ reply = [p \in Client |-> <<>>]
  /\ faults = {}

\* A connection whose client has closed it or died.
HungUp == "hung up"

\* What the environment does wrong, each at most once and MaxFaults of them in
\* a behaviour.  The other faults follow from these, or from races that the
\* program itself admits.
Environment == {"crash", "disk", "port", "slow", "worker"}
Strikes(fault) ==
  /\ fault \notin faults
  /\ Cardinality(faults \cap Environment) < MaxFaults
  /\ faults' = faults \cup {fault}

Connected(p) == \E i \in DOMAIN line : line[i].who = p

-----------------------------------------------------------------------------
(* Clients: CoordinatorClient::open, exchange and close. *)

connect(p) ==
  /\ coordinator = "serving"
  /\ line' = Append(line, [who |-> p, request |-> <<>>])
  /\ UNCHANGED <<coordVars, coordinator, reply, faults>>

\* Nobody listens: connect fails.
connect_refused(p) ==
  /\ coordinator # "serving"
  /\ faults' = faults \cup {"refused"}
  /\ UNCHANGED <<coordVars, coordinator, line, reply>>

\* exchange is a write_frame and a read_frame.
exchange_writes(p, r) ==
  /\ Connected(p)
  /\ line' = [i \in DOMAIN line |->
                IF line[i].who = p THEN [line[i] EXCEPT !.request = <<r>>] ELSE line[i]]
  /\ UNCHANGED <<coordVars, coordinator, reply, faults>>

exchange_reads(p) ==
  /\ reply[p] # <<>>
  /\ reply' = [reply EXCEPT ![p] = <<>>]
  /\ UNCHANGED <<coordVars, coordinator, line, faults>>

\* The coordinator closed the connection or died.
exchange_fails(p) ==
  /\ ~Connected(p)
  /\ reply[p] = <<>>
  /\ UNCHANGED <<coordVars, serverVars>>

\* What a client leaves behind when it closes or dies: a request it had
\* written reaches the coordinator or is lost with it.
Abandon(p, keeps_request) ==
  /\ line' = [i \in DOMAIN line |->
                IF line[i].who = p
                THEN [who |-> HungUp, request |-> IF keeps_request THEN line[i].request ELSE <<>>]
                ELSE line[i]]
  /\ reply' = [reply EXCEPT ![p] = <<>>]
  /\ UNCHANGED <<coordVars, coordinator>>

close(p) == Abandon(p, TRUE) /\ UNCHANGED faults

-----------------------------------------------------------------------------
(* Requests and replies.  A reply is the type of its frame and its content. *)

\* The outcome of authority_ok when it refuses.
authority_rejection(who) ==
  IF \/ who.epoch # epoch_
     \/ who.source \in DOMAIN sources_ /\ who.boot = sources_[who.source].boot
  THEN "REJECT_STALE_EPOCH"
  ELSE "REJECT_STALE_BOOT"

\* The graph operation a request frame stands for.
Operation(r) ==
  CASE r.type = "REGISTER_REQ" -> register_source(r.who) /\ UNCHANGED restored
    [] r.type = "PUBLISH_NODE_REQ" -> declare_node(r.decl, r.who) /\ UNCHANGED restored
    [] r.type = "PUBLISH_GEN_REQ" ->
         publish_generation(r.node, r.gen, r.who) /\ restored' = restored \ {r.node}
    [] r.type = "PUBLISH_READINESS_REQ" ->
         publish_readiness(r.node, "READY", r.who) /\ restored' = restored \ {r.node}
    [] r.type = "ADD_EDGE_REQ" -> add_edge(r.edge, r.who) /\ UNCHANGED restored
    [] r.type = "REMOVE_EDGE_REQ" -> remove_edge(r.edge_id, r.who) /\ UNCHANGED restored
    [] r.type = "INVALIDATE_REQ" -> invalidate_node(r.node, r.policy, r.who) /\ UNCHANGED restored
    [] r.type = "MARK_RECOVERED_REQ" -> mark_recovered(r.node, r.who) /\ UNCHANGED restored
    [] r.type = "ADVANCE_EPOCH" -> advance_epoch(r.epoch) /\ UNCHANGED restored

Rejection(r) ==
  CASE r.type \in {"REGISTER_REQ", "ADVANCE_EPOCH"} -> "REJECT_STALE_EPOCH"
    [] ~authority_ok(r.who) -> authority_rejection(r.who)
    [] OTHER -> "REJECTED"

Frame(type, content) == [type |-> type, content |-> content]

Current == line[1]

\* Send a reply to the first client and wait for its next request.  The
\* write fails, and the connection ends, when the client is gone.
Answer(frame) ==
  IF Current.who = HungUp
  THEN line' = Tail(line) /\ UNCHANGED reply
  ELSE /\ line' = [line EXCEPT ![1].request = <<>>]
       /\ reply' = [reply EXCEPT ![Current.who] = <<frame>>]

Requested(types) ==
  /\ coordinator = "serving"
  /\ line # <<>>
  /\ \E r \in Range(Current.request) : r.type \in types

\* The requests that carry a graph operation.
Mutations ==
  {"REGISTER_REQ", "PUBLISH_NODE_REQ", "PUBLISH_GEN_REQ", "ADD_EDGE_REQ", "REMOVE_EDGE_REQ",
   "PUBLISH_READINESS_REQ", "INVALIDATE_REQ", "MARK_RECOVERED_REQ", "ADVANCE_EPOCH"}

\* The checks an operation makes before it changes anything.
Accepts(r) ==
  CASE r.type = "REGISTER_REQ" -> r.who.epoch = epoch_
    [] r.type = "ADVANCE_EPOCH" -> r.epoch > epoch_
    [] r.type = "PUBLISH_NODE_REQ" ->
         /\ authority_ok(r.who)
         /\ r.decl.id \notin DOMAIN nodes_
         /\ Cardinality(DOMAIN nodes_) < kMaxGraphNodes
    [] r.type = "PUBLISH_GEN_REQ" ->
         /\ authority_ok(r.who)
         /\ r.node \in DOMAIN nodes_
         /\ r.gen > nodes_[r.node].current_generation
         /\ Len(nodes_[r.node].generation_history) < kMaxGraphNodes
    [] r.type = "ADD_EDGE_REQ" -> authority_ok(r.who) /\ edge_fits(r.edge)
    [] r.type = "REMOVE_EDGE_REQ" -> authority_ok(r.who) /\ r.edge_id \in DOMAIN edges_
    [] OTHER -> authority_ok(r.who) /\ r.node \in DOMAIN nodes_

\* The graph applies the operation, or refuses it and stays as it is.
handle_accepts ==
  /\ Requested(Mutations)
  /\ Operation(Current.request[1])
  /\ Answer(Frame("ACK", "ACCEPTED"))
  /\ UNCHANGED <<fileVars, coordinator, faults>>

handle_rejects ==
  /\ Requested(Mutations)
  /\ ~Accepts(Current.request[1])
  /\ Answer(Frame("NACK", Rejection(Current.request[1])))
  /\ UNCHANGED <<coordVars, coordinator, faults>>

handle_hello ==
  /\ Requested({"HELLO_REQ"})
  /\ Answer(Frame("HELLO_RESP", "epoch"))
  /\ UNCHANGED <<coordVars, coordinator, faults>>

\* readiness reports UNKNOWN for a node it does not find.
handle_query ==
  /\ Requested({"QUERY_REQ"})
  /\ Answer(Frame("QUERY_RESP", state[Current.request[1].node]))
  /\ UNCHANGED <<coordVars, coordinator, faults>>

handle_persist ==
  /\ Requested({"PERSIST_REQ"})
  /\ persist_truncates
  /\ UNCHANGED serverVars

save_file_succeeds ==
  /\ Requested({"PERSIST_REQ"})
  /\ persist_writes
  /\ Answer(Frame("PERSIST_RESP", "ACCEPTED"))
  /\ UNCHANGED <<coordinator, faults>>

\* The image is still in the stream's buffer when save_file tests the stream,
\* so a write that fails on closing the file is reported as accepted.
save_file_fails ==
  /\ Requested({"PERSIST_REQ"})
  /\ persist_fails
  /\ \/ Answer(Frame("PERSIST_RESP", "ACCEPTED"))
     \/ Answer(Frame("ERROR", ""))
  /\ Strikes("disk")
  /\ UNCHANGED coordinator

\* Mutant: BYE is not answered and the connection stays open.
ignores_bye ==
  /\ Requested({"BYE"})
  /\ line' = [line EXCEPT ![1].request = <<>>]
  /\ UNCHANGED <<coordVars, coordinator, reply, faults>>

\* BYE has no reply: the loop ends and the connection is closed.
handle_bye ==
  /\ Requested({"BYE"})
  /\ line' = Tail(line)
  /\ UNCHANGED <<coordVars, coordinator, reply, faults>>

\* read_frame fails: the client is gone and everything it wrote was handled.
serve_next_client ==
  /\ coordinator = "serving"
  /\ line # <<>>
  /\ Current.who = HungUp /\ Current.request = <<>>
  /\ line' = Tail(line)
  /\ UNCHANGED <<coordVars, coordinator, reply, faults>>

Serve ==
  \/ handle_accepts
  \/ handle_rejects
  \/ handle_hello
  \/ handle_query
  \/ handle_persist
  \/ save_file_succeeds
  \/ handle_bye
  \/ serve_next_client

-----------------------------------------------------------------------------
(* The life of the coordinator process. *)

\* A failed load is logged and an empty graph is served.
coordinator_loads ==
  /\ coordinator = "loading"
  /\ restart_loads \/ restart_serves_empty
  /\ coordinator' = "starting"
  /\ UNCHANGED <<line, reply, faults>>

coordinator_listens ==
  /\ coordinator = "binding"
  /\ coordinator' = "serving"
  /\ UNCHANGED <<coordVars, line, reply, faults>>

\* The port is taken: serve returns and the process ends.
coordinator_cannot_listen ==
  /\ coordinator = "binding"
  /\ coordinator' = "down"
  /\ Strikes("port")
  /\ UNCHANGED <<coordVars, line, reply>>

\* Every connection breaks and a save under way is left truncated.  Replies
\* already sent can still be read.
CoordinatorStops ==
  /\ coordinator' = "down"
  /\ line' = <<>>
  /\ pending_write' = <<>>
  /\ UNCHANGED <<vars, graph_file, restored, reply>>

\* The coordinator dies by itself.
coordinator_crashes ==
  /\ coordinator # "down"
  /\ CoordinatorStops
  /\ Strikes("crash")
=============================================================================
