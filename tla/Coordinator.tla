----------------------------- MODULE Coordinator -----------------------------
(***************************************************************************)
(* The coordinator process: the requests it applies to its graph           *)
(* (src/coordinator/coordinator.cpp), the file it persists to, and its     *)
(* death and restart (run_coordinator in tools/df_app_main.cpp).           *)
(*                                                                         *)
(* serve handles one frame of one client at a time, so a request is one    *)
(* step.  PERSIST is two: opening the file truncates it, and the process   *)
(* can die, or the write can fail, before the image is in it.  HELLO and   *)
(* QUERY change nothing.                                                   *)
(***************************************************************************)
EXTENDS Persistence

VARIABLES
  graph_file,     \* <<image>> when the file holds a whole image, else <<>>
  pending_write,  \* <<image>> between the truncation and the write
  restored        \* history: dynamic nodes loaded and not republished since

fileVars == <<graph_file, pending_write>>
coordVars == <<vars, fileVars, restored>>

CoordInit ==
  /\ Init
  /\ graph_file = <<>>
  /\ pending_write = <<>>
  /\ restored = {}

-----------------------------------------------------------------------------
(* Requests.  Over the wire a node is declared with dynamic evidence and   *)
(* READY is the only state that can be published.                          *)

DeclareRequests(who) ==
  \/ register_source(who)
  \/ \E d \in NodeDecls : ~d.static /\ declare_node(d, who)

ChangeRequests(who) ==
  \/ \E e \in EdgeCatalog : add_edge(e, who)
  \/ \E id \in EdgeId : remove_edge(id, who)
  \/ \E n \in Node, policy \in Policies : invalidate_node(n, policy, who)
  \/ \E n \in Node : mark_recovered(n, who)

handle_request ==
  /\ pending_write = <<>>
  /\ \E who \in Authority : DeclareRequests(who) \/ ChangeRequests(who)
  /\ UNCHANGED <<fileVars, restored>>

handle_publish ==
  /\ pending_write = <<>>
  /\ \E n \in Node, who \in Authority :
       /\ \/ \E gen \in Generation : publish_generation(n, gen, who)
          \/ publish_readiness(n, "READY", who)
       /\ restored' = restored \ {n}
  /\ UNCHANGED fileVars

\* An INVALIDATE frame with an eight-byte body; it carries no authority.
handle_advance_epoch ==
  /\ pending_write = <<>>
  /\ \E new_epoch \in Epoch : advance_epoch(new_epoch)
  /\ UNCHANGED <<fileVars, restored>>

-----------------------------------------------------------------------------
(* Saving, dying and coming back. *)

persist_truncates ==
  /\ pending_write = <<>>
  /\ pending_write' = <<Image>>
  /\ graph_file' = <<>>
  /\ UNCHANGED <<vars, restored>>

persist_writes ==
  /\ pending_write # <<>>
  /\ graph_file' = pending_write
  /\ pending_write' = <<>>
  /\ UNCHANGED <<vars, restored>>

persist_fails ==
  /\ pending_write # <<>>
  /\ pending_write' = <<>>
  /\ UNCHANGED <<vars, graph_file, restored>>

\* The process dies at any moment and is started again on the same file.
restart_loads ==
  /\ \E img \in Range(graph_file) :
       /\ load(img)
       /\ restored' = {n \in DOMAIN img.nodes : img.nodes[n].dynamic_evidence}
  /\ pending_write' = <<>>
  /\ UNCHANGED graph_file

\* A failed load is logged and an empty graph is served.
restart_serves_empty ==
  /\ \A img \in Range(graph_file) : Rejected(img)
  /\ epoch_' = 1
  /\ sources_' = <<>>
  /\ nodes_' = <<>>
  /\ edges_' = <<>>
  /\ sets_' = <<>>
  /\ out_edges_' = [n \in Node |-> <<>>]
  /\ in_edges_' = [n \in Node |-> {}]
  /\ adapter_' = <<>>
  /\ state' = [n \in Node |-> "UNKNOWN"]
  /\ restored' = {}
  /\ pending_write' = <<>>
  /\ UNCHANGED graph_file

CoordNext ==
  \/ handle_request
  \/ handle_publish
  \/ handle_advance_epoch
  \/ persist_truncates
  \/ persist_writes
  \/ persist_fails
  \/ restart_loads
  \/ restart_serves_empty

CoordSpec == CoordInit /\ [][CoordNext]_coordVars
-----------------------------------------------------------------------------
(* Properties that hold *)

(***************************************************************************)
(* Dynamic evidence is not silently fresh after a restart: whatever        *)
(* invalidations, recoveries and changes of edges follow a load, a dynamic *)
(* node it restored is not shown ready, degraded or present before the     *)
(* node itself is published again.                                         *)
(***************************************************************************)
RestoredAwaitsRepublication ==
  \A n \in restored \cap DOMAIN nodes_ : state[n] \in HeldState \cup {"REVALIDATION_REQUIRED"}

(***************************************************************************)
(* Whatever graph the requests have built, also on top of a restored one,  *)
(* its image passes the loader's checks (increasing histories, endpoints,  *)
(* acyclicity over the rebuilt index), provided the histories fit the      *)
(* loader's length limit.                                                  *)
(***************************************************************************)
ServedGraphReloads == HistoriesFit(Image) => ~Rejected(Image)

(***************************************************************************)
(* A completed save is a floor: until the next one begins, and through any *)
(* number of restarts, the coordinator never serves an epoch below the     *)
(* saved one, never loses a saved node and only extends its generation     *)
(* history.                                                                *)
(***************************************************************************)
SavedGraphIsFloor ==
  \A img \in Range(graph_file) : HistoriesFit(img) =>
    /\ epoch_ >= img.epoch
    /\ \A n \in DOMAIN img.nodes :
         /\ n \in DOMAIN nodes_
         /\ LET saved == img.nodes[n].generation_history
                served == nodes_[n].generation_history
            IN Len(saved) <= Len(served) /\ SubSeq(served, 1, Len(saved)) = saved

\* What the abstract ledger sees of an image: nothing when the loader will
\* refuse it for its length.
LedgerOf(nodes) == [n \in DOMAIN nodes |-> nodes[n].generation_history]
CopyOf(img) == [epoch |-> img.epoch, ledger |-> LedgerOf(img.nodes)]
Copies(file) == IF \E img \in Range(file) : HistoriesFit(img) THEN <<CopyOf(file[1])>> ELSE <<>>

Ledger == INSTANCE DurableLedger WITH
  LedgerNode <- Node, LedgerGeneration <- Generation, epoch <- epoch_, ledger <- LedgerOf(nodes_),
  saved <- Copies(graph_file), writing <- [i \in DOMAIN pending_write |-> CopyOf(pending_write[i])]

(***************************************************************************)
(* The coordinator implements the durable ledger: no request but a newer   *)
(* epoch, a declaration or a newer generation of one node changes what is  *)
(* promised, none at all while a save is under way, and the graph served   *)
(* after a restart is the saved one entry for entry, or an empty one when  *)
(* the save was cut short.                                                 *)
(***************************************************************************)
ImplementsDurableLedger == Ledger!LedgerSpec
=============================================================================
