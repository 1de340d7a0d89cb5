---------------------------- MODULE DurableLedger ----------------------------
(***************************************************************************)
(* What a coordinator with a state file promises: an epoch and, for every  *)
(* node, a ledger of generations that only grows; one saved copy; and a    *)
(* restart that resumes exactly the saved copy, or starts anew when there  *)
(* is none.  Readiness, edges, evidence and authority are not part of the  *)
(* promise.                                                                *)
(***************************************************************************)
EXTENDS Naturals, Sequences

CONSTANTS LedgerNode, LedgerGeneration

VARIABLES
  epoch,    \* the coordinator's epoch
  ledger,   \* declared node -> its generations, oldest first
  saved,    \* <<copy>> when the file can be resumed, else <<>>
  writing   \* <<copy>> while a save is under way, else <<>>

ledgerVars == <<epoch, ledger, saved, writing>>

Copy == [epoch |-> epoch, ledger |-> ledger]
Anew == [epoch |-> 1, ledger |-> <<>>]

LedgerInit ==
  /\ epoch = Anew.epoch /\ ledger = Anew.ledger
  /\ saved = <<>> /\ writing = <<>>

RaiseEpoch ==
  /\ writing = <<>>
  /\ epoch' > epoch
  /\ UNCHANGED <<ledger, saved, writing>>

DeclareNode(n) ==
  /\ writing = <<>>
  /\ n \notin DOMAIN ledger
  /\ ledger' = [m \in DOMAIN ledger \cup {n} |-> IF m = n THEN <<>> ELSE ledger[m]]
  /\ UNCHANGED <<epoch, saved, writing>>

RecordGeneration(n, gen) ==
  /\ writing = <<>>
  /\ n \in DOMAIN ledger
  /\ \A i \in DOMAIN ledger[n] : ledger[n][i] < gen
  /\ ledger' = [ledger EXCEPT ![n] = Append(@, gen)]
  /\ UNCHANGED <<epoch, saved, writing>>

\* The saved copy is lost before the new one is there.
SaveBegins ==
  /\ writing = <<>>
  /\ saved' = <<>> /\ writing' = <<Copy>>
  /\ UNCHANGED <<epoch, ledger>>

SaveEnds ==
  /\ writing # <<>>
  /\ saved' \in {writing, <<>>} /\ writing' = <<>>
  /\ UNCHANGED <<epoch, ledger>>

Restart ==
  LET resumed == IF saved = <<>> THEN Anew ELSE saved[1]
  IN /\ epoch' = resumed.epoch /\ ledger' = resumed.ledger
     /\ writing' = <<>>
     /\ UNCHANGED saved

LedgerNext ==
  \/ RaiseEpoch
  \/ \E n \in LedgerNode : DeclareNode(n)
  \/ \E n \in LedgerNode, gen \in LedgerGeneration : RecordGeneration(n, gen)
  \/ SaveBegins
  \/ SaveEnds
  \/ Restart

LedgerSpec == LedgerInit /\ [][LedgerNext]_ledgerVars
=============================================================================
