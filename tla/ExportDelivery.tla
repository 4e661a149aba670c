--------------------------- MODULE ExportDelivery ---------------------------
(***************************************************************************)
(* What the exporter promises each mediator, stated without connections,   *)
(* partial sends or sequence numbers: a FIFO channel per mediator.         *)
(*                                                                         *)
(* Every record is produced for exactly one mediator and joins the end of  *)
(* that mediator's queue.  A mediator receives records only from the head  *)
(* of its own queue, whole, once, and in queue order.  The only way a      *)
(* queued record leaves without being received is a discard of every      *)
(* queue at once (the registry being dropped as a whole), and the one      *)
(* record in flight when the sender stops for good.                        *)
(*                                                                         *)
(* Exporter instantiates this module with a refinement mapping and checks  *)
(* that its behaviours are behaviours of Spec.                             *)
(***************************************************************************)
EXTENDS Naturals, Sequences

CONSTANTS
  Mediators,    \* the mediators records are produced for
  MaxRecords    \* bound: records produced

VARIABLES
  produced,     \* how many records have been produced (ids 1..produced)
  queued,       \* mediator -> records owed to it, oldest first
  delivered,    \* mediator -> records it has received, in order
  open          \* the sender has not stopped

vars == <<produced, queued, delivered, open>>

Init ==
  /\ produced = 0
  /\ queued = [m \in Mediators |-> <<>>]
  /\ delivered = [m \in Mediators |-> <<>>]
  /\ open = TRUE

\* Mediator m's queue once the record produced by this step, if any, is
\* added for its target.
Owed(m, fresh, target) ==
  IF fresh /\ m = target THEN Append(queued[m], produced + 1) ELSE queued[m]

\* One step of the sender: possibly produce a record, which joins the queue
\* of `target` if `keep`; every mediator then receives the first k[m]
\* records it is owed.
Step(keep) ==
  \E target \in Mediators, fresh \in BOOLEAN, k \in [Mediators -> 0 .. MaxRecords] :
    LET owed(m) == Owed(m, fresh /\ keep, target)
    IN  /\ fresh => produced < MaxRecords
        /\ \A m \in Mediators : k[m] <= Len(owed(m))
        /\ produced' = IF fresh THEN produced + 1 ELSE produced
        /\ delivered' = [m \in Mediators |-> delivered[m] \o SubSeq(owed(m), 1, k[m])]
        /\ queued' = [m \in Mediators |-> SubSeq(owed(m), k[m] + 1, Len(owed(m)))]

Forward == open /\ Step(TRUE) /\ UNCHANGED open

\* The sender's last step: the record it was producing may be lost.
Stop == open /\ open' = FALSE /\ \E keep \in BOOLEAN : Step(keep)

\* Every queue released at once, nothing received.
DiscardAll ==
  /\ open
  /\ queued' = [m \in Mediators |-> <<>>]
  /\ UNCHANGED <<produced, delivered, open>>

Next == Forward \/ Stop \/ DiscardAll

Spec == Init /\ [][Next]_vars

====
