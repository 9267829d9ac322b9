-------------------------- MODULE TerminalDelivery --------------------------
(***************************************************************************)
(* What the worker's completion ledger, its outbound queue and the         *)
(* coordinator's reader promise together: terminals are issued in an       *)
(* order, handed to the coordinator in that order, each once, and          *)
(* forgotten by the worker only after they were handed over.               *)
(***************************************************************************)
EXTENDS Naturals, Sequences

VARIABLES
    issued,        \* how many terminals the worker has produced
    delivered,     \* those the coordinator has been handed, in that order
    acknowledged   \* the terminals the worker no longer retains

deliveryVars == <<issued, delivered, acknowledged>>

Init == issued = 0 /\ delivered = <<>> /\ acknowledged = {}

Issue ==
    /\ issued' = issued + 1
    /\ UNCHANGED <<delivered, acknowledged>>

Deliver ==
    /\ Len(delivered) < issued
    /\ delivered' = Append(delivered, Len(delivered) + 1)
    /\ UNCHANGED <<issued, acknowledged>>

Acknowledge ==
    /\ \E t \in 1 .. Len(delivered) :
          /\ t \notin acknowledged
          /\ acknowledged' = acknowledged \cup {t}
    /\ UNCHANGED <<issued, delivered>>

Next == Issue \/ Deliver \/ Acknowledge

Spec == Init /\ [][Next]_deliveryVars

=============================================================================
