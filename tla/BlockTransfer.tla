---------------------------- MODULE BlockTransfer ----------------------------
(***************************************************************************)
(* What an LTP session promises to the bundle layer on both sides: the      *)
(* receiving engine may hand the block over, and the sending engine tells   *)
(* the bundle daemon once what became of it.  It reports success only for   *)
(* a block that was handed over.                                            *)
(***************************************************************************)
VARIABLES
    delivered,      \* the block was handed to the receiver's bundle processor
    outcome         \* what the sender's bundle daemon was told

vars == <<delivered, outcome>>

Init == delivered = FALSE /\ outcome = "pending"

Deliver == delivered' = TRUE /\ UNCHANGED outcome

ReportSuccess ==
    /\ outcome = "pending"
    /\ delivered
    /\ outcome' = "success"
    /\ UNCHANGED delivered

(* A failure says nothing about delivery: the block may have been delivered *)
(* and may still be.                                                        *)
ReportFailure ==
    /\ outcome = "pending"
    /\ outcome' \in {"failure", "expired"}
    /\ UNCHANGED delivered

Next == Deliver \/ ReportSuccess \/ ReportFailure

Spec == Init /\ [][Next]_vars
=============================================================================
