-------------------------- MODULE MCDtpcTransport --------------------------
(***************************************************************************)
(* Bounds for DtpcTransport: two PDUs over the lifetime of a PDU without a *)
(* restart, and with one for half of it; one PDU past the end of its       *)
(* lifetime; and three PDUs, of which two can be held at once, without     *)
(* retransmission.                                                         *)
(***************************************************************************)
EXTENDS DtpcTransport

MCBounds == {[items |-> 2, time |-> 2, restarts |-> 0],
             [items |-> 2, time |-> 1, restarts |-> 1],
             [items |-> 1, time |-> 3, restarts |-> 1],
             [items |-> 3, time |-> 0, restarts |-> 1]}

\* A search for what a reload of the collector can lead to: three PDUs, the first
\* of which never comes, the last of which is retransmitted once, one restart of
\* the receiver between two handlers and none of the sender.
ReloadBounds == {[items |-> 3, time |-> 2, restarts |-> 1]}

ReloadStates ==
  /\ "receiver" \notin torn /\ agg_events = {} /\ Len(me_eventq_) <= 1 /\ 1 \notin acks
  /\ \A n \in Numbers : resent[n] <= IF n = 3 THEN 1 ELSE 0

ReceiverRestarts ==
  restarts' > restarts => handling' = Idle /\ me_eventq_' = me_eventq_ /\ agg' = agg
=============================================================================
