----------------------------- MODULE LTPSession ------------------------------
(***************************************************************************)
(* One LTP red session end to end: the sender of LTPSender, the receiver of *)
(* LTPReceiver and the UDP path between them.                               *)
(***************************************************************************)
EXTENDS LTPSender, LTPReceiver

CONSTANT
    EarlyCloseout   \* may a side forget a closed session while the other
                    \* still has it open?  The receiver's closeout interval
                    \* (inactivity_interval) is not tied to the sender's
                    \* retransmission horizon, so the code allows it.

ASSUME CloseoutAssumption == EarlyCloseout \in BOOLEAN

vars == <<net, senderVars, receiverVars>>

TypeOK == net \subseteq Segment /\ SenderTypeOK /\ ReceiverTypeOK

Init == net = {} /\ SenderInit /\ ReceiverInit

-----------------------------------------------------------------------------
SenderStep ==
    \/ process_bundles
    \/ AbortExpired
    \/ Dequeue
    \/ Transmit
    \/ \E m \in Sent("RS") : process_RS(m)
    \/ Sent("CS_BR") # {} /\ process_CS
    \/ Sent("CAS_BS") # {} /\ process_CAS
    \/ \E s \in Segs : data_seg_timeout(s)
    \/ Sender_cancel_seg_timeout
    \/ Sender_start_shutdown
    \/ Sender_cancel_all_sessions
    \/ (EarlyCloseout \/ ~ReceiverOpen) /\ Sender_closeout_timer_triggered

ReceiverStep ==
    \/ \E m \in Sent("DS") : DataSegmentAfterClose(m)
    \/ \E m \in Sent("DS") : process_incoming_data_segment(m)
    \/ \E m \in Sent("RAS") : process_RAS(m)
    \/ Sent("CS_BS") # {} /\ process_CS_BS
    \/ Sent("CAS_BR") # {} /\ process_CAS_BR
    \/ Receiver_inactivity_timer_triggered
    \/ \E r \in reports : report_seg_timeout(r)
    \/ Receiver_cancel_seg_timeout
    \/ Receiver_cancel_all_sessions
    \/ (EarlyCloseout \/ ~SenderOpen) /\ Receiver_closeout_timer_triggered

Next ==
    \/ SenderStep /\ UNCHANGED receiverVars
    \/ ReceiverStep /\ UNCHANGED senderVars

Spec == Init /\ [][Next]_vars

(* The threads that run timers, cut the block and drain the transmit queue  *)
(* keep running.  Nothing is assumed of the network or of the other side.   *)
Fairness ==
    /\ WF_vars(process_bundles /\ UNCHANGED receiverVars)
    /\ WF_vars(Dequeue /\ UNCHANGED receiverVars)
    /\ WF_vars(Transmit /\ UNCHANGED receiverVars)
    /\ \A s \in Segs : WF_vars(data_seg_timeout(s) /\ UNCHANGED receiverVars)
    /\ WF_vars(Sender_cancel_all_sessions /\ UNCHANGED receiverVars)
    /\ WF_vars(Sender_cancel_seg_timeout /\ UNCHANGED receiverVars)
    /\ WF_vars(Receiver_inactivity_timer_triggered /\ UNCHANGED senderVars)
    /\ WF_vars((\E r \in reports : report_seg_timeout(r)) /\ UNCHANGED senderVars)
    /\ WF_vars(Receiver_cancel_seg_timeout /\ UNCHANGED senderVars)

FairSpec == Spec /\ Fairness

-----------------------------------------------------------------------------
(* Properties *)

(* The session implements BlockTransfer: the bundle daemon is told once     *)
(* what became of the bundles, and told of success by process_RS only when  *)
(* the receiver has handed the block over, whatever UDP does to the         *)
(* segments.                                                                *)
BT == INSTANCE BlockTransfer
ReportsTruthfully == BT!Spec

(* No bundle is forgotten: by the time erase_send_session has removed the   *)
(* session, PostTransmitProcessing has reported its bundles.  process_CAS   *)
(* relies on it, since it closes the session without reporting.             *)
ClosedMeansReported == ~SenderOpen => outcome # "pending"

(* The block is handed to the bundle processor at most once for as long as  *)
(* the receiver remembers the session, open or closed, under any            *)
(* duplication of data segments.                                            *)
DeliveredOnce == deliveries <= 1

(* Every unclaimed checkpoint of a live session is covered: its timer runs, *)
(* or it is queued or in hand with a timer that will start.  This is what   *)
(* RemoveClaimedSegments relies on when it skips an inner checkpoint because*)
(* it already has a retransmission timer.                                   *)
WillStart(s) ==
    \/ \E i \in DOMAIN highQ : highQ[i].seg = s /\ highQ[i].timer # "stale"
    \/ \E i \in DOMAIN lowQ : lowQ[i].seg = s /\ lowQ[i].timer # "stale"
    \/ inHand # Idle /\ inHand.seg = s /\ inHand.timer # "stale"

CheckpointArmed ==
    sState = "DS" => \A s \in red : ckptId[s] # 0 => s \in dsTimer \/ WillStart(s)

(* While a completely sent block is not completely claimed there is a       *)
(* checkpoint outstanding, hence a timer that will move the session on: a   *)
(* segment never waits for a report that nobody will ask for.  Only         *)
(* start_shutdown suspends this, and then cancel_all_sessions follows.      *)
NeverStranded ==
    sState = "DS" /\ EOBDefined /\ ~stopping => \E s \in red : ckptId[s] # 0

(* Send_Remaining_Segments asserts that a segment it retransmits is not a   *)
(* checkpoint yet; whichever report arrives, and however late, it is not.   *)
RetransmitsAreNotCheckpoints ==
    SenderOpen =>
        \A m \in Sent("RS") :
            ~ReportIsFull(m) /\ Find_Checkpoint_Stop_Byte(m.ckpt) >= 0
                => \A s \in MissingFrom(m) : ckptId[s] = 0

(* LTPUDPSender::run never starts a timer that is running already, on which *)
(* SharedTimerSystem::schedule_at panics: although it starts the timer      *)
(* after it has released the segment, no report turns the segment into a    *)
(* checkpoint in between.                                                   *)
StartsIdleTimer == ~WouldPanic

(* Force cancelling "a session by sender due to a disk I/O error detected   *)
(* in the convergence layer transmission processing": a session whose data  *)
(* could not be read back is not left open.                                 *)
ReadErrorCancels == unreadable # {} ~> sState # "DS"

(* Every outgoing session ends, even if nothing sent ever arrives: each     *)
(* checkpoint is resent at most retran_retries times before build_CS_segment*)
(* cancels, and the cancel segment likewise before the session is erased.   *)
SenderSessionEnds == <>~SenderOpen

(* Every incoming session ends, even if the sender falls silent: help text  *)
(* of inact_intvl, "cancel incoming session after inactivity interval".     *)
IncomingSessionEnds == ReceiverOpen ~> ~ReceiverOpen
=============================================================================
