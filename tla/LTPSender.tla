------------------------------ MODULE LTPSender ------------------------------
(***************************************************************************)
(* The sending half of one LTP session: LTPNode::Sender, the LTPSession it  *)
(* keeps in send_sessions_, and the transmit queues and thread of the       *)
(* convergence layer (LTPUDPSender).                                        *)
(*                                                                          *)
(* Handlers run on different threads (bundle processor, receiver thread,    *)
(* timer processor, convergence-layer sender) and are serialised by the     *)
(* session's segment-map lock; each is one step here.  Two are not: the     *)
(* segmentation of the block, which interleaves with the others segment by  *)
(* segment, and the convergence layer, which releases a segment's lock      *)
(* between encoding it and starting its timer.                              *)
(***************************************************************************)
EXTENDS LTPSegments, Sequences

CONSTANTS
    Intermediate,   \* segments sent as discretionary checkpoints (bytes_per_checkpoint)
    RetranRetries,  \* retran_retries: resends before a session is cancelled
    UseFilesXmit    \* use_files_xmit: segments are read back from a file to be sent

ASSUME SenderAssumption ==
    /\ Intermediate \subseteq Segs
    /\ RetranRetries \in Nat
    /\ UseFilesXmit \in BOOLEAN

VARIABLES
    sState,         \* DS, CS: in send_sessions_; CLOSED, CANCELLED: in the
                    \* closed-session map; GONE: removed from that map too
    stopping,       \* start_shutting_down_
    produced,       \* segments process_bundles has cut so far
    red,            \* red_segments_: produced, not yet claimed, not deleted
    ckptId,         \* checkpoint id of each segment, 0 when it is none
    rptSerial,      \* report serial number carried by a checkpoint
    checkpoints,    \* checkpoints_: id -> stop byte, or ClaimedCkpt
    highQ, lowQ,    \* the convergence layer's data segment queues
    unreadable,     \* segments dropped from the queues by a read error
    inHand,         \* the segment LTPUDPSender::run has encoded and not yet sent
    dsTimer,        \* segments whose retransmission timer is running
    dsRetries,      \* retransmissions of each segment
    sCsRetries,     \* retransmissions of the cancel segment
    outcome         \* what the bundle daemon was told about the bundles

queueVars == <<highQ, lowQ, unreadable, inHand>>
ckptVars == <<ckptId, rptSerial>>
senderVars == <<sState, stopping, produced, red, ckptVars, checkpoints, queueVars,
                dsTimer, dsRetries, sCsRetries, outcome>>

Unknown == -1
ClaimedCkpt == -99
Stops == Segs \cup {ClaimedCkpt}

(* A queue entry (MySendObject) holds the timer the engine passed with the  *)
(* segment: none, the segment's own current timer, or a stale one that      *)
(* Renew_Retransmission_Timer has replaced since.                           *)
Entry == [seg : Segs, timer : {"none", "own", "stale"}]
Encoded == [seg : Segs, timer : {"none", "own", "stale"}, ckpt : Nat, serial : Serials]
Idle == [timer |-> "idle"]

SenderOpen == sState \in {"DS", "CS"}
EOBDefined == produced = NSeg

(* Queued_To_Send: set when a segment enters a queue, cleared when it has   *)
(* been encoded; a read error leaves it set.                                *)
InQueue(q) == {q[i].seg : i \in DOMAIN q}
Queued == InQueue(highQ) \cup InQueue(lowQ) \cup unreadable

SenderTypeOK ==
    /\ sState \in {"DS", "CS", "CLOSED", "CANCELLED", "GONE"}
    /\ stopping \in BOOLEAN
    /\ produced \in 0 .. NSeg
    /\ red \subseteq Segs
    /\ ckptId \in [Segs -> Nat]
    /\ rptSerial \in [Segs -> Serials]
    /\ checkpoints \in Seq(Stops)
    /\ highQ \in Seq(Entry) /\ lowQ \in Seq(Entry)
    /\ unreadable \subseteq Segs
    /\ inHand \in Encoded \cup {Idle}
    /\ dsTimer \subseteq Segs
    /\ dsRetries \in [Segs -> 0 .. RetranRetries]
    /\ sCsRetries \in 0 .. RetranRetries
    /\ outcome \in {"pending", "success", "failure", "expired"}

(* create_sender_session: the session exists and its bundles are loaded.    *)
SenderInit ==
    /\ sState = "DS"
    /\ stopping = FALSE
    /\ produced = 0
    /\ red = {}
    /\ ckptId = [s \in Segs |-> 0]
    /\ rptSerial = [s \in Segs |-> 0]
    /\ checkpoints = <<>>
    /\ highQ = <<>> /\ lowQ = <<>>
    /\ unreadable = {}
    /\ inHand = Idle
    /\ dsTimer = {}
    /\ dsRetries = [s \in Segs |-> 0]
    /\ sCsRetries = 0
    /\ outcome = "pending"

-----------------------------------------------------------------------------
(* Helpers shared by the handlers *)

(* RemoveSegments: every segment is marked deleted, its timer is cancelled, *)
(* and the checkpoint table is emptied.                                     *)
RemoveSegments ==
    /\ red' = {}
    /\ dsTimer' = {}
    /\ checkpoints' = <<>>

(* Find_Checkpoint_Stop_Byte *)
Find_Checkpoint_Stop_Byte(c) == IF c \in DOMAIN checkpoints THEN checkpoints[c] ELSE Unknown

(* PostTransmitProcessing pops the bundles off the session's list, so a     *)
(* bundle is reported by the first handler that gets there.                 *)
PostTransmitProcessing(result) ==
    outcome' = IF outcome = "pending" THEN result ELSE outcome

(* process_bundles holds the lock of the bundle list from its start until   *)
(* it has cut the whole block; a handler that must pop that list waits.     *)
BundleListFree == produced \in {0, NSeg}

(* cleanup_sender_session on a completed session. *)
SessionCompleted ==
    /\ RemoveSegments
    /\ PostTransmitProcessing("success")
    /\ sState' = "CLOSED"

(* Mutant: the cancelled session's bundles are not reported. *)
CancelBySender_Silent ==
    /\ sState = "DS"
    /\ BundleListFree
    /\ RemoveSegments
    /\ UNCHANGED outcome
    /\ sState' = "CS"
    /\ sCsRetries' = 0
    /\ Send(CS_BS)

(* build_CS_segment(session, CS_BS) on a session that is not cancelled yet. *)
CancelBySender ==
    /\ sState = "DS"
    /\ BundleListFree
    /\ RemoveSegments
    /\ PostTransmitProcessing("failure")
    /\ sState' = "CS"
    /\ sCsRetries' = 0
    /\ Send(CS_BS)

-----------------------------------------------------------------------------
(* The bundle processor *)

(* process_bundles, one data segment: the last one is the end of the block  *)
(* and a checkpoint, an intermediate one may be.  It does not start once    *)
(* the engine is shutting down.                                             *)
process_bundles ==
    /\ sState = "DS"
    /\ produced < NSeg
    /\ produced = 0 => ~stopping
    /\ red' = red \cup {produced}
    /\ produced' = produced + 1
    /\ IF produced \in Intermediate \cup {NSeg - 1}
       THEN /\ ckptId' = [ckptId EXCEPT ![produced] = Len(checkpoints) + 1]
            /\ checkpoints' = Append(checkpoints, produced)
            /\ lowQ' = Append(lowQ, [seg |-> produced, timer |-> "own"])
       ELSE /\ lowQ' = Append(lowQ, [seg |-> produced, timer |-> "none"])
            /\ UNCHANGED <<ckptId, checkpoints>>
    /\ UNCHANGED <<net, sState, stopping, rptSerial, highQ, unreadable, inHand, dsTimer,
                   dsRetries, sCsRetries, outcome>>

(* process_bundles when remove_expired_bundles leaves no bundle: the        *)
(* session closes before it has sent anything.                              *)
AbortExpired ==
    /\ sState = "DS"
    /\ produced = 0
    /\ ~stopping
    /\ sState' = "CANCELLED"
    /\ outcome' = "expired"
    /\ UNCHANGED <<net, stopping, produced, red, ckptVars, checkpoints, queueVars, dsTimer,
                   dsRetries, sCsRetries>>

-----------------------------------------------------------------------------
(* The convergence layer: LTPUDPSender::run *)

(* The next data segment leaves its queue, resends first.  It is encoded    *)
(* under its lock, dropped if it was deleted meanwhile, or lost to a read   *)
(* error.  LTPEngine::force_cancel_by_sender, which is called then, looks   *)
(* the session's own engine id up among the remote engines, finds none and  *)
(* changes nothing.                                                         *)
Dequeue ==
    LET entry == Head(highQ \o lowQ)
        s == entry.seg
    IN  /\ inHand = Idle
        /\ highQ \o lowQ # <<>>
        /\ highQ' = IF highQ = <<>> THEN highQ ELSE Tail(highQ)
        /\ lowQ' = IF highQ = <<>> THEN Tail(lowQ) ELSE lowQ
        /\ \/ /\ s \notin red
              /\ UNCHANGED <<inHand, unreadable>>
           \/ /\ s \in red
              /\ inHand' = [seg |-> s, timer |-> entry.timer, ckpt |-> ckptId[s],
                            serial |-> rptSerial[s]]
              /\ UNCHANGED unreadable
           \/ /\ s \in red
              /\ UseFilesXmit
              /\ unreadable' = unreadable \cup {s}
              /\ UNCHANGED inHand
        /\ UNCHANGED <<net, sState, stopping, produced, red, ckptVars, checkpoints, dsTimer,
                       dsRetries, sCsRetries, outcome>>

(* Its lock released, the segment's timer is started and it is sent.  The   *)
(* timer is the one in the queue entry or, "in case the segment was changed *)
(* to a Checkpoint while it was queued", the segment's own.  Starting a     *)
(* stale or deleted timer does nothing; SharedTimerSystem::schedule_at      *)
(* panics on the entry's timer if it is running already.                    *)
WouldPanic == inHand # Idle /\ inHand.timer = "own" /\ inHand.seg \in dsTimer

(* Mutant: the segment is sent and its timer forgotten. *)
Transmit_NoTimer ==
    /\ inHand # Idle
    /\ Send([type |-> "DS", seg |-> inHand.seg, ckpt |-> inHand.ckpt,
             serial |-> inHand.serial])
    /\ inHand' = Idle
    /\ UNCHANGED <<sState, stopping, produced, red, ckptVars, checkpoints, highQ, lowQ,
                   unreadable, dsTimer, dsRetries, sCsRetries, outcome>>

Transmit ==
    LET s == inHand.seg
        starts == s \in red /\ inHand.timer # "stale" /\ ckptId[s] # 0
    IN  /\ inHand # Idle
        /\ ~WouldPanic
        /\ dsTimer' = IF starts THEN dsTimer \cup {s} ELSE dsTimer
        /\ Send([type |-> "DS", seg |-> s, ckpt |-> inHand.ckpt, serial |-> inHand.serial])
        /\ inHand' = Idle
        /\ UNCHANGED <<sState, stopping, produced, red, ckptVars, checkpoints, highQ, lowQ,
                       unreadable, dsRetries, sCsRetries, outcome>>

-----------------------------------------------------------------------------
(* Segments from the receiver *)

(* Mutants: other checkpoints are addressed too; gaps count as claimed. *)
Addressed_AnyCheckpoint(m) == {s \in red : m.lower <= s /\ s < m.upper}
ClaimedBy_Bounds(m) == {s \in red : m.lower <= s /\ s < m.upper /\ ckptId[s] \in {0, m.ckpt}}

(* RemoveClaimedSegments over all the claims of report m: of the segments   *)
(* in the report's bounds, those claimed leave red_segments_ and the others *)
(* are retransmitted.  Another checkpoint is left to its own report.        *)
Addressed(m) == {s \in red : m.lower <= s /\ s < m.upper /\ ckptId[s] \in {0, m.ckpt}}
ClaimedBy(m) == Addressed(m) \cap m.claims
MissingFrom(m) == Addressed(m) \ m.claims

(* Mutant: what is resent asks for no report. *)
Send_Remaining_Segments_NoCheckpoint(m, flagged) ==
    /\ checkpoints' = flagged
    /\ UNCHANGED <<ckptVars, highQ>>

(* Send_Remaining_Segments: the last of the missing segments becomes a new  *)
(* checkpoint that carries the report's serial number, and those that are   *)
(* not queued already are, in order.                                        *)
Send_Remaining_Segments(m, flagged) ==
    \/ /\ MissingFrom(m) = {} \/ stopping
       /\ checkpoints' = flagged
       /\ UNCHANGED <<ckptVars, highQ>>
    \/ /\ ~stopping
       /\ \E last \in MissingFrom(m) :
          LET resend == MissingFrom(m) \ Queued
          IN  /\ \A s \in MissingFrom(m) : s <= last
              /\ ckptId' = [ckptId EXCEPT ![last] = Len(flagged) + 1]
              /\ rptSerial' = [rptSerial EXCEPT ![last] = m.serial]
              /\ checkpoints' = Append(flagged, last)
              /\ \E q \in [1 .. Cardinality(resend) -> resend] :
                  /\ \A i, j \in DOMAIN q : i < j => q[i] < q[j]
                  /\ highQ' = highQ \o [i \in DOMAIN q |->
                        [seg |-> q[i], timer |-> IF q[i] = last THEN "own" ELSE "none"]]

(* Mutant: the bounds of the report are taken for its claims. *)
ReportIsFull_ByBounds(m) == EOBDefined /\ m.lower = 0 /\ m.upper = NSeg

(* process_RS on an open session: a report of the whole block completes it; *)
(* a report for a checkpoint that is unknown or already claimed is only     *)
(* acknowledged; any other is applied.                                      *)
ReportIsFull(m) == EOBDefined /\ m.lower = 0 /\ m.claims = Segs

Flag_Checkpoint_As_Claimed(m) ==
    IF Find_Checkpoint_Stop_Byte(m.ckpt) + 1 = m.upper
    THEN [checkpoints EXCEPT ![m.ckpt] = ClaimedCkpt]
    ELSE checkpoints

ApplyReport(m) ==
    \/ /\ Find_Checkpoint_Stop_Byte(m.ckpt) < 0
       /\ UNCHANGED <<sState, red, ckptVars, checkpoints, highQ, dsTimer, outcome>>
    \/ /\ Find_Checkpoint_Stop_Byte(m.ckpt) >= 0
       /\ EOBDefined /\ red = ClaimedBy(m)
       /\ SessionCompleted
       /\ UNCHANGED <<ckptVars, highQ>>
    \/ /\ Find_Checkpoint_Stop_Byte(m.ckpt) >= 0
       /\ ~(EOBDefined /\ red = ClaimedBy(m))
       /\ red' = red \ ClaimedBy(m)
       /\ dsTimer' = dsTimer \ ClaimedBy(m)
       /\ Send_Remaining_Segments(m, Flag_Checkpoint_As_Claimed(m))
       /\ UNCHANGED <<sState, outcome>>

process_RS(m) ==
    /\ UNCHANGED <<stopping, produced, lowQ, unreadable, inHand, dsRetries, sCsRetries>>
    /\ \/ /\ SenderOpen
          /\ Send(RAS(m.serial))
          /\ \/ /\ ReportIsFull(m)
                /\ SessionCompleted
                /\ UNCHANGED <<ckptVars, highQ>>
             \/ ~ReportIsFull(m) /\ ApplyReport(m)
       \/ /\ sState = "CLOSED"
          /\ Send(RAS(m.serial))
          /\ UNCHANGED <<sState, red, ckptVars, checkpoints, highQ, dsTimer, outcome>>
       \/ /\ sState = "CANCELLED"
          /\ Send(CS_BS)
          /\ UNCHANGED <<sState, red, ckptVars, checkpoints, highQ, dsTimer, outcome>>

(* process_CS: the receiver cancelled the session.  The bundles fail, and   *)
(* the cancel is acknowledged, unless the session's record is gone and      *)
(* lookup_engine cannot tell whose it was.                                  *)
process_CS ==
    /\ sState # "GONE"
    /\ Send(CAS_BR)
    /\ \/ /\ SenderOpen
          /\ BundleListFree
          /\ RemoveSegments
          /\ PostTransmitProcessing("failure")
          /\ sState' = "CANCELLED"
       \/ /\ ~SenderOpen
          /\ UNCHANGED <<red, dsTimer, checkpoints, outcome, sState>>
    /\ UNCHANGED <<stopping, produced, ckptVars, queueVars, dsRetries, sCsRetries>>

(* process_CAS: the receiver acknowledged the cancel; the session closes.   *)
(* The bundles are not reported here: build_CS_segment did it.              *)
process_CAS ==
    /\ SenderOpen
    /\ sState' = "CANCELLED"
    /\ UNCHANGED <<net, stopping, produced, red, ckptVars, checkpoints, queueVars, dsTimer,
                   dsRetries, sCsRetries, outcome>>

-----------------------------------------------------------------------------
(* Timers and shutdown *)

(* Renew_Retransmission_Timer: the segment has a new timer, not started, so *)
(* an entry that carried the old one now carries a stale one.               *)
Superseded(e, s) == IF e.timer = "own" /\ e.seg = s THEN [e EXCEPT !.timer = "stale"] ELSE e
SupersededIn(q, s) == [i \in DOMAIN q |-> Superseded(q[i], s)]

Renew_Retransmission_Timer(s) ==
    /\ dsTimer' = dsTimer \ {s}
    /\ lowQ' = SupersededIn(lowQ, s)
    /\ inHand' = Superseded(inHand, s)

(* data_seg_timeout: resend an unclaimed checkpoint, or give up on it and   *)
(* cancel the session.  A segment still queued just gets a new timer.       *)
data_seg_timeout(s) ==
    /\ s \in dsTimer
    /\ sState = "DS"
    /\ UNCHANGED <<stopping, produced, ckptVars, unreadable>>
    /\ \/ /\ s \in Queued
          /\ Renew_Retransmission_Timer(s)
          /\ highQ' = SupersededIn(highQ, s)
          /\ UNCHANGED <<net, sState, red, checkpoints, dsRetries, sCsRetries, outcome>>
       \/ /\ s \notin Queued
          /\ dsRetries[s] < RetranRetries
          /\ dsRetries' = [dsRetries EXCEPT ![s] = @ + 1]
          /\ Renew_Retransmission_Timer(s)
          /\ highQ' = Append(highQ, [seg |-> s, timer |-> "own"])
          /\ UNCHANGED <<net, sState, red, checkpoints, sCsRetries, outcome>>
       \/ /\ s \notin Queued
          /\ dsRetries[s] = RetranRetries
          /\ CancelBySender
          /\ UNCHANGED <<highQ, lowQ, inHand, dsRetries>>

(* Sender::cancel_seg_timeout: resend the cancel segment or close anyway.   *)
Sender_cancel_seg_timeout ==
    /\ sState = "CS"
    /\ \/ /\ sCsRetries < RetranRetries
          /\ sCsRetries' = sCsRetries + 1
          /\ Send(CS_BS)
          /\ UNCHANGED sState
       \/ /\ sCsRetries = RetranRetries
          /\ sState' = "CANCELLED"
          /\ UNCHANGED <<net, sCsRetries>>
    /\ UNCHANGED <<stopping, produced, red, ckptVars, checkpoints, queueVars, dsTimer,
                   dsRetries, outcome>>

(* Sender::start_shutdown sets the flag, then cancels every session. *)
Sender_start_shutdown ==
    /\ ~stopping
    /\ stopping' = TRUE
    /\ UNCHANGED <<net, sState, produced, red, ckptVars, checkpoints, queueVars, dsTimer,
                   dsRetries, sCsRetries, outcome>>

Sender_cancel_all_sessions ==
    /\ stopping
    /\ CancelBySender
    /\ UNCHANGED <<stopping, produced, ckptVars, queueVars, dsRetries>>

(* Sender::RSIF_closeout_timer_triggered: the record of the closed session  *)
(* is dropped.                                                              *)
Sender_closeout_timer_triggered ==
    /\ sState \in {"CLOSED", "CANCELLED"}
    /\ sState' = "GONE"
    /\ UNCHANGED <<net, stopping, produced, red, ckptVars, checkpoints, queueVars, dsTimer,
                   dsRetries, sCsRetries, outcome>>
=============================================================================
