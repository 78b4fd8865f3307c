----------------------------- MODULE LTPReceiver -----------------------------
(***************************************************************************)
(* The receiving half of one LTP session: LTPNode::Receiver, the LTPSession *)
(* it keeps in incoming_sessions_ and the closed_session_map_.  One action  *)
(* per handler; a handler is one step.                                      *)
(***************************************************************************)
EXTENDS LTPSegments, FiniteSetsExt

CONSTANTS
    RcvRetries,         \* retran_retries at the receiver
    ClaimsPerReport     \* claims that fill one report segment (seg_size)

ASSUME ReceiverAssumption ==
    RcvRetries \in Nat /\ ClaimsPerReport \in Nat \ {0}

VARIABLES
    rState,         \* NONE: unknown; DS, RS, CS: in incoming_sessions_;
                    \* CLOSED: in closed_session_map_
    closedSize,     \* the size in closed_session_map_; 0 means cancelled
    got,            \* segments received (red_contig_blocks_)
    processed,      \* red_processed_: the block went to the bundle processor
    reports,        \* report_segments_: reports not acknowledged yet
    lastSerial,     \* report_serial_number_
    ckptSeen,       \* ds_offset_to_upperbounds_: where checkpoints were received
    inact,          \* inactivity_timer_: none, running, or stale (it fired and
                    \* was ignored, and the pointer is still set)
    rCsRetries,     \* retransmissions of the cancel segment
    deliveries,     \* deliveries while the session or its closed record lasts
    delivered       \* whether the block was ever delivered

receiverVars == <<rState, closedSize, got, processed, reports, lastSerial, ckptSeen,
                  inact, rCsRetries, deliveries, delivered>>

Report == [serial : Serials, ckpt : Nat, lower : 0 .. NSeg, upper : 0 .. NSeg,
           claims : SUBSET Segs, retries : 0 .. RcvRetries]

ReceiverOpen == rState \in {"DS", "RS", "CS"}

ReceiverTypeOK ==
    /\ rState \in {"NONE", "DS", "RS", "CS", "CLOSED"}
    /\ closedSize \in 0 .. NSeg
    /\ got \subseteq Segs
    /\ processed \in BOOLEAN
    /\ reports \subseteq Report
    /\ lastSerial \in Serials
    /\ ckptSeen \subseteq Segs
    /\ inact \in {"none", "running", "stale"}
    /\ rCsRetries \in 0 .. RcvRetries
    /\ deliveries \in Nat
    /\ delivered \in BOOLEAN

ReceiverInit ==
    /\ rState = "NONE"
    /\ closedSize = 0
    /\ got = {}
    /\ processed = FALSE
    /\ reports = {}
    /\ lastSerial = 0
    /\ ckptSeen = {}
    /\ inact = "none"
    /\ rCsRetries = 0
    /\ deliveries = 0
    /\ delivered = FALSE

-----------------------------------------------------------------------------
(* Reports *)

NewReport(serial, ckpt, lower, upper, claims) ==
    [serial |-> serial, ckpt |-> ckpt, lower |-> lower, upper |-> upper,
     claims |-> claims, retries |-> 0]

(* GenerateReportSegments: one report of the whole block, or of everything  *)
(* up to the checkpoint, or as many as it takes to list the claims between  *)
(* the bounds, ClaimsPerReport contiguous claims to a report.  A report     *)
(* ends where its last claim ends and the next one starts there.            *)
GenerateReportSegments(ckpt, lower, upper, have) ==
    LET in == have \cap (lower .. upper - 1)
        Part(i) == Cardinality({e \in in : e < i /\ e + 1 \notin in}) \div ClaimsPerReport
        Parts == {Part(i) : i \in in}
        Claims(k) == {i \in in : Part(i) = k}
        Before(k) == {i \in in : Part(i) < k}
        Lower(k) == IF Before(k) = {} THEN lower ELSE Max(Before(k)) + 1
    IN  IF have = Segs
        THEN {NewReport(lastSerial + 1, ckpt, 0, NSeg, Segs)}
        ELSE IF 0 .. upper - 1 \subseteq have
        THEN {NewReport(lastSerial + 1, ckpt, 0, upper, 0 .. upper - 1)}
        ELSE {NewReport(lastSerial + 1 + k, ckpt, Lower(k), Max(Claims(k)) + 1, Claims(k)) :
                 k \in Parts}

(* HaveReportSegmentsToSend: the reports to add for checkpoint segment m.   *)
(* None when the first stored report that matches is for this checkpoint;   *)
(* otherwise new ones, from the bounds of the report m answers or from the  *)
(* end of the checkpoint received before this offset.                       *)
HaveReportSegmentsToSend(m, have) ==
    LET matches == {r \in reports : r.ckpt = m.ckpt \/ r.serial = m.serial}
        first == CHOOSE r \in matches : \A q \in matches : r.serial <= q.serial
        before == {o \in ckptSeen : o < m.seg}
        lower == IF matches # {} THEN first.lower
                 ELSE IF before = {} THEN 0
                 ELSE Max(before) + 1
    IN  IF matches # {} /\ first.ckpt = m.ckpt
        THEN {}
        ELSE GenerateReportSegments(m.ckpt, lower, m.seg + 1, have)

AsSegment(r) == [type |-> "RS", serial |-> r.serial, ckpt |-> r.ckpt,
                 lower |-> r.lower, upper |-> r.upper, claims |-> r.claims]

(* generate_RS: send, or send again, every report for this checkpoint.      *)
generate_RS(m, have) ==
    LET new == HaveReportSegmentsToSend(m, have)
    IN  /\ lastSerial + Cardinality(new) <= MaxSerial
        /\ reports' = reports \cup new
        /\ lastSerial' = lastSerial + Cardinality(new)
        /\ ckptSeen' = ckptSeen \cup {m.seg}
        /\ net' = net \cup {AsSegment(r) : r \in {q \in reports \cup new : q.ckpt = m.ckpt}}
        /\ rState' = "RS"

NoReport ==
    /\ rState' = "DS"
    /\ UNCHANGED <<net, reports, lastSerial, ckptSeen>>

StartInactivityTimerIfNone == inact' = IF inact = "none" THEN "running" ELSE inact

-----------------------------------------------------------------------------
(* Helpers shared by the handlers *)

(* erase_incoming_session: the session leaves its size behind, 0 when it    *)
(* was cancelled; what the session held goes with it.                       *)
erase_incoming_session(cancelled) ==
    /\ rState' = "CLOSED"
    /\ closedSize' = IF cancelled THEN 0 ELSE Cardinality(got)
    /\ got' = {} /\ processed' = FALSE /\ reports' = {} /\ ckptSeen' = {}
    /\ inact' = "none" /\ rCsRetries' = 0

(* build_CS_segment(session, CS_BR) on a session that is not cancelled yet. *)
CancelByReceiver ==
    /\ rState' = "CS"
    /\ rCsRetries' = 0
    /\ Send(CS_BR)

-----------------------------------------------------------------------------
(* Segments from the sender *)

(* A data segment of a session that is closed: repeat the cancel, or answer *)
(* a checkpoint with a report of the closed size.  That report carries a    *)
(* serial number of its own (0 here) and no timer.                          *)
DataSegmentAfterClose(m) ==
    /\ rState = "CLOSED"
    /\ \/ /\ closedSize = 0
          /\ Send(CS_BR)
       \/ /\ closedSize # 0 /\ m.ckpt # 0
          /\ Send([type |-> "RS", serial |-> 0, ckpt |-> m.ckpt, lower |-> 0,
                   upper |-> closedSize, claims |-> 0 .. closedSize - 1])
    /\ UNCHANGED receiverVars

(* process_incoming_data_segment on data the session already has. *)
DuplicateDataSegment(m) ==
    /\ rState \in {"DS", "RS"}
    /\ processed \/ m.seg \in got
    /\ StartInactivityTimerIfNone
    /\ IF m.ckpt # 0 THEN generate_RS(m, got) ELSE NoReport
    /\ UNCHANGED <<closedSize, got, processed, rCsRetries, deliveries, delivered>>

(* process_incoming_data_segment on new data that leaves the block          *)
(* incomplete; the first one creates the session.                           *)
NewDataSegment(m) ==
    /\ rState \in {"NONE", "DS", "RS"}
    /\ ~processed /\ m.seg \notin got
    /\ got \cup {m.seg} # Segs
    /\ got' = got \cup {m.seg}
    /\ StartInactivityTimerIfNone
    /\ IF m.ckpt # 0 THEN generate_RS(m, got \cup {m.seg}) ELSE NoReport
    /\ UNCHANGED <<closedSize, processed, rCsRetries, deliveries, delivered>>

(* Mutant: a duplicate of a segment of the complete block delivers it again. *)
DeliverBlock_Duplicate(m) ==
    /\ rState \in {"NONE", "DS", "RS"}
    /\ got \cup {m.seg} = Segs
    /\ got' = Segs
    /\ StartInactivityTimerIfNone
    /\ IF m.ckpt # 0 THEN generate_RS(m, Segs) ELSE NoReport
    /\ processed' = TRUE
    /\ deliveries' = deliveries + 1
    /\ delivered' = TRUE
    /\ UNCHANGED <<closedSize, rCsRetries>>

(* process_incoming_data_segment on the segment that completes the block,   *)
(* with storage space reserved for it: report, then hand the block over.    *)
DeliverBlock(m) ==
    /\ rState \in {"NONE", "DS", "RS"}
    /\ ~processed /\ m.seg \notin got
    /\ got \cup {m.seg} = Segs
    /\ got' = Segs
    /\ StartInactivityTimerIfNone
    /\ IF m.ckpt # 0 THEN generate_RS(m, Segs) ELSE NoReport
    /\ processed' = TRUE
    /\ deliveries' = deliveries + 1
    /\ delivered' = TRUE
    /\ UNCHANGED <<closedSize, rCsRetries>>

(* The same segment when the bundle queue or the payload quota is full: the *)
(* session is cancelled, and no report is sent.                             *)
RejectBlock(m) ==
    /\ rState \in {"NONE", "DS", "RS"}
    /\ ~processed /\ m.seg \notin got
    /\ got \cup {m.seg} = Segs
    /\ got' = Segs
    /\ StartInactivityTimerIfNone
    /\ CancelByReceiver
    /\ UNCHANGED <<closedSize, processed, reports, lastSerial, ckptSeen, deliveries,
                   delivered>>

process_incoming_data_segment(m) ==
    \/ DuplicateDataSegment(m)
    \/ NewDataSegment(m)
    \/ DeliverBlock(m)
    \/ RejectBlock(m)

(* A report acknowledgment drops the report; once the block is delivered    *)
(* it closes the session, whichever report it acknowledges.                 *)
process_RAS(m) ==
    /\ rState \in {"DS", "RS"}
    /\ IF processed
       THEN erase_incoming_session(FALSE)
       ELSE /\ reports' = {r \in reports : r.serial # m.serial}
            /\ rState' = "DS"
            /\ StartInactivityTimerIfNone
            /\ UNCHANGED <<closedSize, got, processed, ckptSeen, rCsRetries>>
    /\ UNCHANGED <<net, lastSerial, deliveries, delivered>>

(* A cancel by the sender is acknowledged in every state, and closes an     *)
(* open session.                                                            *)
process_CS_BS ==
    /\ Send(CAS_BS)
    /\ IF ReceiverOpen
       THEN erase_incoming_session(TRUE)
       ELSE UNCHANGED <<rState, closedSize, got, processed, reports, ckptSeen, inact,
                        rCsRetries>>
    /\ UNCHANGED <<lastSerial, deliveries, delivered>>

(* The sender's acknowledgment of a cancel closes the session, even one     *)
(* that is not being cancelled.                                             *)
process_CAS_BR ==
    /\ ReceiverOpen
    /\ erase_incoming_session(rState = "CS")
    /\ UNCHANGED <<net, lastSerial, deliveries, delivered>>

-----------------------------------------------------------------------------
(* Timers *)

(* RSIF_inactivity_timer_triggered: a session waiting for data is           *)
(* cancelled; in any other state the timeout is ignored and not restarted,  *)
(* and inactivity_timer_ still points at the timer that fired.              *)
Receiver_inactivity_timer_triggered ==
    /\ inact = "running"
    /\ \/ /\ rState = "DS"
          /\ reports' = {}
          /\ inact' = "none"
          /\ CancelByReceiver
       \/ /\ rState \in {"RS", "CS"}
          /\ inact' = "stale"
          /\ UNCHANGED <<net, rState, reports, rCsRetries>>
    /\ UNCHANGED <<closedSize, got, processed, lastSerial, ckptSeen, deliveries, delivered>>

(* report_seg_timeout: resend the report; when the retries are exhausted a  *)
(* delivered session closes and any other is cancelled.                     *)
report_seg_timeout(r) ==
    /\ r \in reports
    /\ rState \in {"DS", "RS"}
    /\ \/ /\ r.retries < RcvRetries
          /\ reports' = (reports \ {r}) \cup {[r EXCEPT !.retries = @ + 1]}
          /\ Send(AsSegment(r))
          /\ UNCHANGED <<rState, closedSize, got, processed, ckptSeen, inact, rCsRetries>>
       \/ /\ r.retries = RcvRetries
          /\ processed
          /\ erase_incoming_session(FALSE)
          /\ UNCHANGED net
       \/ /\ r.retries = RcvRetries
          /\ ~processed
          /\ CancelByReceiver
          /\ UNCHANGED <<closedSize, got, processed, reports, ckptSeen, inact>>
    /\ UNCHANGED <<lastSerial, deliveries, delivered>>

(* Receiver::cancel_seg_timeout: resend the cancel segment or close anyway. *)
Receiver_cancel_seg_timeout ==
    /\ rState = "CS"
    /\ IF rCsRetries < RcvRetries
       THEN /\ rCsRetries' = rCsRetries + 1
            /\ Send(CS_BR)
            /\ UNCHANGED <<rState, closedSize, got, processed, reports, ckptSeen, inact>>
       ELSE /\ erase_incoming_session(TRUE)
            /\ UNCHANGED net
    /\ UNCHANGED <<lastSerial, deliveries, delivered>>

(* Receiver::cancel_all_sessions, at shutdown. *)
Receiver_cancel_all_sessions ==
    /\ rState \in {"DS", "RS"}
    /\ CancelByReceiver
    /\ UNCHANGED <<closedSize, got, processed, reports, lastSerial, ckptSeen, inact,
                   deliveries, delivered>>

(* Receiver::RSIF_closeout_timer_triggered: the closed session is           *)
(* forgotten; a later data segment would create it anew.  A new session     *)
(* draws a new first serial number, so serials are not reused here.         *)
Receiver_closeout_timer_triggered ==
    /\ rState = "CLOSED"
    /\ rState' = "NONE"
    /\ closedSize' = 0
    /\ deliveries' = 0
    /\ UNCHANGED <<net, got, processed, reports, lastSerial, ckptSeen, inact, rCsRetries,
                   delivered>>
=============================================================================
