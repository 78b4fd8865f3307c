------------------------ MODULE LTPRefinementProofs -------------------------
(***************************************************************************)
(* LTPSession implements BlockTransfer, for every value of its constants    *)
(* but one: neither side forgets a closed session too early.  And, for      *)
(* every value of its constants, it never retransmits a checkpoint as plain *)
(* data.                                                                    *)
(***************************************************************************)
EXTENDS LTPSessionProofs

\* Leaves with arithmetic, records or sequences cite SMT, the others go to Zenon.
USE Zenon

(* The premise of the safety argument: neither side forgets a closed        *)
(* session while the other still has it open.                               *)
NoEarlyCloseout == EarlyCloseout = FALSE

-----------------------------------------------------------------------------
(* The inductive invariant.  While the sender waits for reports, whatever   *)
(* some report has claimed the receiver holds or has delivered.             *)

(* The bundles are unreported exactly while the session sends data, and a   *)
(* cancel or its acknowledgment is on the wire only after that.             *)
Reported ==
    /\ sState = "DS" <=> outcome = "pending"
    /\ sState = "DS" => CS_BS \notin net /\ CAS_BS \notin net /\ CAS_BR \notin net

(* What the receiver holds is consistent with its state. *)
Holdings ==
    /\ rState \in {"NONE", "CLOSED"} => got = {} /\ ~processed /\ reports = {}
    /\ processed => delivered /\ got = Segs
    /\ rState \in {"DS", "RS"} /\ got = Segs => processed
    /\ \A r \in reports : r.claims \subseteq got

(* Every claim on the wire is backed by the receiver. *)
ClaimsBacked ==
    sState = "DS" =>
        /\ rState = "NONE" => Sent("RS") = {}
        /\ ReceiverOpen => \A m \in Sent("RS") : m.claims \subseteq got
        /\ rState = "CLOSED" /\ closedSize # 0 => closedSize = NSeg /\ delivered
        /\ Segs \subseteq Claimed => delivered

(* The sender drops a segment only when some report has claimed it. *)
DroppedWereClaimed ==
    sState = "DS" => \A s \in Segs : s < produced /\ s \notin red => s \in Claimed

IInv == TypeOK /\ Reported /\ Holdings /\ ClaimsBacked /\ DroppedWereClaimed

-----------------------------------------------------------------------------
(* What the sender puts on the wire. *)
LEMMA SenderSends ==
    ASSUME TypeOK, SenderStep, UNCHANGED receiverVars
    PROVE  /\ net \subseteq net'
           /\ \A x \in net' \ net : x.type \in {"DS", "RAS", "CS_BS", "CAS_BR"}
           /\ sState' = "DS" => /\ sState = "DS"
                                /\ \A x \in net' \ net : x.type \in {"DS", "RAS"}
<1> USE DEF Send
<1>1. CASE process_bundles
  BY <1>1 DEF process_bundles
<1>2. CASE AbortExpired
  BY <1>2 DEF AbortExpired
<1>3. CASE Dequeue
  BY <1>3 DEF Dequeue
<1>4. CASE Transmit
  BY <1>4, SMT DEF Transmit
<1>5. CASE \E m \in Sent("RS") : process_RS(m)
  BY <1>5, SMT DEF process_RS, ApplyReport, SessionCompleted, RAS, CS_BS
<1>6. CASE Sent("CS_BR") # {} /\ process_CS
  BY <1>6, SMT DEF process_CS, CAS_BR, SenderOpen
<1>7. CASE Sent("CAS_BS") # {} /\ process_CAS
  BY <1>7 DEF process_CAS
<1>8. CASE \E s \in Segs : data_seg_timeout(s)
  BY <1>8, SMT DEF data_seg_timeout, CancelBySender, CS_BS
<1>9. CASE Sender_cancel_seg_timeout
  BY <1>9, SMT DEF Sender_cancel_seg_timeout, CS_BS
<1>10. CASE Sender_start_shutdown
  BY <1>10 DEF Sender_start_shutdown
<1>11. CASE Sender_cancel_all_sessions
  BY <1>11, SMT DEF Sender_cancel_all_sessions, CancelBySender, CS_BS
<1>12. CASE (EarlyCloseout \/ ~ReceiverOpen) /\ Sender_closeout_timer_triggered
  BY <1>12 DEF Sender_closeout_timer_triggered
<1> QED
  BY <1>1, <1>2, <1>3, <1>4, <1>5, <1>6, <1>7, <1>8, <1>9, <1>10, <1>11, <1>12 DEF SenderStep

(* The cancel segments carry nothing but their type. *)
LEMMA CancelSegments ==
    ASSUME net \subseteq Segment
    PROVE  /\ Sent("CS_BS") # {} => CS_BS \in net
           /\ Sent("CAS_BS") # {} => CAS_BS \in net
           /\ Sent("CAS_BR") # {} => CAS_BR \in net
<1> USE DEF Segment, DataSegment, ReportSegment, ReportAckSegment, CancelSegment, CancelAckSegment
<1>1. \A m \in net : m.type = "CS_BS" => m = CS_BS
  BY SMT DEF CS_BS
<1>2. \A m \in net : m.type = "CAS_BS" => m = CAS_BS
  BY SMT DEF CAS_BS
<1>3. \A m \in net : m.type = "CAS_BR" => m = CAS_BR
  BY SMT DEF CAS_BR
<1> QED BY <1>1, <1>2, <1>3 DEF Sent

-----------------------------------------------------------------------------
(* Steps of the sender *)

(* When the sender reports the bundles, the report it acts on and those     *)
(* before it have claimed the whole block.                                  *)
LEMMA CompletionIsClaimed ==
    ASSUME IInv, NEW m \in Sent("RS"), sState = "DS",
           ReportIsFull(m) \/ (EOBDefined /\ red = ClaimedBy(m))
    PROVE  Segs \subseteq Claimed
<1>1. m.claims \subseteq Claimed
  BY DEF Claimed
<1>2. CASE ReportIsFull(m)
  BY <1>1, <1>2 DEF ReportIsFull
<1>3. CASE EOBDefined /\ red = ClaimedBy(m)
  <2>1. \A s \in Segs : s < produced
    BY <1>3, SegmentsAssumption, SMT DEF EOBDefined, Segs
  <2>2. \A s \in red : s \in m.claims
    BY <1>3 DEF ClaimedBy
  <2> QED BY <2>1, <2>2, <1>1 DEF IInv, DroppedWereClaimed
<1> QED BY <1>2, <1>3

(* A step of the sender keeps the invariant and is a step of BlockTransfer: *)
(* success is reported only when every segment was claimed.                 *)
LEMMA SenderSafe ==
    ASSUME IInv, SenderStep, UNCHANGED receiverVars
    PROVE  IInv' /\ [BT!Next]_(BT!vars)
<1> USE DEF IInv
<1>1. TypeOK'
  BY SenderTypes
<1>2. /\ net \subseteq net'
      /\ \A x \in net' \ net : x.type \in {"DS", "RAS", "CS_BS", "CAS_BR"}
      /\ sState' = "DS" => sState = "DS" /\ \A x \in net' \ net : x.type \in {"DS", "RAS"}
  BY SenderSends
<1>3. Sent("RS")' = Sent("RS") /\ Claimed' = Claimed
  BY <1>2 DEF Sent, Claimed
<1>4. Holdings'
  BY DEF Holdings, receiverVars
<1>5. ClaimsBacked'
  BY <1>2, <1>3 DEF ClaimsBacked, receiverVars, ReceiverOpen
<1>6. sState' = "DS" => CS_BS \notin net' /\ CAS_BS \notin net' /\ CAS_BR \notin net'
  BY <1>2 DEF Reported, CS_BS, CAS_BS, CAS_BR
<1>7. delivered' = delivered
  BY DEF receiverVars
<1> DEFINE Good == /\ sState' = "DS" <=> outcome' = "pending"
                   /\ DroppedWereClaimed'
                   /\ \/ outcome' = outcome
                      \/ outcome = "pending" /\ outcome' \in {"failure", "expired"}
                      \/ outcome = "pending" /\ outcome' = "success" /\ delivered
<1>8. ASSUME produced' = produced, red' = red, outcome' = outcome,
             sState' = sState \/ (sState # "DS" /\ sState' # "DS")
      PROVE  Good
  BY <1>3, <1>8 DEF Reported, DroppedWereClaimed
<1>9. ASSUME sState' # "DS", PostTransmitProcessing("failure")
      PROVE  Good
  BY <1>9 DEF PostTransmitProcessing, DroppedWereClaimed
<1>10. Good
  <2>1. CASE process_bundles
    <3>1. /\ sState' = sState /\ outcome' = outcome
          /\ produced' = produced + 1 /\ red' = red \cup {produced}
      BY <2>1 DEF process_bundles
    <3>2. \A s \in Segs : s < produced + 1 => s < produced \/ s = produced
      BY SMT DEF TypeOK, SenderTypeOK, Segs
    <3> QED BY <3>1, <3>2, <1>3 DEF Reported, DroppedWereClaimed
  <2>2. CASE AbortExpired
    BY <2>2 DEF AbortExpired, Reported, DroppedWereClaimed
  <2>3. CASE Dequeue
    BY <2>3, <1>8 DEF Dequeue
  <2>4. CASE Transmit
    BY <2>4, <1>8 DEF Transmit
  <2>5. CASE \E m \in Sent("RS") : process_RS(m)
    <3>1. PICK m \in Sent("RS") : process_RS(m)
      BY <2>5
    <3>2. CASE sState' = sState /\ red' = red /\ outcome' = outcome
      BY <3>1, <3>2, <1>8 DEF process_RS
    <3>3. CASE SessionCompleted /\ (ReportIsFull(m) \/ (EOBDefined /\ red = ClaimedBy(m)))
      <4>1. sState' = "CLOSED" /\ outcome' = IF outcome = "pending" THEN "success" ELSE outcome
        BY <3>3 DEF SessionCompleted, PostTransmitProcessing
      <4>2. outcome = "pending" => delivered
        BY <3>3, CompletionIsClaimed DEF Reported, ClaimsBacked
      <4> QED BY <4>1, <4>2 DEF DroppedWereClaimed
    <3>4. CASE red' = red \ ClaimedBy(m) /\ sState' = sState /\ outcome' = outcome
      <4>1. produced' = produced
        BY <3>1 DEF process_RS
      <4>2. ClaimedBy(m) \subseteq Claimed
        BY DEF ClaimedBy, Claimed
      <4> QED BY <4>1, <4>2, <3>4, <1>3 DEF Reported, DroppedWereClaimed
    <3> QED BY <3>1, <3>2, <3>3, <3>4 DEF process_RS, ApplyReport
  <2>6. CASE Sent("CS_BR") # {} /\ process_CS
    <3>1. CASE SenderOpen
      BY <2>6, <3>1, <1>9 DEF process_CS
    <3>2. CASE ~SenderOpen
      BY <2>6, <3>2, <1>8 DEF process_CS
    <3> QED BY <3>1, <3>2
  <2>7. CASE Sent("CAS_BS") # {} /\ process_CAS
    <3>1. sState # "DS"
      BY <2>7, CancelSegments DEF Reported, TypeOK
    <3> QED BY <3>1, <2>7, <1>8 DEF process_CAS
  <2>8. CASE \E s \in Segs : data_seg_timeout(s)
    BY <2>8, <1>8, <1>9 DEF data_seg_timeout, CancelBySender
  <2>9. CASE Sender_cancel_seg_timeout
    BY <2>9, <1>8 DEF Sender_cancel_seg_timeout
  <2>10. CASE Sender_start_shutdown
    BY <2>10, <1>8 DEF Sender_start_shutdown
  <2>11. CASE Sender_cancel_all_sessions
    BY <2>11, <1>9 DEF Sender_cancel_all_sessions, CancelBySender
  <2>12. CASE (EarlyCloseout \/ ~ReceiverOpen) /\ Sender_closeout_timer_triggered
    BY <2>12, <1>8 DEF Sender_closeout_timer_triggered
  <2> HIDE DEF Good
  <2> QED BY <2>1, <2>2, <2>3, <2>4, <2>5, <2>6, <2>7, <2>8, <2>9, <2>10, <2>11, <2>12
          DEF SenderStep
<1> QED BY <1>1, <1>4, <1>5, <1>6, <1>7, <1>10
        DEF Reported, BT!Next, BT!vars, BT!ReportSuccess, BT!ReportFailure

-----------------------------------------------------------------------------
(* Steps of the receiver *)

(* A step that leaves the session open keeps the claims backed if it drops  *)
(* no data and claims only what it has.                                     *)
LEMMA OpenSafe ==
    ASSUME IInv, UNCHANGED senderVars, Sent("RS") \subseteq Sent("RS")',
           rState # "CLOSED", rState' \in {"DS", "RS", "CS"},
           got \subseteq got', got' \subseteq Segs,
           \A r \in reports' : r.claims \subseteq got',
           \A x \in Sent("RS")' \ Sent("RS") : x.claims \subseteq got',
           processed' => delivered' /\ got' = Segs,
           rState' \in {"DS", "RS"} /\ got' = Segs => processed',
           delivered => delivered',
           rState' = "CS" => Sent("RS")' = Sent("RS")
    PROVE  Holdings' /\ ClaimsBacked'
<1>1. Holdings'
  BY DEF Holdings
<1>2. ASSUME sState = "DS" PROVE \A m \in Sent("RS")' : m.claims \subseteq got'
  <2>1. rState \in {"NONE", "DS", "RS", "CS"}
    BY DEF IInv, TypeOK, ReceiverTypeOK
  <2> QED BY <1>2, <2>1 DEF IInv, ClaimsBacked, ReceiverOpen
<1>3. ASSUME sState = "DS", (Segs \subseteq Claimed)' PROVE delivered'
  <2>1. CASE rState' = "CS"
    BY <1>3, <2>1 DEF IInv, ClaimsBacked, Claimed
  <2>2. CASE rState' \in {"DS", "RS"}
    <3>1. Segs \subseteq got'
      BY <1>2, <1>3 DEF Claimed
    <3> QED BY <2>2, <3>1
  <2> QED BY <2>1, <2>2
<1>4. sState' = sState
  BY DEF senderVars
<1> QED BY <1>1, <1>2, <1>3, <1>4 DEF ClaimsBacked, ReceiverOpen

(* Erasing the session keeps the claims backed if the size it leaves behind *)
(* is that of a delivered block.                                            *)
LEMMA EraseSafe ==
    ASSUME IInv, UNCHANGED senderVars, Sent("RS")' = Sent("RS"), delivered' = delivered,
           NEW c \in BOOLEAN, erase_incoming_session(c), sState = "DS" /\ ~c => processed
    PROVE  Holdings' /\ ClaimsBacked'
<1>1. /\ rState' = "CLOSED" /\ got' = {} /\ ~processed' /\ reports' = {}
      /\ closedSize' = IF c THEN 0 ELSE Cardinality(got)
  BY DEF erase_incoming_session
<1>2. sState' = sState /\ Claimed' = Claimed
  BY DEF senderVars, Claimed
<1>3. processed => delivered /\ Cardinality(got) = NSeg
  BY SegsFinite DEF IInv, Holdings
<1> QED BY <1>1, <1>2, <1>3 DEF IInv, Holdings, ClaimsBacked, ReceiverOpen

(* What process_incoming_data_segment claims, it holds. *)
LEMMA DataSafe ==
    ASSUME IInv, UNCHANGED senderVars, NEW m \in Sent("DS"), process_incoming_data_segment(m)
    PROVE  /\ Holdings' /\ ClaimsBacked'
           /\ net \subseteq net'
           /\ \A x \in net' \ net : x.type \in {"RS", "CS_BR"}
           /\ delivered' = delivered \/ delivered' = TRUE
<1> USE DEF IInv
<1>0. /\ m \in DataSegment /\ m.seg \in Segs /\ got \subseteq Segs
      /\ \A r \in reports : r.claims \subseteq got
  BY DEF Sent, Segment, DataSegment, ReportSegment, ReportAckSegment, CancelSegment,
         CancelAckSegment, TypeOK, ReceiverTypeOK, Holdings
<1>1. ASSUME NEW have \in SUBSET Segs, got \subseteq have,
             generate_RS(m, have) \/ NoReport
      PROVE  /\ net \subseteq net' /\ \A x \in net' \ net : x.type = "RS" /\ x.claims \subseteq have
             /\ \A r \in reports' : r.claims \subseteq have
             /\ rState' \in {"DS", "RS"}
             /\ Sent("RS") \subseteq Sent("RS")'
             /\ \A x \in Sent("RS")' \ Sent("RS") : x.claims \subseteq have
  <2>1. /\ net \subseteq net' /\ \A x \in net' \ net : x.type = "RS" /\ x.claims \subseteq have
        /\ \A r \in reports' : r.claims \subseteq have
        /\ rState' \in {"DS", "RS"}
    <3>1. CASE generate_RS(m, have)
      BY <3>1, <1>0, <1>1, GenerateRS DEF TypeOK
    <3>2. CASE NoReport
      BY <3>2, <1>0, <1>1 DEF NoReport
    <3> QED BY <1>1, <3>1, <3>2
  <2> QED BY <2>1 DEF Sent
<1>2. CASE DuplicateDataSegment(m)
  <2>1. generate_RS(m, got) \/ NoReport
    BY <1>2 DEF DuplicateDataSegment
  <2>2. /\ rState \in {"DS", "RS"} /\ got' = got /\ processed' = processed
        /\ delivered' = delivered
    BY <1>2 DEF DuplicateDataSegment
  <2>3. (processed => delivered /\ got = Segs) /\ (got = Segs => processed)
    BY <2>2 DEF Holdings
  <2> QED BY <2>1, <2>2, <2>3, <1>0, <1>1, OpenSafe
<1>3. CASE NewDataSegment(m)
  <2>1. generate_RS(m, got \cup {m.seg}) \/ NoReport
    BY <1>3 DEF NewDataSegment
  <2>2. /\ rState \in {"NONE", "DS", "RS"} /\ got' = got \cup {m.seg} /\ got' # Segs
        /\ ~processed' /\ delivered' = delivered
    BY <1>3 DEF NewDataSegment
  <2> QED BY Zenon, <2>1, <2>2, <1>0, <1>1, OpenSafe
<1>4. CASE DeliverBlock(m)
  <2>1. generate_RS(m, Segs) \/ NoReport
    BY <1>4 DEF DeliverBlock
  <2>2. rState \in {"NONE", "DS", "RS"} /\ got' = Segs /\ processed' /\ delivered'
    BY <1>4 DEF DeliverBlock
  <2> QED BY Zenon, <2>1, <2>2, <1>0, <1>1, OpenSafe
<1>5. CASE RejectBlock(m)
  <2>1. /\ rState \in {"NONE", "DS", "RS"} /\ got' = Segs /\ ~processed' /\ delivered' = delivered
        /\ reports' = reports /\ rState' = "CS" /\ net' = net \cup {CS_BR}
    BY <1>5 DEF RejectBlock, CancelByReceiver, Send
  <2>2. Sent("RS")' = Sent("RS")
    BY <2>1, SMT DEF Sent, CS_BR
  <2> QED BY <2>1, <2>2, <1>0, OpenSafe, SMT DEF CS_BR
<1> QED BY Zenon, <1>2, <1>3, <1>4, <1>5 DEF process_incoming_data_segment

(* A step of the receiver keeps the invariant and is a delivery or a        *)
(* stutter of BlockTransfer.                                                *)
LEMMA ReceiverSafe ==
    ASSUME NoEarlyCloseout, IInv, ReceiverStep, UNCHANGED senderVars
    PROVE  IInv' /\ [BT!Next]_(BT!vars)
<1> USE DEF IInv
<1> DEFINE Good == /\ Holdings' /\ ClaimsBacked'
                   /\ net \subseteq net'
                   /\ \A x \in net' \ net : x.type \in {"RS", "CS_BR"} \/
                                            (x.type = "CAS_BS" /\ sState # "DS")
                   /\ delivered' = delivered \/ delivered' = TRUE
<1>a. CS_BR.type = "CS_BR" /\ CAS_BS.type = "CAS_BS"
  BY DEF CS_BR, CAS_BS
<1>b. ASSUME net' \in {net, net \cup {CS_BR}, net \cup {CAS_BS}}
      PROVE  Sent("RS")' = Sent("RS") /\ net \subseteq net'
  BY <1>a, <1>b DEF Sent
<1>c. /\ got \subseteq Segs
      /\ \A r \in reports : r.claims \subseteq got
      /\ processed => delivered /\ got = Segs
      /\ rState \in {"DS", "RS"} /\ got = Segs => processed
  BY DEF TypeOK, ReceiverTypeOK, Holdings
<1>d. ASSUME ReceiverOpen, rState' \in {rState, "CS"} \/ (rState' = "DS" /\ rState # "CS"),
             UNCHANGED <<got, processed, delivered>>,
             reports' \subseteq reports, net' \in {net, net \cup {CS_BR}}
      PROVE  Good
  BY <1>a, <1>b, <1>c, <1>d, OpenSafe DEF ReceiverOpen
<1>1. Good
  <2>1. CASE \E m \in Sent("DS") : DataSegmentAfterClose(m)
    <3>1. PICK m \in Sent("DS") : DataSegmentAfterClose(m)
      BY <2>1
    <3>2. UNCHANGED receiverVars /\ rState = "CLOSED"
      BY <3>1 DEF DataSegmentAfterClose
    <3>3. Holdings' /\ delivered' = delivered
      BY <3>2 DEF Holdings, receiverVars
    <3>4. /\ net \subseteq net' /\ \A x \in net' \ net : x.type \in {"RS", "CS_BR"}
          /\ closedSize = 0 => net' = net \cup {CS_BR}
      BY <3>1, SMT DEF DataSegmentAfterClose, Send, CS_BR
    <3>5. ClaimsBacked'
      <4>1. closedSize = 0 => Sent("RS")' = Sent("RS") /\ Claimed' = Claimed
        BY <3>4, <1>b DEF Claimed
      <4>2. sState' = sState
        BY DEF senderVars
      <4> QED BY <3>2, <4>1, <4>2 DEF ClaimsBacked, receiverVars, ReceiverOpen
    <3> QED BY <3>3, <3>4, <3>5
  <2>2. CASE \E m \in Sent("DS") : process_incoming_data_segment(m)
    BY Zenon, <2>2, DataSafe
  <2>3. CASE \E m \in Sent("RAS") : process_RAS(m)
    <3>1. PICK m \in Sent("RAS") : process_RAS(m)
      BY <2>3
    <3>2. CASE processed
      BY Zenon, <3>1, <3>2, <1>b, EraseSafe DEF process_RAS
    <3>3. CASE ~processed
      BY <3>1, <3>3, <1>d DEF process_RAS, ReceiverOpen
    <3> QED BY Zenon, <3>2, <3>3
  <2>4. CASE Sent("CS_BS") # {} /\ process_CS_BS
    <3>1. sState # "DS"
      BY <2>4, CancelSegments DEF Reported, TypeOK
    <3>2. net' = net \cup {CAS_BS} /\ delivered' = delivered
      BY <2>4 DEF process_CS_BS, Send
    <3>3. Holdings' /\ ClaimsBacked'
      <4>1. CASE ReceiverOpen
        BY Zenon, <4>1, <2>4, <1>b, <3>1, <3>2, EraseSafe DEF process_CS_BS
      <4>2. CASE ~ReceiverOpen
        BY <4>2, <2>4, <3>1 DEF process_CS_BS, Holdings, ClaimsBacked, senderVars
      <4> QED BY <4>1, <4>2
    <3> QED BY <3>1, <3>2, <3>3, <1>a
  <2>5. CASE Sent("CAS_BR") # {} /\ process_CAS_BR
    <3>1. sState # "DS"
      BY <2>5, CancelSegments DEF Reported, TypeOK
    <3> QED BY Zenon, <3>1, <2>5, <1>b, EraseSafe DEF process_CAS_BR
  <2>6. CASE Receiver_inactivity_timer_triggered
    BY <2>6, <1>d DEF Receiver_inactivity_timer_triggered, CancelByReceiver, Send, ReceiverOpen
  <2>7. CASE \E r \in reports : report_seg_timeout(r)
    <3>1. PICK r \in reports : report_seg_timeout(r)
      BY <2>7
    <3>2. CASE erase_incoming_session(FALSE) /\ processed /\ net' = net
      BY Zenon, <3>1, <3>2, <1>b, EraseSafe DEF report_seg_timeout
    <3>3. CASE CancelByReceiver /\ UNCHANGED <<got, processed, reports>>
      BY <3>1, <3>3, <1>d DEF report_seg_timeout, CancelByReceiver, Send, ReceiverOpen
    <3>4. CASE /\ reports' = (reports \ {r}) \cup {[r EXCEPT !.retries = @ + 1]}
               /\ net' = net \cup {AsSegment(r)} /\ UNCHANGED <<rState, got, processed>>
      <4>1. r \in Report
        BY DEF TypeOK, ReceiverTypeOK
      <4>2. AsSegment(r).type = "RS" /\ AsSegment(r).claims = r.claims
        BY DEF AsSegment
      <4>3. [r EXCEPT !.retries = @ + 1].claims = r.claims
        BY <4>1 DEF Report
      <4>4. \A q \in reports' : q.claims \subseteq got'
        BY Zenon, <3>4, <4>3, <1>c
      <4>5. /\ Sent("RS") \subseteq Sent("RS")'
            /\ \A x \in Sent("RS")' \ Sent("RS") : x.claims \subseteq got'
        BY <3>4, <4>2, <1>c DEF Sent
      <4>6. rState \in {"DS", "RS"} /\ delivered' = delivered
        BY <3>1 DEF report_seg_timeout
      <4> QED BY <3>4, <4>2, <4>4, <4>5, <4>6, <1>c, OpenSafe
    <3> QED BY Zenon, <3>1, <3>2, <3>3, <3>4 DEF report_seg_timeout, Send
  <2>8. CASE Receiver_cancel_seg_timeout
    <3>1. CASE rCsRetries < RcvRetries
      BY <3>1, <2>8, <1>d DEF Receiver_cancel_seg_timeout, Send, ReceiverOpen
    <3>2. CASE ~(rCsRetries < RcvRetries)
      BY Zenon, <3>2, <2>8, <1>b, EraseSafe DEF Receiver_cancel_seg_timeout
    <3> QED BY Zenon, <3>1, <3>2
  <2>9. CASE Receiver_cancel_all_sessions
    BY <2>9, <1>d DEF Receiver_cancel_all_sessions, CancelByReceiver, Send, ReceiverOpen
  <2>10. CASE (EarlyCloseout \/ ~SenderOpen) /\ Receiver_closeout_timer_triggered
    <3>1. sState # "DS"
      BY <2>10 DEF NoEarlyCloseout, SenderOpen
    <3> QED BY <2>10, <3>1 DEF Receiver_closeout_timer_triggered, Holdings, ClaimsBacked,
               senderVars
  <2> HIDE DEF Good
  <2> QED BY <2>1, <2>2, <2>3, <2>4, <2>5, <2>6, <2>7, <2>8, <2>9, <2>10 DEF ReceiverStep
<1>2. TypeOK'
  BY ReceiverTypes
<1>3. UNCHANGED <<sState, outcome, produced, red>>
  BY DEF senderVars
<1>4. Reported'
  BY <1>1, <1>3 DEF Reported, CS_BS, CAS_BS, CAS_BR
<1>5. DroppedWereClaimed'
  <2>1. Claimed \subseteq Claimed'
    BY <1>1 DEF Claimed, Sent
  <2> QED BY <2>1, <1>3 DEF DroppedWereClaimed
<1>6. [BT!Next]_(BT!vars)
  <2>1. delivered \in BOOLEAN /\ delivered' \in BOOLEAN
    BY <1>2 DEF TypeOK, ReceiverTypeOK
  <2> QED BY <2>1, <1>1, <1>3 DEF BT!Next, BT!vars, BT!Deliver
<1> QED BY <1>1, <1>2, <1>4, <1>5, <1>6

-----------------------------------------------------------------------------
(* The initial state satisfies the invariant and maps to the initial state  *)
(* of BlockTransfer.                                                        *)
LEMMA InitSafe == Init => IInv /\ BT!Init
<1>1. Init => TypeOK
  BY InitTypes
<1>2. Init => Sent("RS") = {} /\ Claimed = {} /\ Segs # {}
  BY SegmentsAssumption, SMT DEF Init, Sent, Claimed, Segs
<1> QED BY <1>1, <1>2, SMT DEF Init, SenderInit, ReceiverInit, IInv, Reported, Holdings, ClaimsBacked,
           DroppedWereClaimed, ReceiverOpen, BT!Init

(* Every step of the session keeps the invariant and maps to a step or a    *)
(* stutter of BlockTransfer.                                                *)
LEMMA NextSafe ==
    ASSUME NoEarlyCloseout, IInv, [Next]_vars
    PROVE  IInv' /\ [BT!Next]_(BT!vars)
<1>1. CASE UNCHANGED vars
  BY <1>1, SMT DEF vars, senderVars, receiverVars, ckptVars, queueVars, IInv, TypeOK, SenderTypeOK,
     ReceiverTypeOK, Reported, Holdings, ClaimsBacked, DroppedWereClaimed, ReceiverOpen, Sent,
     Claimed, BT!vars
<1> QED BY <1>1, SenderSafe, ReceiverSafe DEF Next

(* What the sender has been told is always backed by the receiver: the      *)
(* inductive invariant holds in every reachable state.                      *)
THEOREM ClaimsStayBacked ==
    ASSUME NoEarlyCloseout
    PROVE  Spec => []IInv
<1>1. Init => IInv
  BY InitSafe
<1>2. IInv /\ [Next]_vars => IInv'
  BY NextSafe
<1> QED BY <1>1, <1>2, PTL DEF Spec

(* The session implements BlockTransfer: the bundles are reported once, and *)
(* as sent only after the receiver has handed the block over, for any block *)
(* size, any checkpoints, any retry limits and any behaviour of the network.*)
THEOREM Refinement ==
    ASSUME NoEarlyCloseout
    PROVE  Spec => ReportsTruthfully
<1>1. Init => BT!Init
  BY InitSafe
<1>2. IInv /\ [Next]_vars => [BT!Next]_(BT!vars)
  BY NextSafe
<1> QED BY <1>1, <1>2, ClaimsStayBacked, PTL DEF Spec, ReportsTruthfully, BT!Spec

(* A session that has left send_sessions_ has reported its bundles. *)
THEOREM NothingForgotten ==
    ASSUME NoEarlyCloseout
    PROVE  Spec => []ClosedMeansReported
<1>1. IInv => ClosedMeansReported
  BY DEF IInv, Reported, ClosedMeansReported, SenderOpen
<1> QED BY <1>1, ClaimsStayBacked, PTL

-----------------------------------------------------------------------------
(* Checkpoints *)

(* A checkpoint id the session has given out, the segment p it can only     *)
(* belong to, and a report that claims its checkpoint if it covers it.      *)
Issued(c) == c <= Len(checkpoints)
OnlyAt(c, p) == \A s \in Segs : ckptId[s] = c => s = p
Answers(m) ==
    /\ m.ckpt # 0
    /\ \A s \in Segs : ckptId[s] = m.ckpt /\ m.lower <= s /\ s < m.upper => s \in m.claims

(* RetransmitsAreNotCheckpoints made inductive: ids are never given to a    *)
(* second segment, whatever carries one carries it with its segment, and a  *)
(* report for a checkpoint claims it or ends below it.                      *)
CkptInv ==
    /\ processed => got = Segs
    /\ sState = "CS" => checkpoints = <<>>
    /\ sState = "DS" =>
        /\ \A s \in Segs : Issued(ckptId[s])
        /\ \A s, t \in Segs : ckptId[s] = ckptId[t] /\ s # t => ckptId[s] = 0
        /\ inHand # Idle =>
            Issued(inHand.ckpt) /\ (inHand.ckpt # 0 => OnlyAt(inHand.ckpt, inHand.seg))
        /\ \A m \in Sent("DS") : Issued(m.ckpt) /\ (m.ckpt # 0 => OnlyAt(m.ckpt, m.seg))
        /\ \A m \in Sent("RS") : Issued(m.ckpt) /\ Answers(m)
        /\ \A r \in reports : Issued(r.ckpt) /\ Answers(r)

(* A report generated for the checkpoint at p, which has arrived, claims p  *)
(* unless it ends below p.                                                  *)
LEMMA ReportClaimsCheckpoint ==
    ASSUME NEW ckpt \in Nat, NEW lower \in 0 .. NSeg, NEW p \in Segs,
           NEW have \in SUBSET Segs, p \in have
    PROVE  \A r \in GenerateReportSegments(ckpt, lower, p + 1, have) :
              r.ckpt = ckpt /\ (p < r.upper => p \in r.claims)
<1> DEFINE in == have \cap (lower .. (p + 1) - 1)
           Part(i) == Cardinality({e \in in : e < i /\ e + 1 \notin in}) \div ClaimsPerReport
           Parts == {Part(i) : i \in in}
           Claims(k) == {i \in in : Part(i) = k}
           Before(k) == {i \in in : Part(i) < k}
           Lower(k) == IF Before(k) = {} THEN lower ELSE Max(Before(k)) + 1
           Rep(k) == NewReport(lastSerial + 1 + k, ckpt, Lower(k), Max(Claims(k)) + 1, Claims(k))
           new == GenerateReportSegments(ckpt, lower, p + 1, have)
<1>0. p \in Nat /\ p \in 0 .. (p + 1) - 1
  BY SegmentsAssumption, SMT DEF Segs
<1>1. CASE have = Segs
  <2>1. new = {NewReport(lastSerial + 1, ckpt, 0, NSeg, Segs)}
    BY <1>1 DEF GenerateReportSegments
  <2> QED BY <2>1, SMT DEF NewReport
<1>2. CASE have # Segs /\ 0 .. (p + 1) - 1 \subseteq have
  <2>1. new = {NewReport(lastSerial + 1, ckpt, 0, p + 1, 0 .. (p + 1) - 1)}
    BY <1>2 DEF GenerateReportSegments
  <2> QED BY <2>1, <1>0, SMT DEF NewReport
<1>3. CASE have # Segs /\ ~(0 .. (p + 1) - 1 \subseteq have)
  <2>1. new = {Rep(k) : k \in Parts}
    BY <1>3 DEF GenerateReportSegments
  <2>2. ASSUME NEW k \in Parts
        PROVE  Rep(k).ckpt = ckpt /\ (p < Rep(k).upper => p \in Rep(k).claims)
    <3>1. /\ Rep(k).ckpt = ckpt /\ Rep(k).upper = Max(Claims(k)) + 1
          /\ Rep(k).claims = Claims(k)
      <4> HIDE DEF Claims, Lower, Parts
      <4> QED BY DEF NewReport
    <3>2. Claims(k) \in SUBSET Segs /\ Claims(k) # {} /\ Claims(k) \subseteq lower .. (p + 1) - 1
      <4>1. in \in SUBSET Segs /\ in \subseteq lower .. (p + 1) - 1
        OBVIOUS
      <4>2. Claims(k) \subseteq in
        OBVIOUS
      <4>3. Claims(k) # {}
        OBVIOUS
      <4> HIDE DEF in, Claims
      <4> QED BY <4>1, <4>2, <4>3
    <3> HIDE DEF Claims, Rep, Parts
    <3>3. Max(Claims(k)) \in Claims(k)
      BY <3>2, MaxOfSegments
    <3>4. p < Max(Claims(k)) + 1 => p = Max(Claims(k))
      BY <3>2, <3>3, <1>0, SMT
    <3> QED BY <3>1, <3>3, <3>4
  <2> HIDE DEF Rep, Parts
  <2> QED BY <2>1, <2>2
<1> QED BY <1>1, <1>2, <1>3

(* What generate_RS stores and sends for the checkpoint m answers it. *)
LEMMA NewReportsAnswer ==
    ASSUME TypeOK, CkptInv, sState = "DS", NEW m \in Sent("DS"), m.ckpt # 0,
           NEW have \in SUBSET Segs, m.seg \in have
    PROVE  \A r \in HaveReportSegmentsToSend(m, have) : Issued(r.ckpt) /\ Answers(r)
<1> DEFINE matches == {r \in reports : r.ckpt = m.ckpt \/ r.serial = m.serial}
           first == CHOOSE r \in matches : \A q \in matches : r.serial <= q.serial
           before == {o \in ckptSeen : o < m.seg}
           lower == IF matches # {} THEN first.lower
                    ELSE IF before = {} THEN 0
                    ELSE Max(before) + 1
           new == HaveReportSegmentsToSend(m, have)
<1>0. m \in DataSegment
  BY DEF TypeOK, Sent, Segment, DataSegment, ReportSegment, ReportAckSegment, CancelSegment,
         CancelAckSegment
<1>1. m.ckpt \in Nat /\ m.seg \in Segs
  BY <1>0 DEF DataSegment
<1>2. matches # {} => first \in Report
  <2>1. matches \in SUBSET Report
    BY DEF TypeOK, ReceiverTypeOK
  <2> HIDE DEF matches
  <2> QED BY <2>1, OldestReport
<1>3. before # {} => Max(before) \in Segs
  BY MaxOfSegments DEF TypeOK, ReceiverTypeOK
<1>4. lower \in 0 .. NSeg
  <2>1. CASE matches # {}
    <3> HIDE DEF matches, first
    <3> QED BY <2>1, <1>2 DEF Report
  <2>2. CASE matches = {} /\ before = {}
    <3> HIDE DEF matches, before, first
    <3> QED BY <2>2, SegmentsAssumption, SMT
  <2>3. CASE matches = {} /\ before # {}
    <3> HIDE DEF matches, before, first
    <3> QED BY <2>3, <1>3, SegmentsAssumption, SMT DEF Segs
  <2> QED BY <2>1, <2>2, <2>3
<1>5. CASE matches # {} /\ first.ckpt = m.ckpt
  <2>1. new = {}
    BY <1>5 DEF HaveReportSegmentsToSend
  <2> QED BY <2>1
<1>6. CASE ~(matches # {} /\ first.ckpt = m.ckpt)
  <2>1. new = GenerateReportSegments(m.ckpt, lower, m.seg + 1, have)
    BY <1>6 DEF HaveReportSegmentsToSend
  <2> HIDE DEF lower, new
  <2>2. \A r \in new : r.ckpt = m.ckpt /\ (m.seg < r.upper => m.seg \in r.claims)
    BY <2>1, <1>1, <1>4, ReportClaimsCheckpoint
  <2>3. Issued(m.ckpt) /\ OnlyAt(m.ckpt, m.seg)
    BY DEF CkptInv
  <2> QED BY <2>2, <2>3 DEF Answers, OnlyAt, new
<1> QED BY <1>5, <1>6

(* An id that is given out is new, and what the sender sends or holds ready *)
(* carries an id with the segment it was given to.                          *)
LEMMA IdsAreFresh ==
    ASSUME TypeOK, CkptInv, SenderStep, UNCHANGED receiverVars, sState = "DS", sState' = "DS"
    PROVE  /\ \/ ckptId' = ckptId /\ Len(checkpoints') >= Len(checkpoints)
              \/ \E p \in Segs : /\ ckptId' = [ckptId EXCEPT ![p] = Len(checkpoints) + 1]
                                 /\ Len(checkpoints') = Len(checkpoints) + 1
           /\ \/ inHand' = Idle \/ inHand' = inHand
              \/ /\ inHand # Idle /\ inHand' # Idle
                 /\ inHand'.ckpt = inHand.ckpt /\ inHand'.seg = inHand.seg
              \/ \E s \in Segs : ckptId' = ckptId /\ inHand'.ckpt = ckptId[s] /\ inHand'.seg = s
           /\ \A m \in Sent("DS")' \ Sent("DS") :
                 inHand # Idle /\ m.ckpt = inHand.ckpt /\ m.seg = inHand.seg
<1> USE SegmentsAssumption, SenderAssumption
<1> DEFINE Ids == \/ ckptId' = ckptId /\ Len(checkpoints') >= Len(checkpoints)
                  \/ \E p \in Segs : /\ ckptId' = [ckptId EXCEPT ![p] = Len(checkpoints) + 1]
                                     /\ Len(checkpoints') = Len(checkpoints) + 1
           Hand == \/ inHand' = Idle \/ inHand' = inHand
                   \/ /\ inHand # Idle /\ inHand' # Idle
                      /\ inHand'.ckpt = inHand.ckpt /\ inHand'.seg = inHand.seg
                   \/ \E s \in Segs : ckptId' = ckptId /\ inHand'.ckpt = ckptId[s] /\ inHand'.seg = s
           Wire == \A m \in Sent("DS")' \ Sent("DS") :
                      inHand # Idle /\ m.ckpt = inHand.ckpt /\ m.seg = inHand.seg
<1>0. checkpoints \in Seq(Stops) /\ Len(checkpoints) \in Nat
  BY SMT DEF TypeOK, SenderTypeOK
<1>a. ASSUME ckptId' = ckptId, checkpoints' = checkpoints PROVE Ids
  BY <1>a, <1>0, SMT
<1>b. ASSUME NEW x, x.type # "DS", net' = net \/ net' = net \cup {x} PROVE Wire
  BY <1>b DEF Sent
<1>1. CASE process_bundles
  <2>1. produced \in Segs
    BY <1>1, SMT DEF process_bundles, TypeOK, SenderTypeOK, Segs
  <2>2. \/ /\ ckptId' = [ckptId EXCEPT ![produced] = Len(checkpoints) + 1]
           /\ checkpoints' = Append(checkpoints, produced)
        \/ UNCHANGED <<ckptId, checkpoints>>
    BY <1>1 DEF process_bundles
  <2>3. Len(Append(checkpoints, produced)) = Len(checkpoints) + 1
    BY <1>0, SMT
  <2>4. Ids
    BY <2>1, <2>2, <2>3, <1>a, Zenon
  <2> QED BY <2>4, <1>1 DEF process_bundles, Sent
<1>2. CASE AbortExpired
  BY <1>2 DEF AbortExpired
<1>3. CASE Dequeue
  <2> DEFINE entry == Head(highQ \o lowQ)
  <2>1. highQ \o lowQ \in Seq(Entry) /\ highQ \o lowQ # <<>>
    BY <1>3, SMT DEF Dequeue, TypeOK, SenderTypeOK
  <2>2. entry \in Entry
    BY <2>1, SMT
  <2>3. entry.seg \in Segs
    BY <2>2 DEF Entry
  <2>4. /\ \/ inHand' = inHand
           \/ inHand' = [seg |-> entry.seg, timer |-> entry.timer,
                         ckpt |-> ckptId[entry.seg], serial |-> rptSerial[entry.seg]]
        /\ ckptId' = ckptId /\ checkpoints' = checkpoints /\ net' = net
    BY <1>3 DEF Dequeue, ckptVars
  <2> HIDE DEF entry
  <2> QED BY <2>3, <2>4, <1>a, SMT DEF Sent
<1>4. CASE Transmit
  <2>1. /\ inHand' = Idle /\ ckptId' = ckptId /\ checkpoints' = checkpoints
        /\ net' = net \cup {[type |-> "DS", seg |-> inHand.seg, ckpt |-> inHand.ckpt,
                             serial |-> inHand.serial]}
        /\ inHand # Idle
    BY <1>4 DEF Transmit, Send, ckptVars
  <2> QED BY <2>1, <1>a, SMT DEF Sent
<1>5. CASE \E m \in Sent("RS") : process_RS(m)
  <2>1. PICK m \in Sent("RS") : process_RS(m)
    BY <1>5
  <2>2. inHand' = inHand
    BY <2>1 DEF process_RS
  <2>3. net' = net \cup {RAS(m.serial)} \/ net' = net \cup {CS_BS}
    BY <2>1 DEF process_RS, Send
  <2>4. Wire
    BY <2>3, SMT DEF Sent, RAS, CS_BS
  <2>5. CASE UNCHANGED <<ckptId, checkpoints>>
    BY <2>2, <2>4, <2>5, <1>a
  <2>6. CASE /\ Find_Checkpoint_Stop_Byte(m.ckpt) >= 0
             /\ Send_Remaining_Segments(m, Flag_Checkpoint_As_Claimed(m))
    <3> DEFINE flagged == Flag_Checkpoint_As_Claimed(m)
    <3>1. m.ckpt \in DOMAIN checkpoints
      BY <2>6, SMT DEF Find_Checkpoint_Stop_Byte, Unknown
    <3>2. flagged \in Seq(Stops) /\ Len(flagged) = Len(checkpoints)
      <4>1. ClaimedCkpt \in Stops
        BY DEF Stops
      <4> QED BY <3>1, <4>1, <1>0, ExceptType, SMT DEF Flag_Checkpoint_As_Claimed
    <3> HIDE DEF flagged
    <3>3. MissingFrom(m) \subseteq Segs
      BY DEF MissingFrom, Addressed, TypeOK, SenderTypeOK
    <3>4. \/ checkpoints' = flagged /\ ckptId' = ckptId
          \/ \E last \in MissingFrom(m) : /\ ckptId' = [ckptId EXCEPT ![last] = Len(flagged) + 1]
                                          /\ checkpoints' = Append(flagged, last)
      BY <2>6, Zenon DEF Send_Remaining_Segments, flagged, ckptVars
    <3>5. \A last \in MissingFrom(m) : Len(Append(flagged, last)) = Len(flagged) + 1
      BY <3>2, SMT
    <3>6. Ids
      BY <1>0, <3>2, <3>3, <3>4, <3>5, SMT
    <3> QED BY <3>6, <2>2, <2>4
  <2> QED BY <2>1, <2>5, <2>6, Zenon DEF process_RS, ApplyReport, SessionCompleted, ckptVars
<1>6. CASE Sent("CS_BR") # {} /\ process_CS
  BY <1>6 DEF process_CS, SenderOpen
<1>7. CASE Sent("CAS_BS") # {} /\ process_CAS
  BY <1>7 DEF process_CAS
<1>8. CASE \E s \in Segs : data_seg_timeout(s)
  <2>1. PICK s \in Segs : data_seg_timeout(s)
    BY <1>8
  <2>2. /\ ckptId' = ckptId /\ checkpoints' = checkpoints /\ net' = net
        /\ inHand' = Superseded(inHand, s)
    BY <2>1 DEF data_seg_timeout, CancelBySender, ckptVars, Renew_Retransmission_Timer
  <2>3. inHand \in Encoded \cup {Idle}
    BY DEF TypeOK, SenderTypeOK
  <2>4. Hand
    <3>1. CASE inHand = Idle
      BY <3>1, <2>2 DEF Superseded, Idle
    <3>2. CASE inHand \in Encoded
      <4>1. [inHand EXCEPT !.timer = "stale"].ckpt = inHand.ckpt
            /\ [inHand EXCEPT !.timer = "stale"].seg = inHand.seg
        BY <3>2 DEF Encoded
      <4>2. \A e \in Encoded : e # Idle
        BY SMT DEF Encoded, Idle
      <4>3. [inHand EXCEPT !.timer = "stale"] \in Encoded
        BY Zenon, <3>2 DEF Encoded
      <4> QED BY <4>1, <4>2, <4>3, <3>2, <2>2, Zenon DEF Superseded
    <3> QED BY <3>1, <3>2, <2>3
  <2> QED BY <2>2, <2>4, <1>a DEF Sent
<1>9. CASE Sender_cancel_seg_timeout
  BY <1>9 DEF Sender_cancel_seg_timeout
<1>10. CASE Sender_start_shutdown
  BY <1>10, <1>a DEF Sender_start_shutdown, ckptVars, queueVars, Sent
<1>11. CASE Sender_cancel_all_sessions
  BY <1>11 DEF Sender_cancel_all_sessions, CancelBySender
<1>12. CASE (EarlyCloseout \/ ~ReceiverOpen) /\ Sender_closeout_timer_triggered
  BY <1>12 DEF Sender_closeout_timer_triggered
<1> HIDE DEF Ids, Hand, Wire
<1> QED
  BY Zenon, <1>1, <1>2, <1>3, <1>4, <1>5, <1>6, <1>7, <1>8, <1>9, <1>10, <1>11, <1>12
     DEF SenderStep

(* Ids are naturals wherever a segment or a report carries one. *)
LEMMA WireTypes ==
    ASSUME TypeOK
    PROVE  /\ \A m \in Sent("DS") \cup Sent("RS") : m.ckpt \in Nat
           /\ \A r \in reports : r.ckpt \in Nat
           /\ inHand # Idle => inHand.ckpt \in Nat
<1>1. \A m \in Sent("DS") \cup Sent("RS") : m.ckpt \in Nat
  BY DEF TypeOK, Sent, Segment, DataSegment, ReportSegment, ReportAckSegment, CancelSegment,
     CancelAckSegment
<1>2. \A r \in reports : r.ckpt \in Nat
  BY DEF TypeOK, ReceiverTypeOK, Report
<1>3. inHand # Idle => inHand.ckpt \in Nat
  BY DEF TypeOK, SenderTypeOK, Encoded
<1> QED BY <1>1, <1>2, <1>3

(* A step of the sender keeps the invariant. *)
LEMMA SenderKeepsCkptInv ==
    ASSUME TypeOK, CkptInv, SenderStep, UNCHANGED receiverVars
    PROVE  CkptInv'
<1>1. UNCHANGED <<processed, got, reports>>
  BY DEF receiverVars
<1>2. sState' = "CS" => checkpoints' = <<>>
  <2>1. CASE process_bundles \/ AbortExpired \/ Dequeue \/ Transmit
    BY <2>1 DEF process_bundles, AbortExpired, Dequeue, Transmit, CkptInv
  <2>2. ASSUME NEW m \in Sent("RS"), process_RS(m), sState' = "CS" PROVE checkpoints' = <<>>
    <3>1. sState = "CS" /\ checkpoints = <<>>
      BY <2>2 DEF process_RS, ApplyReport, SessionCompleted, CkptInv
    <3>2. Find_Checkpoint_Stop_Byte(m.ckpt) = -1
      BY <3>1, SMT DEF Find_Checkpoint_Stop_Byte, Unknown
    <3> QED BY <2>2, <3>1, <3>2, SMT DEF process_RS, ApplyReport, SessionCompleted
  <2>3. CASE process_CS \/ process_CAS
    BY <2>3 DEF process_CS, process_CAS, SenderOpen, CkptInv
  <2>4. CASE \E s \in Segs : data_seg_timeout(s)
    BY <2>4 DEF data_seg_timeout, CancelBySender, RemoveSegments, CkptInv
  <2>5. CASE Sender_cancel_seg_timeout \/ Sender_start_shutdown \/ Sender_cancel_all_sessions
             \/ Sender_closeout_timer_triggered
    BY <2>5 DEF Sender_cancel_seg_timeout, Sender_start_shutdown, Sender_cancel_all_sessions,
       Sender_closeout_timer_triggered, CancelBySender, RemoveSegments, CkptInv
  <2> QED BY <2>1, <2>2, <2>3, <2>4, <2>5, Zenon DEF SenderStep
<1>3. CASE sState' # "DS"
  BY <1>1, <1>2, <1>3 DEF CkptInv
<1>4. CASE sState' = "DS"
  <2> DEFINE n == Len(checkpoints)
  <2>1. sState = "DS" /\ Sent("RS")' = Sent("RS")
    BY <1>4, SenderSends DEF Sent
  <2>2. /\ \/ ckptId' = ckptId /\ Len(checkpoints') >= n
           \/ \E p \in Segs : ckptId' = [ckptId EXCEPT ![p] = n + 1] /\ Len(checkpoints') = n + 1
        /\ \/ inHand' = Idle \/ inHand' = inHand
           \/ /\ inHand # Idle /\ inHand' # Idle
              /\ inHand'.ckpt = inHand.ckpt /\ inHand'.seg = inHand.seg
           \/ \E s \in Segs : ckptId' = ckptId /\ inHand'.ckpt = ckptId[s] /\ inHand'.seg = s
        /\ \A m \in Sent("DS")' \ Sent("DS") :
              inHand # Idle /\ m.ckpt = inHand.ckpt /\ m.seg = inHand.seg
    BY <2>1, <1>4, IdsAreFresh
  <2>3. n \in Nat /\ Len(checkpoints') \in Nat /\ ckptId \in [Segs -> Nat] /\ n' >= n
    BY <2>2, SenderTypes, SMT DEF TypeOK, SenderTypeOK
  <2>4. /\ \A s \in Segs : ckptId[s] <= n
        /\ \A s, t \in Segs : ckptId[s] = ckptId[t] /\ s # t => ckptId[s] = 0
    BY <2>1 DEF CkptInv, Issued
  <2>5. ASSUME NEW c \in Nat, Issued(c) PROVE Issued(c)'
    BY <2>3, <2>5, SMT DEF Issued
  <2>6. ASSUME NEW c \in Nat, c <= n, NEW s \in Segs, ckptId'[s] = c PROVE ckptId[s] = c
    BY <2>2, <2>3, <2>6, SMT
  <2>7. \A s \in Segs : Issued(ckptId[s])'
    BY <2>2, <2>3, <2>4, SMT DEF Issued
  <2>8. \A s, t \in Segs : ckptId'[s] = ckptId'[t] /\ s # t => ckptId'[s] = 0
    BY <2>2, <2>3, <2>4, SMT
  <2>9. ASSUME NEW c \in Nat, Issued(c), NEW p, OnlyAt(c, p) PROVE OnlyAt(c, p)'
    BY <2>6, <2>9 DEF Issued, OnlyAt
  <2>10. ASSUME NEW m, m.ckpt \in Nat, Issued(m.ckpt), Answers(m)
         PROVE  Issued(m.ckpt)' /\ Answers(m)'
    BY <2>5, <2>6, <2>10 DEF Issued, Answers
  <2>11. /\ \A m \in Sent("DS") \cup Sent("RS") : m.ckpt \in Nat
         /\ \A r \in reports : r.ckpt \in Nat
         /\ inHand # Idle => inHand.ckpt \in Nat
    BY WireTypes
  <2>12. inHand' # Idle =>
            /\ Issued(inHand.ckpt)'
            /\ inHand'.ckpt # 0 => OnlyAt(inHand.ckpt, inHand.seg)'
    <3>1. ASSUME inHand # Idle PROVE /\ Issued(inHand.ckpt) /\ inHand.ckpt \in Nat
                                     /\ inHand.ckpt # 0 => OnlyAt(inHand.ckpt, inHand.seg)
      BY <2>1, <2>11, <3>1 DEF CkptInv
    <3>2. ASSUME inHand # Idle, inHand'.ckpt = inHand.ckpt, inHand'.seg = inHand.seg
          PROVE  /\ Issued(inHand.ckpt)'
                 /\ inHand'.ckpt # 0 => OnlyAt(inHand.ckpt, inHand.seg)'
      <4>1. PICK c \in Nat, p \in {inHand.seg} : c = inHand.ckpt /\ p = inHand.seg
        BY <3>1, <3>2
      <4>2. Issued(c)' /\ (c # 0 => OnlyAt(c, p)')
        BY <3>1, <3>2, <4>1, <2>5, <2>9
      <4> QED BY <3>2, <4>1, <4>2 DEF Issued, OnlyAt
    <3>3. ASSUME NEW s \in Segs, ckptId' = ckptId, inHand'.ckpt = ckptId[s], inHand'.seg = s
          PROVE  /\ Issued(inHand.ckpt)'
                 /\ inHand'.ckpt # 0 => OnlyAt(inHand.ckpt, inHand.seg)'
      BY <3>3, <2>7, <2>8 DEF Issued, OnlyAt
    <3> QED BY <2>2, <3>2, <3>3
  <2>13. ASSUME NEW m \in Sent("DS")'
         PROVE  Issued(m.ckpt)' /\ (m.ckpt # 0 => OnlyAt(m.ckpt, m.seg)')
    <3>1. m.ckpt \in Nat /\ Issued(m.ckpt) /\ (m.ckpt # 0 => OnlyAt(m.ckpt, m.seg))
      BY <2>1, <2>2, <2>11 DEF CkptInv
    <3> QED BY <3>1, <2>5, <2>9
  <2>14. \A m \in Sent("RS")' : Issued(m.ckpt)' /\ Answers(m)'
    BY <2>1, <2>10, <2>11 DEF CkptInv
  <2>15. \A r \in reports' : Issued(r.ckpt)' /\ Answers(r)'
    BY <2>1, <1>1, <2>10, <2>11 DEF CkptInv
  <2> QED BY <1>1, <1>2, <2>7, <2>8, <2>12, <2>13, <2>14, <2>15, Zenon DEF CkptInv
<1> QED BY <1>3, <1>4

(* A step of the receiver keeps the invariant: the reports it stores and    *)
(* sends answer the checkpoints they are for.                               *)
LEMMA ReceiverKeepsCkptInv ==
    ASSUME TypeOK, CkptInv, ReceiverStep, UNCHANGED senderVars
    PROVE  CkptInv'
<1>0. UNCHANGED <<sState, checkpoints, ckptId, inHand>>
  BY DEF senderVars, ckptVars, queueVars
<1> DEFINE Good(m) == Issued(m.ckpt) /\ Answers(m)
<1>a. ASSUME NEW m PROVE Good(m)' <=> Good(m)
  BY <1>0 DEF Issued, Answers
<1>b. sState = "DS" => /\ \A m \in Sent("RS") : Good(m)
                       /\ \A r \in reports : Good(r)
  BY DEF CkptInv
<1> HIDE DEF Good
<1>c. ASSUME Sent("DS")' = Sent("DS"), processed' => got' = Segs,
             sState = "DS" => /\ \A m \in Sent("RS")' \ Sent("RS") : Good(m)
                              /\ \A r \in reports' \ reports : Good(r)
      PROVE  CkptInv'
  <2>1. sState = "DS" => /\ \A m \in Sent("RS")' : Good(m)'
                         /\ \A r \in reports' : Good(r)'
    BY <1>a, <1>b, <1>c, Zenon
  <2> QED BY <1>0, <1>c, <2>1, Zenon DEF CkptInv, Good, Issued, OnlyAt
<1>d. CS_BR.type = "CS_BR" /\ CAS_BS.type = "CAS_BS"
  BY DEF CS_BR, CAS_BS
<1>e. ASSUME net' \in {net, net \cup {CS_BR}, net \cup {CAS_BS}}, reports' \subseteq reports,
             processed' => got' = Segs
      PROVE  CkptInv'
  <2>1. Sent("DS")' = Sent("DS") /\ Sent("RS")' = Sent("RS")
    BY <1>d, <1>e DEF Sent
  <2> QED BY <1>c, <1>e, <2>1, Zenon
<1>f. processed => got = Segs
  BY DEF CkptInv
<1>g. \A r \in reports : Good(r) => Good(AsSegment(r))
  BY DEF Good, AsSegment, Issued, Answers
<1>1. CASE \E m \in Sent("DS") : DataSegmentAfterClose(m)
  <2>1. PICK m \in Sent("DS") : DataSegmentAfterClose(m)
    BY <1>1
  <2>2. UNCHANGED <<processed, got, reports>>
    BY <2>1 DEF DataSegmentAfterClose, receiverVars
  <2>3. CASE net' = net \cup {CS_BR}
    BY <1>e, <1>f, <2>2, <2>3
  <2> DEFINE x == [type |-> "RS", serial |-> 0, ckpt |-> m.ckpt, lower |-> 0,
                   upper |-> closedSize, claims |-> 0 .. closedSize - 1]
  <2>4. CASE m.ckpt # 0 /\ net' = net \cup {x}
    <3>1. x.type = "RS" /\ x.ckpt = m.ckpt /\ x.lower = 0 /\ x.upper = closedSize
          /\ x.claims = 0 .. closedSize - 1
      OBVIOUS
    <3> HIDE DEF x
    <3>2. Sent("DS")' = Sent("DS") /\ Sent("RS")' \ Sent("RS") \subseteq {x}
      BY <3>1, <2>4 DEF Sent
    <3>3. closedSize \in Nat
      BY SegmentsAssumption, SMT DEF TypeOK, ReceiverTypeOK
    <3>4. \A s \in Segs : s < closedSize => s \in 0 .. closedSize - 1
      BY <3>3, SMT DEF Segs
    <3>5. sState = "DS" => Good(x)
      BY <2>4, <3>1, <3>4 DEF Good, Answers, CkptInv
    <3> QED BY <1>c, <1>f, <2>2, <3>2, <3>5, Zenon
  <2> QED BY <2>1, <2>3, <2>4 DEF DataSegmentAfterClose, Send
<1>2. CASE \E m \in Sent("DS") : process_incoming_data_segment(m)
  <2>1. PICK m \in Sent("DS") : process_incoming_data_segment(m)
    BY <1>2
  <2>2. m \in DataSegment /\ m.seg \in Segs /\ got \subseteq Segs
    BY DEF TypeOK, ReceiverTypeOK, Sent, Segment, DataSegment, ReportSegment, ReportAckSegment,
           CancelSegment, CancelAckSegment
  <2>3. ASSUME NEW have \in SUBSET Segs, m.ckpt # 0, m.seg \in have, generate_RS(m, have),
               processed' => got' = Segs
        PROVE  CkptInv'
    <3> DEFINE new == HaveReportSegmentsToSend(m, have)
    <3>1. /\ reports' = reports \cup new
          /\ net' = net \cup {AsSegment(r) : r \in {q \in reports \cup new : q.ckpt = m.ckpt}}
      BY <2>3 DEF generate_RS
    <3>2. sState = "DS" => \A r \in new : Good(r)
      BY <2>3, NewReportsAnswer DEF Good
    <3> HIDE DEF new
    <3>3. \A r \in new : Good(r) => Good(AsSegment(r))
      BY DEF Good, AsSegment, Issued, Answers
    <3>4. \A r : AsSegment(r).type = "RS"
      BY DEF AsSegment
    <3>5. Sent("DS")' = Sent("DS")
      BY <3>1, <3>4 DEF Sent
    <3>6. sState = "DS" => \A y \in Sent("RS")' \ Sent("RS") : Good(y)
      BY <3>1, <3>2, <3>3, <1>b, <1>g, Zenon DEF Sent
    <3> QED BY <1>c, <2>3, <3>1, <3>2, <3>5, <3>6, Zenon
  <2>4. ASSUME NoReport, processed' => got' = Segs PROVE CkptInv'
    BY <1>e, <2>4 DEF NoReport
  <2>5. CASE DuplicateDataSegment(m)
    <3>1. UNCHANGED <<processed, got>> /\ m.seg \in got
          /\ IF m.ckpt # 0 THEN generate_RS(m, got) ELSE NoReport
      BY <2>5, <2>2, <1>f DEF DuplicateDataSegment
    <3> QED BY <3>1, <1>f, <2>2, <2>3, <2>4, Zenon
  <2>6. CASE NewDataSegment(m)
    <3>1. ~processed' /\ IF m.ckpt # 0 THEN generate_RS(m, got \cup {m.seg}) ELSE NoReport
      BY <2>6 DEF NewDataSegment
    <3>2. got \cup {m.seg} \in SUBSET Segs /\ m.seg \in got \cup {m.seg}
      BY <2>2
    <3> QED BY <3>1, <3>2, <2>3, <2>4, Zenon
  <2>7. CASE DeliverBlock(m)
    <3>1. got' = Segs /\ IF m.ckpt # 0 THEN generate_RS(m, Segs) ELSE NoReport
      BY <2>7 DEF DeliverBlock
    <3> QED BY <3>1, <2>2, <2>3, <2>4, Zenon
  <2>8. CASE RejectBlock(m)
    BY <2>8, <1>e, <1>f DEF RejectBlock, CancelByReceiver, Send
  <2> QED BY <2>1, <2>5, <2>6, <2>7, <2>8 DEF process_incoming_data_segment
<1>3. CASE \E m \in Sent("RAS") : process_RAS(m)
  BY <1>3, <1>e, <1>f DEF process_RAS, erase_incoming_session
<1>4. CASE process_CS_BS \/ process_CAS_BR
  BY <1>4, <1>e, <1>f DEF process_CS_BS, process_CAS_BR, erase_incoming_session, Send
<1>5. CASE Receiver_inactivity_timer_triggered \/ Receiver_cancel_all_sessions
  BY <1>5, <1>e, <1>f, SMT DEF Receiver_inactivity_timer_triggered, Receiver_cancel_all_sessions,
     CancelByReceiver, Send
<1>6. CASE \E r \in reports : report_seg_timeout(r)
  <2>1. PICK r \in reports : report_seg_timeout(r)
    BY <1>6
  <2>2. CASE net' \in {net, net \cup {CS_BR}} /\ reports' \subseteq reports
    BY <2>1, <2>2, <1>e, <1>f, SMT DEF report_seg_timeout, erase_incoming_session, CancelByReceiver
  <2>3. CASE /\ reports' = (reports \ {r}) \cup {[r EXCEPT !.retries = @ + 1]}
             /\ net' = net \cup {AsSegment(r)} /\ UNCHANGED <<got, processed>>
    <3>1. r \in Report
      BY DEF TypeOK, ReceiverTypeOK
    <3>2. AsSegment(r).type = "RS"
      BY DEF AsSegment
    <3>3. Good(r) => Good([r EXCEPT !.retries = @ + 1])
      BY <3>1 DEF Good, Issued, Answers, Report
    <3>4. Sent("DS")' = Sent("DS") /\ Sent("RS")' \ Sent("RS") \subseteq {AsSegment(r)}
      BY <2>3, <3>2 DEF Sent
    <3>5. reports' \ reports \subseteq {[r EXCEPT !.retries = @ + 1]}
      BY <2>3, Zenon
    <3> QED BY <1>b, <1>c, <1>f, <1>g, <2>3, <3>3, <3>4, <3>5, Zenon
  <2> QED BY <2>1, <2>2, <2>3 DEF report_seg_timeout, erase_incoming_session, CancelByReceiver,
             Send
<1>7. CASE Receiver_cancel_seg_timeout
  BY <1>7, <1>e, <1>f DEF Receiver_cancel_seg_timeout, erase_incoming_session, Send
<1>8. CASE Receiver_closeout_timer_triggered
  BY <1>8, <1>e, <1>f DEF Receiver_closeout_timer_triggered
<1> QED BY <1>1, <1>2, <1>3, <1>4, <1>5, <1>6, <1>7, <1>8, Zenon DEF ReceiverStep

(* The ASSERT of Send_Remaining_Segments holds for every block, every choice*)
(* of checkpoints and every way of splitting reports: a report in which a   *)
(* segment is missing never has that segment as its own checkpoint.         *)
THEOREM NoCheckpointRetransmitted == Spec => []RetransmitsAreNotCheckpoints
<1>1. Init => TypeOK /\ CkptInv
  <2>1. Init => CkptInv
    BY SMT DEF Init, SenderInit, ReceiverInit, CkptInv, Sent, Issued
  <2> QED BY <2>1, InitTypes
<1>2. ASSUME TypeOK, CkptInv, [Next]_vars PROVE TypeOK' /\ CkptInv'
  <2>1. CASE UNCHANGED vars
    <3>1. /\ UNCHANGED <<net, sState, checkpoints, ckptId, inHand, processed, got, reports>>
          /\ UNCHANGED vars
      BY <2>1 DEF vars, senderVars, receiverVars, ckptVars, queueVars
    <3>2. CkptInv'
      BY <1>2, <3>1 DEF CkptInv, Sent, Issued, OnlyAt, Answers
    <3> QED BY <1>2, <3>1, <3>2, StutterTypes
  <2> QED BY <1>2, <2>1, SenderTypes, ReceiverTypes, SenderKeepsCkptInv, ReceiverKeepsCkptInv
          DEF Next
<1>3. TypeOK /\ CkptInv => RetransmitsAreNotCheckpoints
  <2> SUFFICES ASSUME TypeOK, CkptInv, SenderOpen, NEW m \in Sent("RS"),
                      Find_Checkpoint_Stop_Byte(m.ckpt) >= 0, NEW s \in MissingFrom(m)
               PROVE  ckptId[s] = 0
    BY DEF RetransmitsAreNotCheckpoints
  <2>1. sState = "DS"
    <3>1. ASSUME checkpoints = <<>> PROVE Find_Checkpoint_Stop_Byte(m.ckpt) = -1
      BY <3>1, SMT DEF Find_Checkpoint_Stop_Byte, Unknown
    <3>2. ~(-1 >= 0)
      BY SMT
    <3> QED BY <3>1, <3>2 DEF SenderOpen, CkptInv
  <2>2. s \in Segs /\ m.lower <= s /\ s < m.upper /\ ckptId[s] \in {0, m.ckpt} /\ s \notin m.claims
    BY DEF MissingFrom, Addressed, TypeOK, SenderTypeOK
  <2> QED BY <2>1, <2>2 DEF CkptInv, Answers
<1> QED BY <1>1, <1>2, <1>3, PTL DEF Spec
=============================================================================
