-------------------------- MODULE LTPSessionProofs --------------------------
(***************************************************************************)
(* Type correctness of LTPSession, for every number of segments, every      *)
(* choice of checkpoints, every retry limit and every bound on serial       *)
(* numbers; what the receiver's reports contain; and that a block is handed *)
(* over once.                                                               *)
(***************************************************************************)
EXTENDS LTPSession, FiniteSetTheorems, WellFoundedInduction, TLAPS

\* Leaves with arithmetic, records or sequences cite SMT, the others go to Zenon.
USE Zenon

-----------------------------------------------------------------------------
(* Lemmas about the operators of the model *)

(* A non-empty set of naturals has a least element. *)
LEMMA LeastNatural ==
    ASSUME NEW S \in SUBSET Nat, S # {}
    PROVE  \E x \in S : \A y \in S : x <= y
<1>1. PICK x \in S : \A y \in S : ~(<<y, x>> \in OpToRel(<, Nat))
  BY NatLessThanWellFounded, WFMin
<1>2. ASSUME NEW y \in S PROVE ~(y < x)
  <2>1. ASSUME y < x PROVE <<y, x>> \in OpToRel(<, Nat)
    BY SMT, <2>1 DEF OpToRel
  <2> QED BY <2>1, <1>1
<1> QED BY SMT, <1>2

(* Max, as the receiver uses it, is the last segment of a non-empty set. *)
LEMMA MaxOfSegments ==
    ASSUME NEW S \in SUBSET Segs, S # {}
    PROVE  Max(S) \in S
<1> DEFINE D == {NSeg - s : s \in S}
<1>1. \A s \in S : s \in Int /\ NSeg - s \in Nat
  BY SegmentsAssumption, SMT DEF Segs
<1>a. D \in SUBSET Nat /\ D # {}
  BY <1>1
<1>2. PICK d \in D : \A e \in D : d <= e
  BY Zenon, <1>a, LeastNatural
<1>3. PICK x \in S : d = NSeg - x
  BY <1>2
<1>4. \A y \in S : NSeg - x <= NSeg - y
  BY <1>2, <1>3
<1>5. \A y \in S : x >= y
  BY <1>4, SegmentsAssumption, SMT DEF Segs
<1> QED BY <1>5 DEF Max

(* The number of segments is the cardinality of the block. *)
LEMMA SegsFinite == IsFiniteSet(Segs) /\ Cardinality(Segs) = NSeg
BY FS_Interval, SegmentsAssumption, SMT DEF Segs

(* The oldest of some stored reports, as HaveReportSegmentsToSend picks it, *)
(* is one of them.                                                          *)
LEMMA OldestReport ==
    ASSUME NEW S \in SUBSET Report, S # {}
    PROVE  (CHOOSE r \in S : \A q \in S : r.serial <= q.serial) \in S
<1> DEFINE N == {r.serial : r \in S}
<1>1. \A r \in S : r.serial \in Nat
  BY DEF Report, Serials
<1>2. N \in SUBSET Nat /\ N # {}
  BY <1>1
<1>3. PICK n \in N : \A k \in N : n <= k
  BY Zenon, <1>2, LeastNatural
<1>4. PICK r \in S : n = r.serial
  BY <1>3
<1>5. \A q \in S : r.serial <= q.serial
  BY <1>3, <1>4
<1> QED BY <1>5

(* GenerateReportSegments yields well-formed reports, finitely many, and    *)
(* claims nothing the receiver does not have.                               *)
LEMMA ReportsWellFormed ==
    ASSUME NEW ckpt \in Nat, NEW lower \in 0 .. NSeg, NEW upper \in 0 .. NSeg,
           NEW have \in SUBSET Segs, lastSerial \in Nat
    PROVE  LET new == GenerateReportSegments(ckpt, lower, upper, have)
           IN  /\ new \in SUBSET Report
               /\ Cardinality(new) \in Nat
               /\ \A r \in new : r.claims \subseteq have /\ r.retries = 0
<1> DEFINE in == have \cap (lower .. upper - 1)
           Part(i) == Cardinality({e \in in : e < i /\ e + 1 \notin in}) \div ClaimsPerReport
           Parts == {Part(i) : i \in in}
           Claims(k) == {i \in in : Part(i) = k}
           Before(k) == {i \in in : Part(i) < k}
           Lower(k) == IF Before(k) = {} THEN lower ELSE Max(Before(k)) + 1
           Rep(k) == NewReport(lastSerial + 1 + k, ckpt, Lower(k), Max(Claims(k)) + 1, Claims(k))
           new == GenerateReportSegments(ckpt, lower, upper, have)
<1>1. CASE have = Segs
  <2>1. new = {NewReport(lastSerial + 1, ckpt, 0, NSeg, Segs)}
    BY <1>1 DEF GenerateReportSegments
  <2>2. NewReport(lastSerial + 1, ckpt, 0, NSeg, Segs) \in Report
    BY SegmentsAssumption, ReceiverAssumption, SMT DEF NewReport, Report, Serials
  <2>3. Cardinality(new) = 1
    BY Zenon, <2>1, FS_Singleton
  <2> QED BY <2>1, <2>2, <2>3, <1>1, SMT DEF NewReport
<1>2. CASE have # Segs /\ 0 .. upper - 1 \subseteq have
  <2>1. new = {NewReport(lastSerial + 1, ckpt, 0, upper, 0 .. upper - 1)}
    BY <1>2 DEF GenerateReportSegments
  <2>2. NewReport(lastSerial + 1, ckpt, 0, upper, 0 .. upper - 1) \in Report
    BY <1>2, SegmentsAssumption, ReceiverAssumption, SMT DEF NewReport, Report, Serials
  <2>3. Cardinality(new) = 1
    BY Zenon, <2>1, FS_Singleton
  <2> QED BY <2>1, <2>2, <2>3, <1>2, SMT DEF NewReport
<1>3. CASE have # Segs /\ ~(0 .. upper - 1 \subseteq have)
  <2>1. new = {Rep(k) : k \in Parts}
    BY <1>3 DEF GenerateReportSegments
  <2>2. in \in SUBSET Segs /\ IsFiniteSet(in)
    BY SegsFinite, FS_Subset
  <2>3. ASSUME NEW i \in in PROVE Part(i) \in Nat
    <3>1. Cardinality({e \in in : e < i /\ e + 1 \notin in}) \in Nat
      BY <2>2, FS_Subset, FS_CardinalityType
    <3>2. \A n \in Nat : n \div ClaimsPerReport \in Nat
      BY ReceiverAssumption, SMT
    <3> QED BY <3>1, <3>2
  <2>4. ASSUME NEW k \in Parts PROVE Claims(k) # {} /\ Max(Claims(k)) \in Segs
    BY Zenon, <2>2, MaxOfSegments
  <2>5. ASSUME NEW k PROVE Lower(k) \in 0 .. NSeg
    <3>1. Before(k) # {} => Max(Before(k)) \in Segs
      BY Zenon, <2>2, MaxOfSegments
    <3> QED BY <3>1, SegmentsAssumption, SMT DEF Segs
  <2>6. ASSUME NEW k \in Parts
        PROVE  Rep(k) \in Report /\ Rep(k).claims \subseteq have /\ Rep(k).retries = 0
    <3>0. k \in Nat
      BY Zenon, <2>3
    <3>1. lastSerial + 1 + k \in Nat
      <4> HIDE DEF Parts
      <4> QED BY <3>0, SMT
    <3>2. Max(Claims(k)) + 1 \in 0 .. NSeg
      <4>1. Max(Claims(k)) \in 0 .. NSeg - 1
        BY Zenon, <2>4 DEF Segs
      <4> HIDE DEF Claims, Parts
      <4> QED BY <4>1, SegmentsAssumption, SMT
    <3>3. Claims(k) \subseteq have /\ have \subseteq Segs
      OBVIOUS
    <3> HIDE DEF Claims, Lower
    <3> QED BY <3>1, <3>2, <3>3, <2>5, ReceiverAssumption, SMT DEF NewReport, Report, Serials
  <2>7. Cardinality(new) \in Nat
    <3> DEFINE f == [i \in in |-> Rep(Part(i))]
    <3>1. f \in Surjection(in, new)
      <4> HIDE DEF Rep, Part
      <4> QED BY <2>1 DEF Surjection
    <3> HIDE DEF f
    <3> QED BY <3>1, <2>2, FS_Surjection, FS_CardinalityType
  <2> HIDE DEF Rep, Parts
  <2> QED BY <2>1, <2>6, <2>7
<1> QED BY <1>1, <1>2, <1>3

(* So does HaveReportSegmentsToSend for any checkpoint segment. *)
LEMMA NewReportsWellFormed ==
    ASSUME NEW m \in DataSegment, NEW have \in SUBSET Segs, ReceiverTypeOK
    PROVE  LET new == HaveReportSegmentsToSend(m, have)
           IN  /\ new \in SUBSET Report
               /\ Cardinality(new) \in Nat
               /\ \A r \in new : r.claims \subseteq have
<1> DEFINE matches == {r \in reports : r.ckpt = m.ckpt \/ r.serial = m.serial}
           first == CHOOSE r \in matches : \A q \in matches : r.serial <= q.serial
           before == {o \in ckptSeen : o < m.seg}
           lower == IF matches # {} THEN first.lower
                    ELSE IF before = {} THEN 0
                    ELSE Max(before) + 1
           new == HaveReportSegmentsToSend(m, have)
<1>1. m.ckpt \in Nat /\ m.seg + 1 \in 0 .. NSeg
  BY SegmentsAssumption, SMT DEF DataSegment, Segs
<1>2. matches # {} => first \in Report
  <2>1. matches \in SUBSET Report
    BY DEF ReceiverTypeOK
  <2> HIDE DEF matches
  <2> QED BY <2>1, OldestReport
<1>3. before # {} => Max(before) \in Segs
  BY MaxOfSegments DEF ReceiverTypeOK
<1>4. lower \in 0 .. NSeg
  <2>1. CASE matches # {}
    <3> HIDE DEF matches, first
    <3> QED BY <2>1, <1>2 DEF Report
  <2>2. CASE matches = {} /\ before = {}
    <3> HIDE DEF matches, before, first
    <3> QED BY <2>2, SegmentsAssumption, SMT
  <2>3. CASE matches = {} /\ before # {}
    <3> HIDE DEF matches, before, first
    <3> QED BY <2>3, <1>3, SegmentsAssumption, SMT DEF Segs
  <2> QED BY <2>1, <2>2, <2>3
<1>5. CASE matches # {} /\ first.ckpt = m.ckpt
  <2>1. new = {}
    BY <1>5 DEF HaveReportSegmentsToSend
  <2> QED BY <2>1, FS_EmptySet, SMT
<1>6. CASE ~(matches # {} /\ first.ckpt = m.ckpt)
  <2>1. new = GenerateReportSegments(m.ckpt, lower, m.seg + 1, have)
    BY <1>6 DEF HaveReportSegmentsToSend
  <2>2. lastSerial \in Nat
    BY DEF ReceiverTypeOK, Serials
  <2> HIDE DEF lower
  <2> QED BY <2>1, <2>2, <1>1, <1>4, ReportsWellFormed, SMT
<1> QED BY <1>5, <1>6

(* What generate_RS does to the session and puts on the wire. *)
LEMMA GenerateRS ==
    ASSUME NEW m \in DataSegment, NEW have \in SUBSET Segs, ReceiverTypeOK,
           net \subseteq Segment, generate_RS(m, have)
    PROVE  /\ net \subseteq net' /\ net' \subseteq Segment
           /\ \A x \in net' \ net : x.type = "RS"
           /\ reports' \in SUBSET Report
           /\ lastSerial' \in Serials
           /\ ckptSeen' \in SUBSET Segs
           /\ rState' = "RS"
           /\ (\A r \in reports : r.claims \subseteq have) =>
                  /\ \A r \in reports' : r.claims \subseteq have
                  /\ \A x \in net' \ net : x.claims \subseteq have
<1> DEFINE new == HaveReportSegmentsToSend(m, have)
           sent == {AsSegment(r) : r \in {q \in reports \cup new : q.ckpt = m.ckpt}}
<1>1. /\ new \in SUBSET Report
      /\ Cardinality(new) \in Nat
      /\ \A r \in new : r.claims \subseteq have
  BY NewReportsWellFormed
<1>2. /\ reports' = reports \cup new
      /\ lastSerial' = lastSerial + Cardinality(new)
      /\ ckptSeen' = ckptSeen \cup {m.seg}
      /\ net' = net \cup sent
      /\ rState' = "RS"
  BY DEF generate_RS
<1>3. \A r \in Report : AsSegment(r) \in Segment /\ AsSegment(r).type = "RS"
                        /\ AsSegment(r).claims = r.claims
  BY DEF AsSegment, Report, Segment, ReportSegment
<1>4. reports \subseteq Report /\ lastSerial \in Nat /\ ckptSeen \subseteq Segs /\ m.seg \in Segs
  BY DEF ReceiverTypeOK, Serials, DataSegment
<1>5. /\ sent \subseteq Segment /\ \A x \in sent : x.type = "RS"
      /\ (\A r \in reports : r.claims \subseteq have) => \A x \in sent : x.claims \subseteq have
  <2> HIDE DEF new
  <2> QED BY <1>1, <1>3, <1>4
<1> HIDE DEF new, sent
<1> QED BY <1>1, <1>2, <1>4, <1>5, SMT DEF Serials

-----------------------------------------------------------------------------
(* Type correctness *)

(* The sequence operations used on queues and on the checkpoint table keep  *)
(* the type of the elements.                                                *)
LEMMA AppendType ==
    ASSUME NEW S, NEW q \in Seq(S), NEW e \in S
    PROVE  Append(q, e) \in Seq(S) /\ Len(q) \in Nat
BY SMT

(* Appending the resends to a transmit queue gives a queue.                 *)
LEMMA ConcatType ==
    ASSUME NEW S, NEW q \in Seq(S), NEW r \in Seq(S)
    PROVE  q \o r \in Seq(S)
BY SMT

(* The empty queue is a queue.                                              *)
LEMMA EmptyType ==
    ASSUME NEW S
    PROVE  <<>> \in Seq(S)
BY SMT

(* Changing one entry of a queue, or of the checkpoint table, keeps it one. *)
LEMMA ExceptType ==
    ASSUME NEW S, NEW q \in Seq(S), NEW i \in DOMAIN q, NEW e \in S
    PROVE  [q EXCEPT ![i] = e] \in Seq(S)
BY SMT

(* A function on 1 .. n is a queue.                                         *)
LEMMA FunctionType ==
    ASSUME NEW S, NEW n \in Nat, NEW f \in [1 .. n -> S]
    PROVE  f \in Seq(S)
BY SMT

(* Every handler of LTPNode::Sender and of LTPUDPSender keeps the types.    *)
LEMMA SenderTypes ==
    ASSUME TypeOK, SenderStep, UNCHANGED receiverVars
    PROVE  TypeOK'
<1> USE SegmentsAssumption, SenderAssumption DEF TypeOK, SenderTypeOK
<1>0. ReceiverTypeOK'
  BY DEF ReceiverTypeOK, receiverVars
<1>1. CASE process_bundles
  <2>1. produced \in Segs /\ produced + 1 \in 0 .. NSeg
    BY <1>1, SMT DEF process_bundles, Segs
  <2>2. \A tm \in {"none", "own"} : [seg |-> produced, timer |-> tm] \in Entry
    BY <2>1 DEF Entry
  <2>3. lowQ' \in Seq(Entry)
    <3>1. \E tm \in {"none", "own"} : lowQ' = Append(lowQ, [seg |-> produced, timer |-> tm])
      BY <1>1 DEF process_bundles
    <3> QED BY <3>1, <2>2, AppendType, SMT
  <2>4. checkpoints' \in Seq(Stops)
    <3>1. checkpoints' = checkpoints \/ checkpoints' = Append(checkpoints, produced)
      BY <1>1 DEF process_bundles
    <3>2. produced \in Stops
      BY <2>1 DEF Stops
    <3> QED BY Zenon, <3>1, <3>2, AppendType
  <2>5. ckptId' \in [Segs -> Nat]
    <3>1. Len(checkpoints) + 1 \in Nat
      BY SMT
    <3>2. ckptId' = ckptId \/ ckptId' = [ckptId EXCEPT ![produced] = Len(checkpoints) + 1]
      BY <1>1 DEF process_bundles
    <3> QED BY Zenon, <3>1, <3>2
  <2> QED BY Zenon, <2>1, <2>3, <2>4, <2>5, <1>0, <1>1 DEF process_bundles
<1>2. CASE AbortExpired
  BY <1>0, <1>2 DEF AbortExpired, ckptVars, queueVars
<1>3. CASE Dequeue
  <2> DEFINE entry == Head(highQ \o lowQ)
  <2>1. highQ \o lowQ \in Seq(Entry) /\ highQ \o lowQ # <<>>
    BY <1>3, SMT DEF Dequeue
  <2>2. entry \in Entry
    BY <2>1, SMT
  <2>3. highQ' \in Seq(Entry) /\ lowQ' \in Seq(Entry)
    BY <1>3, SMT DEF Dequeue
  <2>4. inHand' \in Encoded \cup {Idle} /\ unreadable' \subseteq Segs
    <3>1. /\ \/ inHand' = inHand
             \/ inHand' = [seg |-> entry.seg, timer |-> entry.timer,
                           ckpt |-> ckptId[entry.seg], serial |-> rptSerial[entry.seg]]
          /\ unreadable' = unreadable \/ unreadable' = unreadable \cup {entry.seg}
      BY <1>3 DEF Dequeue
    <3> HIDE DEF entry
    <3>2. entry.seg \in Segs /\ entry.timer \in {"none", "own", "stale"}
      BY <2>2 DEF Entry
    <3> QED BY <3>1, <3>2, SMT DEF Encoded
  <2> QED BY <2>3, <2>4, <1>0, <1>3 DEF Dequeue, ckptVars
<1>4. CASE Transmit
  <2>1. inHand \in Encoded
    BY <1>4 DEF Transmit
  <2>2. net' \subseteq Segment /\ dsTimer' \subseteq Segs
    BY <2>1, <1>4, SMT DEF Transmit, Send, Segment, DataSegment, Encoded
  <2> QED BY <2>2, <1>0, <1>4 DEF Transmit, ckptVars
<1>5. CASE \E m \in Sent("RS") : process_RS(m)
  <2>1. PICK m \in Sent("RS") : process_RS(m)
    BY <1>5
  <2>2. m \in ReportSegment
    BY Zenon DEF Sent, Segment, DataSegment, ReportSegment, ReportAckSegment, CancelSegment,
           CancelAckSegment
  <2>3. net' \subseteq Segment
    BY <2>1, <2>2, SMT DEF process_RS, Send, RAS, CS_BS, Segment, ReportSegment, ReportAckSegment,
                      CancelSegment
  <2>4. sState' \in {"DS", "CS", "CLOSED", "CANCELLED", "GONE"}
    BY <2>1 DEF process_RS, SessionCompleted, ApplyReport
  <2>5. outcome' \in {"pending", "success", "failure", "expired"}
    BY <2>1 DEF process_RS, SessionCompleted, PostTransmitProcessing, ApplyReport
  <2>6. red' \subseteq Segs /\ dsTimer' \subseteq Segs
    BY <2>1 DEF process_RS, SessionCompleted, RemoveSegments, ApplyReport
  <2>7. /\ ckptId' \in [Segs -> Nat]
        /\ rptSerial' \in [Segs -> Serials]
        /\ checkpoints' \in Seq(Stops)
        /\ highQ' \in Seq(Entry)
    <3>1. CASE UNCHANGED <<ckptVars, highQ>> /\ checkpoints' \in {checkpoints, <<>>}
      BY Zenon, <3>1, EmptyType DEF ckptVars
    <3>2. CASE /\ Find_Checkpoint_Stop_Byte(m.ckpt) >= 0
               /\ Send_Remaining_Segments(m, Flag_Checkpoint_As_Claimed(m))
      <4> DEFINE flagged == Flag_Checkpoint_As_Claimed(m)
                 resend == MissingFrom(m) \ Queued
      <4>1. flagged \in Seq(Stops)
        <5>1. m.ckpt \in DOMAIN checkpoints /\ ClaimedCkpt \in Stops
          BY <3>2, SMT DEF Find_Checkpoint_Stop_Byte, Unknown, Stops
        <5> QED BY <5>1, ExceptType DEF Flag_Checkpoint_As_Claimed
      <4>2. MissingFrom(m) \subseteq Segs /\ resend \in SUBSET Segs
        BY DEF MissingFrom, Addressed
      <4>3. CASE checkpoints' = flagged /\ UNCHANGED <<ckptVars, highQ>>
        BY <4>1, <4>3 DEF ckptVars
      <4>4. ASSUME NEW last \in MissingFrom(m),
                   ckptId' = [ckptId EXCEPT ![last] = Len(flagged) + 1],
                   rptSerial' = [rptSerial EXCEPT ![last] = m.serial],
                   checkpoints' = Append(flagged, last),
                   NEW q \in [1 .. Cardinality(resend) -> resend],
                   highQ' = highQ \o [i \in DOMAIN q |->
                        [seg |-> q[i], timer |-> IF q[i] = last THEN "own" ELSE "none"]]
            PROVE  /\ ckptId' \in [Segs -> Nat]
                   /\ rptSerial' \in [Segs -> Serials]
                   /\ checkpoints' \in Seq(Stops)
                   /\ highQ' \in Seq(Entry)
        <5> HIDE DEF flagged, resend
        <5>1. last \in Segs /\ last \in Stops
          BY <4>2 DEF Stops
        <5>2. checkpoints' \in Seq(Stops) /\ Len(flagged) + 1 \in Nat
          BY <4>1, <4>4, <5>1, AppendType, SMT
        <5>3. ckptId' \in [Segs -> Nat]
          BY <4>4, <5>1, <5>2
        <5>4. rptSerial' \in [Segs -> Serials]
          BY <4>4, <5>1, <2>2 DEF ReportSegment
        <5>5. Cardinality(resend) \in Nat
          BY <4>2, SegsFinite, FS_Subset, FS_CardinalityType
        <5>6. [i \in DOMAIN q |-> [seg |-> q[i], timer |-> IF q[i] = last THEN "own" ELSE "none"]]
                  \in [1 .. Cardinality(resend) -> Entry]
          BY <4>2 DEF Entry
        <5> QED BY Zenon, <4>4, <5>2, <5>3, <5>4, <5>5, <5>6, FunctionType, ConcatType
      <4> HIDE DEF flagged, resend
      <4> QED BY ZenonT(30), <4>3, <4>4, <3>2 DEF Send_Remaining_Segments, flagged, resend
    <3> QED BY <3>1, <3>2, <2>1 DEF process_RS, SessionCompleted, RemoveSegments, ApplyReport
  <2> QED BY <2>1, <2>3, <2>4, <2>5, <2>6, <2>7, <1>0 DEF process_RS
<1>6. CASE Sent("CS_BR") # {} /\ process_CS
  <2>1. net' \subseteq Segment
    BY <1>6, SMT DEF process_CS, Send, CAS_BR, Segment, CancelAckSegment
  <2>2. /\ red' \subseteq Segs /\ dsTimer' \subseteq Segs
        /\ checkpoints' \in Seq(Stops)
        /\ outcome' \in {"pending", "success", "failure", "expired"}
        /\ sState' \in {"DS", "CS", "CLOSED", "CANCELLED", "GONE"}
    BY Zenon, <1>6, EmptyType DEF process_CS, RemoveSegments, PostTransmitProcessing
  <2> QED BY <2>1, <2>2, <1>0, <1>6 DEF process_CS, ckptVars, queueVars
<1>7. CASE Sent("CAS_BS") # {} /\ process_CAS
  BY <1>0, <1>7 DEF process_CAS, ckptVars, queueVars
<1>8. CASE \E s \in Segs : data_seg_timeout(s)
  <2>1. PICK s \in Segs : data_seg_timeout(s)
    BY <1>8
  <2>2. \A e \in Entry : Superseded(e, s) \in Entry
    BY Zenon DEF Superseded, Entry
  <2>3. ASSUME NEW q \in Seq(Entry) PROVE SupersededIn(q, s) \in Seq(Entry)
    <3>1. SupersededIn(q, s) \in [1 .. Len(q) -> Entry]
      BY <2>2, SMT DEF SupersededIn
    <3>2. Len(q) \in Nat
      BY SMT
    <3> QED BY Zenon, <3>1, <3>2, FunctionType
  <2>4. Superseded(inHand, s) \in Encoded \cup {Idle}
    <3>1. CASE inHand = Idle
      BY <3>1 DEF Superseded, Idle
    <3>2. CASE inHand \in Encoded
      <4>1. [inHand EXCEPT !.timer = "stale"] \in Encoded
        BY Zenon, <3>2 DEF Encoded
      <4> QED BY <3>2, <4>1 DEF Superseded
    <3> QED BY <3>1, <3>2
  <2>5. [seg |-> s, timer |-> "own"] \in Entry
    BY DEF Entry
  <2>6. highQ' \in Seq(Entry) /\ lowQ' \in Seq(Entry) /\ inHand' \in Encoded \cup {Idle}
    <3>1. /\ lowQ' = lowQ \/ lowQ' = SupersededIn(lowQ, s)
          /\ \/ highQ' = highQ
             \/ highQ' = SupersededIn(highQ, s)
             \/ highQ' = Append(highQ, [seg |-> s, timer |-> "own"])
          /\ inHand' = inHand \/ inHand' = Superseded(inHand, s)
      BY <2>1 DEF data_seg_timeout, Renew_Retransmission_Timer
    <3> QED BY Zenon, <3>1, <2>3, <2>4, <2>5, AppendType
  <2>7. dsRetries' \in [Segs -> 0 .. RetranRetries]
    <3>1. \/ dsRetries' = dsRetries
          \/ dsRetries[s] < RetranRetries /\ dsRetries' = [dsRetries EXCEPT ![s] = @ + 1]
      BY <2>1 DEF data_seg_timeout
    <3>2. dsRetries[s] < RetranRetries => dsRetries[s] + 1 \in 0 .. RetranRetries
      <4>1. dsRetries[s] \in 0 .. RetranRetries
        OBVIOUS
      <4> QED BY <4>1, SMT
    <3> QED BY Zenon, <3>1, <3>2
  <2>8. /\ red' \subseteq Segs /\ dsTimer' \subseteq Segs /\ sCsRetries' \in 0 .. RetranRetries
        /\ sState' \in {"DS", "CS", "CLOSED", "CANCELLED", "GONE"}
        /\ outcome' \in {"pending", "success", "failure", "expired"}
    BY <2>1, SMT DEF data_seg_timeout, Renew_Retransmission_Timer, CancelBySender, RemoveSegments,
       PostTransmitProcessing
  <2>9. net' \subseteq Segment /\ checkpoints' \in Seq(Stops)
    <3>1. /\ net' = net \/ net' = net \cup {CS_BS}
          /\ checkpoints' = checkpoints \/ checkpoints' = <<>>
      BY <2>1 DEF data_seg_timeout, CancelBySender, RemoveSegments, Send
    <3>2. CS_BS \in Segment
      BY DEF CS_BS, Segment, CancelSegment
    <3> QED BY Zenon, <3>1, <3>2, EmptyType
  <2> QED BY <2>1, <2>6, <2>7, <2>8, <2>9, <1>0 DEF data_seg_timeout, ckptVars
<1>9. CASE Sender_cancel_seg_timeout
  BY <1>0, <1>9, SMT DEF Sender_cancel_seg_timeout, ckptVars, queueVars, Send, CS_BS, Segment, CancelSegment
<1>10. CASE Sender_start_shutdown
  BY <1>0, <1>10 DEF Sender_start_shutdown, ckptVars, queueVars
<1>11. CASE Sender_cancel_all_sessions
  BY <1>0, <1>11, EmptyType, SMT DEF Sender_cancel_all_sessions, CancelBySender, RemoveSegments,
     PostTransmitProcessing, Send, CS_BS, Segment, CancelSegment, ckptVars, queueVars
<1>12. CASE (EarlyCloseout \/ ~ReceiverOpen) /\ Sender_closeout_timer_triggered
  BY <1>0, <1>12 DEF Sender_closeout_timer_triggered, ckptVars, queueVars
<1> QED
  BY Zenon, <1>1, <1>2, <1>3, <1>4, <1>5, <1>6, <1>7, <1>8, <1>9, <1>10, <1>11, <1>12 DEF SenderStep

(* Erasing an incoming session leaves every variable well-typed. *)
LEMMA EraseTypes ==
    ASSUME ReceiverTypeOK, NEW c \in BOOLEAN, erase_incoming_session(c),
           UNCHANGED <<lastSerial, deliveries, delivered>>
    PROVE  ReceiverTypeOK'
<1>1. Cardinality(got) \in 0 .. NSeg
  BY SegsFinite, FS_Subset, FS_CardinalityType, SegmentsAssumption, SMT DEF ReceiverTypeOK
<1>2. closedSize' \in 0 .. NSeg
  BY <1>1, SegmentsAssumption, SMT DEF erase_incoming_session
<1>3. rCsRetries' \in 0 .. RcvRetries
  BY ReceiverAssumption, SMT DEF erase_incoming_session
<1>4. processed' \in BOOLEAN /\ delivered' \in BOOLEAN
  BY Zenon DEF erase_incoming_session, ReceiverTypeOK
<1> QED BY <1>2, <1>3, <1>4 DEF erase_incoming_session, ReceiverTypeOK

(* Every handler of LTPNode::Receiver keeps the types.                      *)
LEMMA ReceiverTypes ==
    ASSUME TypeOK, ReceiverStep, UNCHANGED senderVars
    PROVE  TypeOK'
<1> USE SegmentsAssumption, ReceiverAssumption DEF TypeOK
<1>0. SenderTypeOK'
  BY DEF SenderTypeOK, senderVars, ckptVars, queueVars
<1>a. Sent("DS") \subseteq DataSegment
  BY DEF Sent, Segment, DataSegment, ReportSegment, ReportAckSegment, CancelSegment,
         CancelAckSegment
<1>b. CS_BR \in Segment /\ CAS_BS \in Segment
  BY DEF CS_BR, CAS_BS, Segment, CancelSegment, CancelAckSegment
<1>c. \A r \in Report : AsSegment(r) \in Segment
  BY DEF AsSegment, Report, Segment, ReportSegment
<1>1. CASE \E m \in Sent("DS") : DataSegmentAfterClose(m)
  <2>1. PICK m \in Sent("DS") : DataSegmentAfterClose(m)
    BY <1>1
  <2>2. [type |-> "RS", serial |-> 0, ckpt |-> m.ckpt, lower |-> 0, upper |-> closedSize,
         claims |-> 0 .. closedSize - 1] \in Segment
    BY <1>a, SMT DEF ReceiverTypeOK, DataSegment, Segment, ReportSegment, Serials, Segs
  <2>3. net' \subseteq Segment
    BY <2>1, <2>2, <1>b DEF DataSegmentAfterClose, Send
  <2>4. ReceiverTypeOK'
    BY <2>1 DEF DataSegmentAfterClose, ReceiverTypeOK, receiverVars
  <2> QED BY <2>3, <2>4, <1>0
<1>2. CASE \E m \in Sent("DS") : process_incoming_data_segment(m)
  <2>1. PICK m \in Sent("DS") : process_incoming_data_segment(m)
    BY <1>2
  <2>2. m \in DataSegment /\ m.seg \in Segs
    BY <1>a DEF DataSegment
  <2>3. got' \subseteq Segs
    BY <2>1, <2>2 DEF process_incoming_data_segment, DuplicateDataSegment, NewDataSegment,
       DeliverBlock, RejectBlock, ReceiverTypeOK
  <2>4. /\ net' \subseteq Segment /\ reports' \subseteq Report /\ lastSerial' \in Serials
        /\ ckptSeen' \subseteq Segs /\ rState' \in {"NONE", "DS", "RS", "CS", "CLOSED"}
    <3>1. CASE NoReport
      BY <3>1 DEF NoReport, ReceiverTypeOK
    <3>2. CASE \E have \in SUBSET Segs : generate_RS(m, have)
      BY <3>2, <2>2, GenerateRS
    <3>3. CASE RejectBlock(m)
      BY <3>3, <1>b DEF RejectBlock, CancelByReceiver, Send, ReceiverTypeOK
    <3>4. got \in SUBSET Segs /\ got \cup {m.seg} \in SUBSET Segs /\ Segs \in SUBSET Segs
      BY <2>2 DEF ReceiverTypeOK
    <3> QED BY <3>1, <3>2, <3>3, <3>4, <2>1
            DEF process_incoming_data_segment, DuplicateDataSegment, NewDataSegment, DeliverBlock
  <2>5. processed' \in BOOLEAN /\ delivered' \in BOOLEAN
    BY <2>1, Zenon DEF process_incoming_data_segment, DuplicateDataSegment, NewDataSegment,
       DeliverBlock, RejectBlock, ReceiverTypeOK
  <2>6. /\ closedSize' \in 0 .. NSeg /\ inact' \in {"none", "running", "stale"}
        /\ rCsRetries' \in 0 .. RcvRetries /\ deliveries' \in Nat
    BY <2>1, SMT DEF process_incoming_data_segment, DuplicateDataSegment, NewDataSegment,
       DeliverBlock, RejectBlock, CancelByReceiver, StartInactivityTimerIfNone, ReceiverTypeOK
  <2> QED BY <2>3, <2>4, <2>5, <2>6, <1>0 DEF ReceiverTypeOK
<1>3. CASE \E m \in Sent("RAS") : process_RAS(m)
  <2>1. PICK m \in Sent("RAS") : process_RAS(m)
    BY <1>3
  <2>2. CASE processed
    BY Zenon, <2>1, <2>2, <1>0, EraseTypes DEF process_RAS
  <2>3. CASE ~processed
    BY <2>1, <2>3, <1>0 DEF process_RAS, StartInactivityTimerIfNone, ReceiverTypeOK
  <2> QED BY <2>2, <2>3
<1>4. CASE Sent("CS_BS") # {} /\ process_CS_BS
  <2>1. net' \subseteq Segment
    BY <1>4, <1>b DEF process_CS_BS, Send
  <2>2. ReceiverTypeOK'
    <3>1. CASE ReceiverOpen
      BY Zenon, <3>1, <1>4, EraseTypes DEF process_CS_BS
    <3>2. CASE ~ReceiverOpen
      BY <3>2, <1>4 DEF process_CS_BS, ReceiverTypeOK
    <3> QED BY <3>1, <3>2
  <2> QED BY <2>1, <2>2, <1>0
<1>5. CASE Sent("CAS_BR") # {} /\ process_CAS_BR
  BY Zenon, <1>0, <1>5, EraseTypes DEF process_CAS_BR
<1>6. CASE Receiver_inactivity_timer_triggered
  BY <1>0, <1>6, <1>b, SMT DEF Receiver_inactivity_timer_triggered, CancelByReceiver, Send,
     ReceiverTypeOK
<1>7. CASE \E r \in reports : report_seg_timeout(r)
  <2>1. PICK r \in reports : report_seg_timeout(r)
    BY <1>7
  <2>2. r \in Report /\ (r.retries < RcvRetries => [r EXCEPT !.retries = @ + 1] \in Report)
    BY SMT DEF Report, ReceiverTypeOK
  <2>3. net' \subseteq Segment /\ reports' \subseteq Report
    BY <2>1, <2>2, <1>b, <1>c DEF report_seg_timeout, erase_incoming_session,
       CancelByReceiver, Send, ReceiverTypeOK
  <2>4. CASE erase_incoming_session(FALSE)
    BY Zenon, <2>1, <2>3, <2>4, <1>0, EraseTypes DEF report_seg_timeout
  <2>5. CASE /\ UNCHANGED <<closedSize, got, processed, ckptSeen, inact, lastSerial, deliveries,
                           delivered>>
             /\ rState' \in {rState, "CS"} /\ rCsRetries' \in {rCsRetries, 0}
    BY <2>3, <2>5, <1>0, SMT DEF ReceiverTypeOK
  <2> QED BY Zenon, <2>1, <2>4, <2>5 DEF report_seg_timeout, CancelByReceiver
<1>8. CASE Receiver_cancel_seg_timeout
  <2>1. CASE rCsRetries < RcvRetries
    BY <2>1, <1>0, <1>8, <1>b, SMT DEF Receiver_cancel_seg_timeout, Send, ReceiverTypeOK
  <2>2. CASE ~(rCsRetries < RcvRetries)
    BY Zenon, <2>2, <1>0, <1>8, EraseTypes DEF Receiver_cancel_seg_timeout
  <2> QED BY <2>1, <2>2
<1>9. CASE Receiver_cancel_all_sessions
  BY <1>0, <1>9, <1>b, SMT DEF Receiver_cancel_all_sessions, CancelByReceiver, Send, ReceiverTypeOK
<1>10. CASE (EarlyCloseout \/ ~SenderOpen) /\ Receiver_closeout_timer_triggered
  BY <1>0, <1>10, SMT DEF Receiver_closeout_timer_triggered, ReceiverTypeOK
<1> QED
  BY <1>1, <1>2, <1>3, <1>4, <1>5, <1>6, <1>7, <1>8, <1>9, <1>10 DEF ReceiverStep

(* The initial state is typed.                                              *)
LEMMA InitTypes == Init => TypeOK
<1>1. SenderInit => SenderTypeOK
  <2> SUFFICES ASSUME SenderInit PROVE SenderTypeOK
    OBVIOUS
  <2>1. stopping \in BOOLEAN
    BY Zenon DEF SenderInit
  <2>2. produced \in 0 .. NSeg /\ sCsRetries \in 0 .. RetranRetries
    BY SegmentsAssumption, SenderAssumption, SMT DEF SenderInit
  <2>3. /\ ckptId \in [Segs -> Nat] /\ rptSerial \in [Segs -> Serials]
        /\ dsRetries \in [Segs -> 0 .. RetranRetries]
    BY SenderAssumption, SMT DEF SenderInit, Serials
  <2>4. checkpoints \in Seq(Stops) /\ highQ \in Seq(Entry) /\ lowQ \in Seq(Entry)
    BY EmptyType DEF SenderInit
  <2> QED BY <2>1, <2>2, <2>3, <2>4 DEF SenderInit, SenderTypeOK
<1>2. ReceiverInit => ReceiverTypeOK
  <2> SUFFICES ASSUME ReceiverInit PROVE ReceiverTypeOK
    OBVIOUS
  <2>1. processed \in BOOLEAN /\ delivered \in BOOLEAN
    BY Zenon DEF ReceiverInit
  <2> QED BY <2>1, SegmentsAssumption, ReceiverAssumption, SMT
          DEF ReceiverInit, ReceiverTypeOK, Serials
<1> QED BY <1>1, <1>2 DEF Init, TypeOK

(* A stutter keeps the types. *)
LEMMA StutterTypes ==
    ASSUME TypeOK, UNCHANGED vars
    PROVE  TypeOK'
BY SMT DEF vars, senderVars, receiverVars, ckptVars, queueVars, TypeOK, SenderTypeOK, ReceiverTypeOK

(* Every variable of both engines keeps its type, whichever handlers run    *)
(* and whichever segments arrive.                                           *)
THEOREM TypeCorrect == Spec => []TypeOK
<1>1. Init => TypeOK
  BY InitTypes
<1>2. TypeOK /\ [Next]_vars => TypeOK'
  BY StutterTypes, SenderTypes, ReceiverTypes DEF Next
<1> QED BY <1>1, <1>2, PTL DEF Spec

-----------------------------------------------------------------------------
(* Delivery *)

(* DeliveredOnce made inductive: as long as red_processed_ is not set, a    *)
(* session that may still accept data has not been delivered.               *)
OnceInv ==
    /\ deliveries \in {0, 1}
    /\ rState \in {"NONE", "DS", "RS"} /\ ~processed => deliveries = 0

(* However data segments are duplicated, the receiver hands a block over at *)
(* most once while it remembers the session.                                *)
THEOREM AtMostOnce == Spec => []DeliveredOnce
<1>1. Init => OnceInv
  BY DEF Init, ReceiverInit, OnceInv
<1>2. ASSUME OnceInv, [Next]_vars PROVE OnceInv'
  <2>1. CASE UNCHANGED receiverVars
    BY <1>2, <2>1 DEF OnceInv, receiverVars
  <2>2. CASE ReceiverStep
    <3> USE DEF OnceInv
    <3>1. ASSUME NEW m \in Sent("DS"), process_incoming_data_segment(m) PROVE OnceInv'
      <4>1. CASE DuplicateDataSegment(m)
        BY <1>2, <4>1 DEF DuplicateDataSegment
      <4>2. CASE NewDataSegment(m)
        BY <1>2, <4>2 DEF NewDataSegment
      <4>3. CASE DeliverBlock(m)
        BY <1>2, <4>3, SMT DEF DeliverBlock
      <4>4. CASE RejectBlock(m)
        BY <1>2, <4>4 DEF RejectBlock, CancelByReceiver
      <4> QED BY <3>1, <4>1, <4>2, <4>3, <4>4 DEF process_incoming_data_segment
    <3>2. ASSUME NEW m \in Sent("DS"), DataSegmentAfterClose(m) PROVE OnceInv'
      BY <1>2, <3>2 DEF DataSegmentAfterClose, receiverVars
    <3>3. ASSUME NEW m \in Sent("RAS"), process_RAS(m) PROVE OnceInv'
      BY <1>2, <3>3 DEF process_RAS, erase_incoming_session
    <3>4. CASE process_CS_BS \/ process_CAS_BR
      BY <1>2, <3>4 DEF process_CS_BS, process_CAS_BR, erase_incoming_session, ReceiverOpen
    <3>5. CASE Receiver_inactivity_timer_triggered \/ Receiver_cancel_all_sessions
      BY <1>2, <3>5 DEF Receiver_inactivity_timer_triggered, Receiver_cancel_all_sessions,
         CancelByReceiver
    <3>6. ASSUME NEW r \in reports, report_seg_timeout(r) PROVE OnceInv'
      BY <1>2, <3>6, SMT DEF report_seg_timeout, erase_incoming_session, CancelByReceiver
    <3>7. CASE Receiver_cancel_seg_timeout
      BY <1>2, <3>7 DEF Receiver_cancel_seg_timeout, erase_incoming_session
    <3>8. CASE Receiver_closeout_timer_triggered
      BY <1>2, <3>8 DEF Receiver_closeout_timer_triggered
    <3> HIDE DEF OnceInv
    <3> QED BY <2>2, <3>1, <3>2, <3>3, <3>4, <3>5, <3>6, <3>7, <3>8 DEF ReceiverStep
  <2>3. CASE UNCHANGED vars
    BY <2>1, <2>3 DEF vars
  <2> QED BY <1>2, <2>1, <2>2, <2>3 DEF Next
<1>3. OnceInv => DeliveredOnce
  BY SMT DEF OnceInv, DeliveredOnce
<1> QED BY <1>1, <1>2, <1>3, PTL DEF Spec
=============================================================================
