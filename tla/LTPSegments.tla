----------------------------- MODULE LTPSegments -----------------------------
(***************************************************************************)
(* The segments two LTP engines exchange about one session (LTPCommon.h),   *)
(* and the UDP path between them.                                           *)
(*                                                                          *)
(* A session carries one red block.  The block is cut once, by the sender,  *)
(* into NSeg data segments; a boundary never moves afterwards, so the model *)
(* counts in whole segments where the code counts in bytes: segment s is    *)
(* the byte range [s, s+1).  A report claims a set of segments, which is    *)
(* what its list of (offset, length) claims denotes.                        *)
(***************************************************************************)
EXTENDS Integers, FiniteSets

CONSTANTS
    NSeg,           \* data segments in the block
    MaxSerial       \* bound: report serial numbers the receiver may issue

ASSUME SegmentsAssumption == NSeg \in Nat \ {0} /\ MaxSerial \in Nat

VARIABLE
    net             \* every segment ever put on the wire, in either direction

Segs == 0 .. NSeg - 1

(* Checkpoint ids and report serial numbers; 0 stands for "none".  Only the *)
(* receiver draws new serial numbers, up to MaxSerial.                      *)
Serials == Nat

DataSegment ==
    [type : {"DS"}, seg : Segs, ckpt : Nat, serial : Serials]
ReportSegment ==
    [type : {"RS"}, serial : Serials, ckpt : Nat,
     lower : 0 .. NSeg, upper : 0 .. NSeg, claims : SUBSET Segs]
ReportAckSegment == [type : {"RAS"}, serial : Serials]
CancelSegment == [type : {"CS_BS", "CS_BR"}]
CancelAckSegment == [type : {"CAS_BS", "CAS_BR"}]

Segment ==
    DataSegment \cup ReportSegment \cup ReportAckSegment
        \cup CancelSegment \cup CancelAckSegment

(* UDP loses, duplicates and reorders datagrams.  What has been sent stays  *)
(* in net, and a handler takes any member of net at any time: never (lost), *)
(* again (duplicated), or late (reordered).                                 *)
Sent(type) == {m \in net : m.type = type}
Send(m) == net' = net \cup {m}

CS_BS  == [type |-> "CS_BS"]
CS_BR  == [type |-> "CS_BR"]
CAS_BS == [type |-> "CAS_BS"]
CAS_BR == [type |-> "CAS_BR"]
RAS(serial) == [type |-> "RAS", serial |-> serial]

(* Everything some report on the wire has claimed. *)
Claimed == UNION {m.claims : m \in Sent("RS")}
=============================================================================
