------------------------ MODULE DtpcTransportProofs --------------------------
(***************************************************************************)
(* The DTPC transport service, proved for any number of items, PDUs,        *)
(* restarts and seconds: the items reach the topic in order and once        *)
(* (ItemsInOrder), what was acknowledged is kept (AckedStaysKept), and      *)
(* every unacknowledged PDU is looked at again (UnackedStaysTimed).         *)
(*                                                                          *)
(* SenderInv says what the PDUs in existence carry: a higher number means   *)
(* later items, although a sender that restarts may give a number out       *)
(* twice.  ColInv says that the collector delivers increasing numbers, and  *)
(* AckInv that every number below the one it expects was delivered or       *)
(* given up.                                                                *)
(***************************************************************************)
EXTENDS DtpcTransport, FiniteSetTheorems, WellFoundedInduction, TLAPS

\* Leaves with arithmetic or sequences cite SMT, the others go to Zenon.
USE Zenon

-----------------------------------------------------------------------------
(* Sets of numbers and the PDUs held *)

(* A non-empty set of naturals has a least element ... *)
LEMMA LeastNatural ==
    ASSUME NEW S \in SUBSET Nat, S # {}
    PROVE  \E x \in S : \A y \in S : x <= y
<1>1. PICK x \in S : \A y \in S : ~(<<y, x>> \in OpToRel(<, Nat))
  BY NatLessThanWellFounded, WFMin
<1>2. ASSUME NEW y \in S PROVE ~(y < x)
  <2>1. ASSUME y < x PROVE <<y, x>> \in OpToRel(<, Nat)
    BY SMT, <2>1 DEF OpToRel
  <2> QED BY <2>1, <1>1
<1> QED BY SMT, <1>2

(* ... and, if it is bounded, a greatest one. *)
LEMMA GreatestNatural ==
    ASSUME NEW S \in SUBSET Nat, S # {}, NEW b \in Nat, \A x \in S : x <= b
    PROVE  Max(S) \in S /\ \A y \in S : y <= Max(S)
<1> DEFINE T == {b - x : x \in S}
<1>1. T \in SUBSET Nat /\ T # {}
  <2>1. \A x \in S : b - x \in Nat
    BY SMT
  <2> QED BY <2>1
<1>2. PICK t \in T : \A u \in T : t <= u
  BY <1>1, LeastNatural
<1>3. PICK x \in S : t = b - x
  BY <1>2
<1>4. \A y \in S : t <= b - y
  BY <1>2
<1>5. \A y \in S : x >= y
  BY SMT, <1>3, <1>4
<1>6. Max(S) \in S /\ \A y \in S : Max(S) >= y
  BY <1>5 DEF Max
<1> QED BY SMT, <1>6

Pdu == [seq_ctr : Nat, items : SUBSET Nat, creation_ts : Nat]

\* Two PDUs of a map have different numbers.
Distinct(map) == \A p, q \in map : p.seq_ctr = q.seq_ctr => p = q

LEMMA PduFields ==
    ASSUME NEW p \in Pdu
    PROVE  p.seq_ctr \in Nat /\ p.items \subseteq Nat /\ p.creation_ts \in Nat
BY DEF Pdu

(* pdu_map_.begin(): the PDU with the lowest number. *)
LEMMA FirstIsLeast ==
    ASSUME NEW map \in SUBSET Pdu, map # {}
    PROVE  First(map) \in map /\ \A q \in map : First(map).seq_ctr <= q.seq_ctr
<1> DEFINE S == {p.seq_ctr : p \in map}
<1>1. S \in SUBSET Nat /\ S # {}
  BY PduFields
<1>2. PICK x \in S : \A y \in S : x <= y
  BY <1>1, LeastNatural
<1>3. \E p \in map : \A q \in map : p.seq_ctr <= q.seq_ctr
  BY <1>2
<1> QED BY <1>3 DEF First

(* The PDUs of a map whose numbers fill an interval are as many. *)
LEMMA CountInterval ==
    ASSUME NEW run \in SUBSET Pdu, Distinct(run), NEW n \in Nat, NEW m \in Nat, n <= m,
           \A p \in run : p.seq_ctr \in (n + 1)..m,
           \A k \in (n + 1)..m : \E p \in run : p.seq_ctr = k
    PROVE  Cardinality(run) = m - n
<1> DEFINE f == [p \in run |-> p.seq_ctr]
           I == (n + 1)..m
<1>1. IsFiniteSet(I) /\ Cardinality(I) = m - n
  <2>1. n + 1 \in Int /\ m \in Int
    BY SMT
  <2>2. IsFiniteSet(I) /\ Cardinality(I) = IF n + 1 > m THEN 0 ELSE m - (n + 1) + 1
    BY <2>1, FS_Interval
  <2> QED BY SMT, <2>2
<1>2. f \in Bijection(run, I)
  <2>1. f \in [run -> I]
    OBVIOUS
  <2>2. \A p, q \in run : f[p] = f[q] => p = q
    BY DEF Distinct
  <2>3. \A k \in I : \E p \in run : f[p] = k
    OBVIOUS
  <2>4. f \in Injection(run, I) /\ f \in Surjection(run, I)
    BY <2>1, <2>2, <2>3 DEF Injection, Surjection, IsInjective
  <2> QED BY <2>4 DEF Bijection
<1>3. IsFiniteSet(run) /\ (Cardinality(run) = Cardinality(I) <=> f \in Surjection(run, I))
  <2>1. f \in Injection(run, I)
    BY <1>2 DEF Bijection
  <2> HIDE DEF f, I
  <2> QED BY <1>1, <2>1, FS_Injection
<1> QED BY <1>1, <1>2, <1>3 DEF Bijection

(* What check_for_deliverable_pdu() and deliver_pdu() deliver after number n: *)
(* the PDUs n+1, n+2, ..., m without a gap.  If none held comes before them,   *)
(* number m+1 is not held.                                                   *)
LEMMA RunIsInterval ==
    ASSUME NEW map \in SUBSET Pdu, Distinct(map), NEW n \in Nat,
           NEW b \in Nat, \A p \in map : p.seq_ctr <= b
    PROVE  LET run == InSequence(n + 1, map) IN
           \E m \in Nat :
             /\ n <= m /\ Cardinality(run) = m - n
             /\ \A p \in run : p.seq_ctr \in (n + 1)..m
             /\ \A k \in (n + 1)..m : \E p \in run : p.seq_ctr = k
             /\ (\A p \in map : p.seq_ctr > n)
                  => \A p \in map \ run : p.seq_ctr > m + 1
<1> DEFINE run == InSequence(n + 1, map)
<1>0. run \in SUBSET Pdu /\ Distinct(run) /\ run \subseteq map
  BY DEF InSequence, Distinct
<1>1. CASE \A p \in map : p.seq_ctr > n
  <2> DEFINE Held(k) == \E p \in map : p.seq_ctr = k
             S == {k \in Nat : k > n /\ ~Held(k)}
  <2>1. S # {} /\ S \in SUBSET Nat
    <3>1. ~Held(n + b + 1)
      BY SMT, PduFields
    <3>2. n + b + 1 \in Nat /\ n + b + 1 > n
      BY SMT
    <3> QED BY <3>1, <3>2
  <2>2. PICK k \in S : \A y \in S : k <= y
    BY <2>1, LeastNatural
  <2> DEFINE m == k - 1
  <2>3. k \in Nat /\ k > n /\ ~Held(k)
    BY <2>2
  <2>4. m \in Nat /\ n <= m /\ k = m + 1
    BY SMT, <2>3
  <2>5. \A j \in (n + 1)..m : Held(j)
    <3>1. SUFFICES ASSUME NEW j \in (n + 1)..m, ~Held(j) PROVE FALSE
      OBVIOUS
    <3>2. j \in Nat /\ j > n /\ ~(k <= j)
      BY SMT, <2>4, <3>1
    <3> QED BY <2>2, <3>1, <3>2
  <2>6. ASSUME NEW p \in run PROVE p.seq_ctr \in (n + 1)..m
    <3>1. p \in map /\ p.seq_ctr \in Nat
      BY <1>0, PduFields
    <3>2. p.seq_ctr > n /\ \A j \in (n + 1)..p.seq_ctr : Held(j)
      BY <1>1, <3>1 DEF InSequence
    <3>3. k \notin (n + 1)..p.seq_ctr
      BY <2>3, <3>2
    <3> HIDE DEF Held, S
    <3> QED BY SMT, <2>3, <2>4, <3>1, <3>2, <3>3
  <2>7. ASSUME NEW p \in map, p.seq_ctr <= m PROVE p \in run
    <3>1. \A q \in map : q.seq_ctr >= n + 1
      BY SMT, <1>1, PduFields
    <3>2. p.seq_ctr \in Nat
      BY PduFields
    <3>3. \A j \in (n + 1)..p.seq_ctr : j \in (n + 1)..m
      BY SMT, <2>4, <2>7, <3>2
    <3> QED BY <2>5, <3>1, <3>3 DEF InSequence
  <2>8. \A j \in (n + 1)..m : \E p \in run : p.seq_ctr = j
    <3>1. SUFFICES ASSUME NEW j \in (n + 1)..m PROVE \E p \in run : p.seq_ctr = j
      OBVIOUS
    <3>2. PICK p \in map : p.seq_ctr = j
      BY <2>5
    <3>3. p.seq_ctr <= m
      BY SMT, <2>4, <3>2
    <3> QED BY <2>7, <3>2, <3>3
  <2>9. ASSUME NEW p \in map \ run PROVE p.seq_ctr > m + 1
    <3>1. ~(p.seq_ctr <= m) /\ p.seq_ctr \in Nat
      BY <2>7, PduFields
    <3>2. p.seq_ctr # m + 1
      BY <2>3, <2>4
    <3> HIDE DEF Held, S, m
    <3> QED BY SMT, <2>4, <3>1, <3>2
  <2>10. Cardinality(run) = m - n
    <3> HIDE DEF run, m
    <3> QED BY <1>0, <2>4, <2>6, <2>8, CountInterval
  <2> QED BY <2>4, <2>6, <2>8, <2>9, <2>10
<1>2. CASE ~(\A p \in map : p.seq_ctr > n)
  <2>1. \E p \in map : ~(p.seq_ctr >= n + 1)
    BY SMT, <1>2, PduFields
  <2>2. run = {}
    BY <2>1 DEF InSequence
  <2>3. Cardinality(run) = 0 /\ n <= n /\ 0 = n - n /\ (n + 1)..n = {}
    BY SMT, <2>2, FS_EmptySet
  <2> QED BY <1>2, <2>2, <2>3
<1> QED BY <1>1, <1>2

-----------------------------------------------------------------------------
(* The invariant *)

DeliverTimer == [seq_ctr : Nat, due : Int]
Del == {delivered[i] : i \in DOMAIN delivered}
Handled == IF handling.at = "received" THEN {handling.pdu} ELSE {}
Waiting == {me_eventq_[i] : i \in DOMAIN me_eventq_}

\* The PDUs the sender and the network have, those the receiver has.
Sent == data \cup unacked_pdu_list_ \cup transmitted \cup delete_requests
Received == Handled \cup col.pdu_map_ \cup col_row.pdu_map_ \cup Del
Pdus == Sent \cup Received

SenderTyped ==
  /\ now \in Nat /\ sent \in Nat /\ me_eventq_ \in Seq(Nat)
  /\ agg \in [seq_ctr_ : Nat, items : SUBSET Nat, timer_ : BOOLEAN]
  /\ agg_row \in [seq_ctr_ : Nat, items : SUBSET Nat]
  /\ Sent \subseteq Pdu

ReceiverTyped ==
  /\ col \in [seq_ctr_ : Nat, pdu_map_ : SUBSET Pdu, timer_ : DeliverTimer]
  /\ col_row \in [seq_ctr_ : Nat, pdu_map_ : SUBSET Pdu]
  /\ \/ handling = Idle
     \/ handling = [at |-> "updating"]
     \/ \E p \in Pdu : handling = [at |-> "received", pdu |-> p]
  /\ delivered \in Seq(Pdu)

Below(S, T) == \A x \in S, y \in T : x < y

\* Items wait for the aggregator in the order in which they were sent, behind
\* those of the payload; a restart may take the payload back to its row.
QueueInv ==
  /\ agg_row.seq_ctr_ >= 1 /\ agg_row.seq_ctr_ <= agg.seq_ctr_
  /\ \A i, j \in DOMAIN me_eventq_ : i < j => me_eventq_[i] < me_eventq_[j]
  /\ Below(agg.items, Waiting) /\ Below(agg_row.items, Waiting)
  /\ \A x \in Waiting \cup agg.items \cup agg_row.items : x <= sent

\* A PDU with a higher number has later items, and the payload that is being
\* aggregated has later ones than every PDU with a lower number than its own.
\* PDUs with the same number may differ: a restarted sender goes back to its row.
PduInv ==
  /\ \A p \in Pdus :
       /\ p.seq_ctr >= 1 /\ p.seq_ctr <= agg_row.seq_ctr_
       /\ Below(p.items, Waiting) /\ \A x \in p.items : x <= sent
       /\ p.seq_ctr < agg.seq_ctr_ => Below(p.items, agg.items)
       /\ p.seq_ctr < agg_row.seq_ctr_ => Below(p.items, agg_row.items)
  /\ \A p, q \in Pdus : p.seq_ctr < q.seq_ctr => Below(p.items, q.items)

Base ==
  /\ SenderTyped /\ ReceiverTyped /\ QueueInv /\ PduInv
  /\ Distinct(col.pdu_map_) /\ Distinct(col_row.pdu_map_)

\* The receiver never stopped in a handler, and no reload left it with a PDU that
\* it also expects.
Smooth == torn \cap {"receiver", "reload"} = {}

\* What is held is later than the number expected, what was delivered is earlier
\* and was delivered in the order of the numbers; the row agrees between handlers.
Ascending ==
  \A i, j \in DOMAIN delivered : i < j => delivered[i].seq_ctr < delivered[j].seq_ctr

OrderInv ==
  /\ \A p \in col.pdu_map_ : p.seq_ctr > col.seq_ctr_
  /\ \A p \in col_row.pdu_map_ : p.seq_ctr > col_row.seq_ctr_
  /\ Ascending
  /\ \A p \in Del : p.seq_ctr < col.seq_ctr_
  /\ handling.at # "updating" => \A p \in Del : p.seq_ctr < col_row.seq_ctr_

Settled(n) == n \in skipped \/ \E p \in Del : p.seq_ctr = n

\* Every number below the one expected was delivered or given up, and the row
\* has what is held.
SettledInv ==
  /\ \A k \in 1..(col.seq_ctr_ - 1) : Settled(k)
  /\ \A k \in 1..(col_row.seq_ctr_ - 1) : Settled(k)
  /\ handling.at # "updating" => col.pdu_map_ \subseteq col_row.pdu_map_

AckInv == \A n \in acks : \/ Settled(n)
                          \/ \E p \in col.pdu_map_ \cup Handled : p.seq_ctr = n

\* All of it, for a profile with the transport service.
DtpcInv ==
  retransmission_limit > 0 =>
    /\ Base
    /\ Smooth => OrderInv
    /\ "receiver" \notin torn => SettledInv /\ AckInv

\* Without it PDUs have no numbers and nothing is kept for retransmission.
NoServiceInv ==
  retransmission_limit = 0 =>
    /\ acks = {} /\ unacked_pdu_list_ = {} /\ transmitted = {}
    /\ \A p \in data : p.seq_ctr = 0

-----------------------------------------------------------------------------
(* Items, queues and PDUs *)

(* The items waiting, before and after one is appended or taken. *)
LEMMA QueueAppend ==
    ASSUME NEW q \in Seq(Nat), NEW x \in Nat
    PROVE  LET r == Append(q, x) IN
           /\ r \in Seq(Nat)
           /\ {r[i] : i \in DOMAIN r} = {q[i] : i \in DOMAIN q} \cup {x}
           /\ ((\A i, j \in DOMAIN q : i < j => q[i] < q[j]) /\ \A i \in DOMAIN q : q[i] < x)
                => \A i, j \in DOMAIN r : i < j => r[i] < r[j]
<1> DEFINE r == Append(q, x)
<1>1. r \in Seq(Nat) /\ DOMAIN r = 1..(Len(q) + 1) /\ DOMAIN q = 1..Len(q)
      /\ Len(q) \in Nat /\ r[Len(q) + 1] = x /\ \A i \in 1..Len(q) : r[i] = q[i]
  BY SMT
<1> HIDE DEF r
<1>2. /\ DOMAIN r = DOMAIN q \cup {Len(q) + 1} /\ r[Len(q) + 1] = x
      /\ \A i \in DOMAIN q : r[i] = q[i]
  BY SMT, <1>1
<1>3. {r[i] : i \in DOMAIN r} = {q[i] : i \in DOMAIN q} \cup {x}
  <2>1. \A i \in DOMAIN r : r[i] \in {q[k] : k \in DOMAIN q} \cup {x}
    BY <1>2
  <2>2. \A i \in DOMAIN q : q[i] \in {r[k] : k \in DOMAIN r}
    BY <1>2
  <2>3. x \in {r[k] : k \in DOMAIN r}
    BY <1>2
  <2> QED BY <2>1, <2>2, <2>3
<1>4. ASSUME \A i, j \in DOMAIN q : i < j => q[i] < q[j], \A i \in DOMAIN q : q[i] < x,
             NEW i \in DOMAIN r, NEW j \in DOMAIN r, i < j
      PROVE  r[i] < r[j]
  <2>1. i \in DOMAIN q /\ (j \in DOMAIN q \/ j = Len(q) + 1)
    BY SMT, <1>1, <1>4
  <2> QED BY <1>2, <1>4, <2>1
<1>5. (\A i, j \in DOMAIN q : i < j => q[i] < q[j]) /\ (\A i \in DOMAIN q : q[i] < x)
        => \A i, j \in DOMAIN r : i < j => r[i] < r[j]
  BY <1>4
<1> QED BY <1>1, <1>3, <1>5 DEF r

LEMMA QueueTail ==
    ASSUME NEW q \in Seq(Nat), q # <<>>,
           \A i, j \in DOMAIN q : i < j => q[i] < q[j]
    PROVE  LET r == Tail(q)
               In == {q[i] : i \in DOMAIN q}
               Rest == {r[i] : i \in DOMAIN r} IN
           /\ r \in Seq(Nat) /\ Rest \subseteq In
           /\ Head(q) \in In /\ Head(q) \in Nat /\ Below({Head(q)}, Rest)
           /\ \A i, j \in DOMAIN r : i < j => r[i] < r[j]
<1> DEFINE r == Tail(q)
<1>1. r \in Seq(Nat) /\ DOMAIN r = 1..(Len(q) - 1) /\ DOMAIN q = 1..Len(q)
      /\ Len(q) \in Nat /\ Len(q) >= 1 /\ \A i \in 1..(Len(q) - 1) : r[i] = q[i + 1]
  BY SMT
<1>2. Head(q) = q[1] /\ 1 \in DOMAIN q /\ q[1] \in Nat
  BY SMT, <1>1
<1> HIDE DEF r
<1>3. \A i \in DOMAIN r : i + 1 \in DOMAIN q /\ 1 < i + 1 /\ r[i] = q[i + 1]
  BY SMT, <1>1
<1>4. \A i, j \in DOMAIN r : i < j => i + 1 < j + 1
  BY SMT, <1>1
<1>5. \A i, j \in DOMAIN r : i < j => r[i] < r[j]
  BY <1>3, <1>4
<1>6. {r[i] : i \in DOMAIN r} \subseteq {q[i] : i \in DOMAIN q}
  BY <1>3
<1>7. Below({Head(q)}, {r[i] : i \in DOMAIN r})
  BY <1>2, <1>3 DEF Below
<1> QED BY <1>1, <1>2, <1>5, <1>6, <1>7 DEF r

LEMMA ReceivedTyped ==
    ASSUME ReceiverTyped
    PROVE  /\ Received \subseteq Pdu
           /\ col.seq_ctr_ \in Nat /\ col.pdu_map_ \subseteq Pdu /\ col.timer_ \in DeliverTimer
           /\ col_row.seq_ctr_ \in Nat /\ col_row.pdu_map_ \subseteq Pdu /\ Del \subseteq Pdu
           /\ handling.at = "received" => handling.pdu \in Pdu
<1>1. /\ col.seq_ctr_ \in Nat /\ col.pdu_map_ \subseteq Pdu /\ col.timer_ \in DeliverTimer
      /\ col_row.seq_ctr_ \in Nat /\ col_row.pdu_map_ \subseteq Pdu
  BY DEF ReceiverTyped
<1>2. Del \subseteq Pdu
  <2>1. \A i \in DOMAIN delivered : delivered[i] \in Pdu
    BY SMT DEF ReceiverTyped
  <2> QED BY <2>1 DEF Del
<1>3. handling.at = "received" => handling.pdu \in Pdu
  <2>1. CASE handling = Idle
    BY <2>1 DEF Idle
  <2>2. CASE handling = [at |-> "updating"]
    BY <2>2
  <2>3. CASE \E p \in Pdu : handling = [at |-> "received", pdu |-> p]
    BY SMT, <2>3
  <2> QED BY <2>1, <2>2, <2>3 DEF ReceiverTyped
<1> QED BY <1>1, <1>2, <1>3 DEF Received, Handled

LEMMA PdusTyped ==
    ASSUME Base
    PROVE  Pdus \subseteq Pdu
BY ReceivedTyped DEF Base, SenderTyped, Pdus

(* A step that leaves the aggregator alone and makes no PDU.                 *)
LEMMA SenderStays ==
    ASSUME QueueInv, PduInv, UNCHANGED <<sent, me_eventq_, agg, agg_row>>, Pdus' \subseteq Pdus
    PROVE  QueueInv' /\ PduInv'
<1>1. QueueInv' /\ Waiting' = Waiting
  BY DEF QueueInv, Waiting
<1>2. PduInv'
  <2>1. ASSUME NEW p \in Pdus'
        PROVE  /\ p.seq_ctr >= 1 /\ p.seq_ctr <= agg_row'.seq_ctr_
               /\ Below(p.items, Waiting') /\ \A x \in p.items : x <= sent'
               /\ p.seq_ctr < agg'.seq_ctr_ => Below(p.items, agg'.items)
               /\ p.seq_ctr < agg_row'.seq_ctr_ => Below(p.items, agg_row'.items)
    <3>1. p \in Pdus
      OBVIOUS
    <3> QED BY <1>1, <3>1 DEF PduInv
  <2>2. ASSUME NEW p \in Pdus', NEW q \in Pdus', p.seq_ctr < q.seq_ctr
        PROVE  Below(p.items, q.items)
    BY <2>2 DEF PduInv
  <2> QED BY <2>1, <2>2 DEF PduInv
<1> QED BY <1>1, <1>2

-----------------------------------------------------------------------------
(* deliver_pdu() *)

LEMMA TimerTyped ==
    ASSUME NEW p \in Pdu
    PROVE  TimerFor(p) \in DeliverTimer
<1>1. p.seq_ctr \in Nat /\ expiration_ts(p) - 1 \in Int
  BY SMT, PduFields, DtpcAssumption DEF expiration_ts
<1> HIDE DEF expiration_ts
<1> QED BY <1>1 DEF TimerFor, DeliverTimer

LEMMA Concatenation ==
    ASSUME NEW q \in Seq(Pdu), NEW r \in Seq(Pdu)
    PROVE  /\ q \o r \in Seq(Pdu) /\ DOMAIN (q \o r) = 1..(Len(q) + Len(r))
           /\ \A i \in 1..Len(q) : (q \o r)[i] = q[i]
           /\ \A i \in 1..Len(r) : (q \o r)[Len(q) + i] = r[i]
BY SMT

(* deliver_pdu(pdu) when number n is expected delivers the PDU and n+1, ..., m  *)
(* of those held, in this order, and expects m+1 afterwards.                 *)
LEMMA Delivery ==
    ASSUME ReceiverTyped, NEW pdu \in Pdu, NEW n \in Nat, NEW map \in SUBSET Pdu,
           Distinct(map), NEW b \in Nat, \A p \in map : p.seq_ctr <= b,
           NEW timer \in DeliverTimer, deliver_pdu(pdu, n, map, timer)
    PROVE  \E m \in Nat :
             /\ n <= m
             /\ col' \in [seq_ctr_ : Nat, pdu_map_ : SUBSET Pdu, timer_ : DeliverTimer]
             /\ col'.seq_ctr_ = m + 1 /\ col'.pdu_map_ \subseteq map
             /\ delivered' \in Seq(Pdu)
             /\ Del \cup {pdu} \subseteq Del' /\ Del' \subseteq Del \cup {pdu} \cup map
             /\ \A k \in (n + 1)..m : \E p \in Del' : p.seq_ctr = k
             /\ \A p \in map \ col'.pdu_map_ : p.seq_ctr \in (n + 1)..m
             /\ (\A p \in map : p.seq_ctr > n) => \A p \in col'.pdu_map_ : p.seq_ctr > m + 1
             /\ (pdu.seq_ctr = n /\ Ascending /\ \A p \in Del : p.seq_ctr < n)
                  => Ascending' /\ \A p \in Del' : p.seq_ctr <= m
<1> DEFINE run == InSequence(n + 1, map)
           rest == map \ run
           kept == IF run = {} THEN timer ELSE NoTimer
           new == IF rest # {} /\ kept = NoTimer THEN TimerFor(First(rest)) ELSE kept
           g == [i \in 1..Cardinality(run) |-> CHOOSE p \in run : p.seq_ctr = n + i]
           L == Len(delivered)
<1>1. PICK m \in Nat :
             /\ n <= m /\ Cardinality(run) = m - n
             /\ \A p \in run : p.seq_ctr \in (n + 1)..m
             /\ \A k \in (n + 1)..m : \E p \in run : p.seq_ctr = k
             /\ (\A p \in map : p.seq_ctr > n) => \A p \in map \ run : p.seq_ctr > m + 1
  <2> HIDE DEF run
  <2>1. LET r == InSequence(n + 1, map) IN
           \E m \in Nat :
             /\ n <= m /\ Cardinality(r) = m - n
             /\ \A p \in r : p.seq_ctr \in (n + 1)..m
             /\ \A k \in (n + 1)..m : \E p \in r : p.seq_ctr = k
             /\ (\A p \in map : p.seq_ctr > n) => \A p \in map \ r : p.seq_ctr > m + 1
    BY RunIsInterval
  <2> QED BY <2>1 DEF run
<1>2. /\ delivered' = delivered \o <<pdu>> \o g
      /\ col' = [seq_ctr_ |-> n + 1 + Cardinality(run), pdu_map_ |-> rest, timer_ |-> new]
  BY DEF deliver_pdu
<1>3. run \subseteq map /\ rest \subseteq map /\ map \ rest = run
  BY DEF InSequence
<1> HIDE DEF run
<1>4. col' \in [seq_ctr_ : Nat, pdu_map_ : SUBSET Pdu, timer_ : DeliverTimer]
      /\ col'.seq_ctr_ = m + 1 /\ col'.pdu_map_ = rest
  <2>1. n + 1 + Cardinality(run) = m + 1 /\ m + 1 \in Nat
    BY SMT, <1>1
  <2>2. NoTimer \in DeliverTimer
    BY SMT DEF NoTimer, DeliverTimer
  <2>3. \A p \in Pdu : TimerFor(p) \in DeliverTimer
    BY TimerTyped
  <2>4. rest # {} => First(rest) \in Pdu
    <3> HIDE DEF rest
    <3> QED BY <1>3, FirstIsLeast
  <2>5. new \in DeliverTimer
    BY <2>2, <2>3, <2>4
  <2> HIDE DEF rest, new
  <2> QED BY <1>2, <1>3, <2>1, <2>5
<1>5. /\ g \in [1..(m - n) -> Pdu]
      /\ \A i \in 1..(m - n) : g[i] \in map /\ g[i].seq_ctr = n + i
  <2>1. DOMAIN g = 1..(m - n)
    BY <1>1
  <2>2. ASSUME NEW i \in 1..(m - n) PROVE g[i] \in run /\ g[i].seq_ctr = n + i
    <3>1. n + i \in (n + 1)..m
      BY SMT, <1>1
    <3>2. \E p \in run : p.seq_ctr = n + i
      BY <1>1, <3>1
    <3> QED BY <1>1, <3>2
  <2> QED BY <1>1, <1>3, <2>1, <2>2
<1> HIDE DEF g
<1>6. /\ L \in Nat /\ DOMAIN delivered = 1..L
      /\ delivered' \in Seq(Pdu) /\ DOMAIN delivered' = 1..(L + 1 + (m - n))
      /\ \A i \in 1..L : delivered'[i] = delivered[i]
      /\ delivered'[L + 1] = pdu
      /\ \A i \in 1..(m - n) : delivered'[L + 1 + i] = g[i]
  <2>1. delivered \in Seq(Pdu) /\ L \in Nat /\ DOMAIN delivered = 1..L
    BY SMT DEF ReceiverTyped
  <2>2. m - n \in Nat
    BY SMT, <1>1
  <2>3. g \in Seq(Pdu) /\ Len(g) = m - n
    BY SMT, <1>5, <2>2
  <2> DEFINE h == delivered \o <<pdu>>
  <2>4. /\ h \in Seq(Pdu) /\ Len(h) = L + 1 /\ h[L + 1] = pdu
        /\ \A i \in 1..L : h[i] = delivered[i]
    BY SMT, <2>1
  <2>5. delivered' = h \o g
    BY <1>2
  <2> HIDE DEF h, L
  <2>6. /\ h \o g \in Seq(Pdu) /\ DOMAIN (h \o g) = 1..(L + 1 + (m - n))
        /\ \A i \in 1..(L + 1) : (h \o g)[i] = h[i]
        /\ \A i \in 1..(m - n) : (h \o g)[L + 1 + i] = g[i]
    <3>1. /\ h \o g \in Seq(Pdu) /\ DOMAIN (h \o g) = 1..(Len(h) + Len(g))
          /\ \A i \in 1..Len(h) : (h \o g)[i] = h[i]
          /\ \A i \in 1..Len(g) : (h \o g)[Len(h) + i] = g[i]
      BY <2>3, <2>4, Concatenation
    <3> QED BY <2>3, <2>4, <3>1
  <2>7. 1..L \subseteq 1..(L + 1) /\ L + 1 \in 1..(L + 1)
    BY SMT, <2>1
  <2> QED BY <2>1, <2>4, <2>5, <2>6, <2>7
<1> HIDE DEF L
<1>7. /\ \A i \in DOMAIN delivered' :
           i \in 1..L \/ i = L + 1 \/ \E j \in 1..(m - n) : i = L + 1 + j
      /\ 1..L \subseteq DOMAIN delivered' /\ L + 1 \in DOMAIN delivered'
      /\ \A i \in 1..(m - n) : L + 1 + i \in DOMAIN delivered'
  <2>1. ASSUME NEW i \in DOMAIN delivered', i \notin 1..L, i # L + 1
        PROVE  \E j \in 1..(m - n) : i = L + 1 + j
    <3>1. i \in 1..(L + 1 + (m - n)) /\ L \in Nat
      BY <1>6
    <3>2. i - L - 1 \in 1..(m - n) /\ i = L + 1 + (i - L - 1)
      BY SMT, <1>1, <2>1, <3>1
    <3> QED BY <3>2
  <2>2. /\ 1..L \subseteq DOMAIN delivered' /\ L + 1 \in DOMAIN delivered'
        /\ \A i \in 1..(m - n) : L + 1 + i \in DOMAIN delivered'
    BY SMT, <1>1, <1>6
  <2> QED BY <2>1, <2>2
<1>8. Del \cup {pdu} \subseteq Del' /\ Del' \subseteq Del \cup {pdu} \cup map
  <2>1. \A i \in DOMAIN delivered : delivered[i] = delivered'[i] /\ i \in DOMAIN delivered'
    BY <1>6, <1>7
  <2>2. \A i \in DOMAIN delivered' : delivered'[i] \in Del \cup {pdu} \cup map
    <3>1. ASSUME NEW i \in DOMAIN delivered' PROVE delivered'[i] \in Del \cup {pdu} \cup map
      <4>1. CASE i \in 1..L
        BY <1>6, <4>1 DEF Del
      <4>2. CASE i = L + 1
        BY <1>6, <4>2
      <4>3. CASE \E j \in 1..(m - n) : i = L + 1 + j
        BY <1>5, <1>6, <4>3
      <4> QED BY <1>7, <4>1, <4>2, <4>3
    <3> QED BY <3>1
  <2> QED BY <1>6, <1>7, <2>1, <2>2 DEF Del
<1>9. ASSUME NEW k \in (n + 1)..m PROVE \E p \in Del' : p.seq_ctr = k
  <2>1. k - n \in 1..(m - n) /\ k = n + (k - n)
    BY SMT, <1>1
  <2>2. delivered'[L + 1 + (k - n)].seq_ctr = k /\ L + 1 + (k - n) \in DOMAIN delivered'
    BY <1>5, <1>6, <1>7, <2>1
  <2> QED BY <2>2 DEF Del
<1>10. ASSUME pdu.seq_ctr = n, Ascending, \A p \in Del : p.seq_ctr < n
       PROVE  Ascending' /\ \A p \in Del' : p.seq_ctr <= m
  <2>1. \A i \in 1..L : delivered'[i].seq_ctr \in Nat /\ delivered'[i].seq_ctr < n
    BY <1>6, <1>10, ReceivedTyped, PduFields DEF Del
  <2>2. delivered'[L + 1].seq_ctr = n
    BY <1>6, <1>10
  <2>3. \A i \in 1..(m - n) : delivered'[L + 1 + i].seq_ctr = n + i
    BY <1>5, <1>6
  <2>4. ASSUME NEW i \in DOMAIN delivered', NEW j \in DOMAIN delivered', i < j
        PROVE  delivered'[i].seq_ctr < delivered'[j].seq_ctr
    <3>1. CASE j \in 1..L
      <4>1. i \in 1..L
        BY SMT, <1>1, <1>6, <2>4, <3>1
      <4> QED BY <1>6, <1>10, <2>4, <3>1, <4>1 DEF Ascending
    <3>2. CASE j = L + 1
      <4>1. i \in 1..L
        BY SMT, <1>1, <1>6, <2>4, <3>2
      <4> QED BY <2>1, <2>2, <3>2, <4>1
    <3>3. CASE \E k \in 1..(m - n) : j = L + 1 + k
      <4>1. PICK k \in 1..(m - n) : j = L + 1 + k
        BY <3>3
      <4>2. delivered'[j].seq_ctr = n + k
        BY <2>3, <4>1
      <4>3. CASE i \in 1..L
        <5>1. delivered'[i].seq_ctr \in Nat /\ delivered'[i].seq_ctr < n
          BY <2>1, <4>3
        <5>2. ASSUME NEW x \in Nat, x < n PROVE x < n + k
          BY SMT, <5>2
        <5> QED BY <4>2, <5>1, <5>2
      <4>4. CASE i = L + 1
        <5>1. n < n + k
          BY SMT
        <5> QED BY <2>2, <4>2, <4>4, <5>1
      <4>5. CASE \E l \in 1..(m - n) : i = L + 1 + l
        <5>1. PICK l \in 1..(m - n) : i = L + 1 + l
          BY <4>5
        <5>2. n + l < n + k
          BY SMT, <1>6, <2>4, <4>1, <5>1
        <5> QED BY <2>3, <4>2, <5>1, <5>2
      <4> QED BY <1>7, <4>3, <4>4, <4>5
    <3> QED BY <1>7, <3>1, <3>2, <3>3
  <2>5. ASSUME NEW p \in Del' PROVE p.seq_ctr <= m
    <3>1. CASE p \in Del
      <4>1. p.seq_ctr \in Nat /\ p.seq_ctr < n
        BY <1>10, <3>1, ReceivedTyped, PduFields
      <4> QED BY SMT, <1>1, <4>1
    <3>2. CASE p = pdu
      BY <1>1, <1>10, <3>2
    <3>3. CASE \E i \in 1..(m - n) : p = delivered'[L + 1 + i]
      <4>1. PICK i \in 1..(m - n) : p = delivered'[L + 1 + i]
        BY <3>3
      <4>2. n + i <= m
        BY SMT
      <4> QED BY <2>3, <4>1, <4>2
    <3>4. p \in Del \/ p = pdu \/ \E i \in 1..(m - n) : p = delivered'[L + 1 + i]
      <4>1. PICK i \in DOMAIN delivered' : p = delivered'[i]
        BY DEF Del
      <4>2. CASE i \in 1..L
        BY <1>6, <4>1, <4>2 DEF Del
      <4>3. CASE i = L + 1
        BY <1>6, <4>1, <4>3
      <4>4. CASE \E j \in 1..(m - n) : i = L + 1 + j
        BY <4>1, <4>4
      <4> QED BY <1>7, <4>2, <4>3, <4>4
    <3> QED BY <3>1, <3>2, <3>3, <3>4
  <2> QED BY <2>4, <2>5 DEF Ascending
<1>11. /\ \A p \in map \ col'.pdu_map_ : p.seq_ctr \in (n + 1)..m
       /\ (\A p \in map : p.seq_ctr > n) => \A p \in col'.pdu_map_ : p.seq_ctr > m + 1
       /\ col'.pdu_map_ \subseteq map
  BY <1>1, <1>3, <1>4
<1> HIDE DEF rest
<1> QED BY <1>1, <1>4, <1>6, <1>8, <1>9, <1>10, <1>11

-----------------------------------------------------------------------------
(* Base is an invariant *)

Held == Distinct(col.pdu_map_) /\ Distinct(col_row.pdu_map_)

(* A step of the sender's node leaves the receiver as it is.                 *)
LEMMA ReceiverStays ==
    ASSUME ReceiverTyped, Held, UNCHANGED <<col, col_row, handling, delivered>>
    PROVE  ReceiverTyped' /\ Held' /\ Received' = Received /\ Del' = Del /\ Handled' = Handled
<1>1. ReceiverTyped' /\ Del' = Del /\ Handled' = Handled
  BY DEF ReceiverTyped, Del, Handled
<1> QED BY <1>1 DEF Received, Held, Distinct

(* A step that leaves the aggregator alone and makes no PDU keeps Base if the *)
(* collector stays in order.                                                 *)
LEMMA BaseStays ==
    ASSUME Base, UNCHANGED <<sent, me_eventq_, agg, agg_row>>, now' \in Nat,
           Pdus' \subseteq Pdus, ReceiverTyped', Held'
    PROVE  Base'
<1>1. QueueInv' /\ PduInv'
  BY SenderStays DEF Base
<1>2. Sent' \subseteq Pdu
  BY PdusTyped DEF Pdus
<1>3. SenderTyped'
  BY <1>2 DEF Base, SenderTyped
<1> QED BY <1>1, <1>3 DEF Base, Held

(* The sender's daemon, its timers and the clock.                            *)
LEMMA DaemonKeepsBase ==
    ASSUME Base, UNCHANGED <<sent, me_eventq_, agg, agg_row, col, col_row, handling, delivered>>,
           now' \in Nat, Sent' \subseteq Sent
    PROVE  Base'
<1>1. Held /\ ReceiverTyped
  BY DEF Base, Held
<1>2. ReceiverTyped' /\ Held' /\ Received' = Received
  BY <1>1, ReceiverStays
<1>3. Pdus' \subseteq Pdus
  BY <1>2 DEF Pdus
<1> QED BY <1>2, <1>3, BaseStays

(* What Base says about one PDU and about two.                               *)
LEMMA BaseOf ==
    ASSUME Base
    PROVE  /\ \A p \in Pdus :
                /\ p \in Pdu /\ p.seq_ctr \in Nat /\ p.items \subseteq Nat
                /\ p.seq_ctr >= 1 /\ p.seq_ctr <= agg_row.seq_ctr_
           /\ now \in Nat /\ sent \in Nat /\ me_eventq_ \in Seq(Nat)
           /\ agg.seq_ctr_ \in Nat /\ agg.items \subseteq Nat
           /\ agg_row.seq_ctr_ \in Nat /\ agg_row.items \subseteq Nat
           /\ col.pdu_map_ \subseteq Pdus /\ col_row.pdu_map_ \subseteq Pdus
           /\ Handled \subseteq Pdus /\ Del \subseteq Pdus
           /\ data \subseteq Pdus /\ unacked_pdu_list_ \subseteq Pdus
<1>1. \A p \in Pdus : p \in Pdu /\ p.seq_ctr \in Nat /\ p.items \subseteq Nat
  BY PdusTyped, PduFields
<1>2. \A p \in Pdus : p.seq_ctr >= 1 /\ p.seq_ctr <= agg_row.seq_ctr_
  BY DEF Base, PduInv
<1>3. /\ now \in Nat /\ sent \in Nat /\ me_eventq_ \in Seq(Nat)
      /\ agg.seq_ctr_ \in Nat /\ agg.items \subseteq Nat
      /\ agg_row.seq_ctr_ \in Nat /\ agg_row.items \subseteq Nat
  BY DEF Base, SenderTyped
<1>4. /\ col.pdu_map_ \subseteq Pdus /\ col_row.pdu_map_ \subseteq Pdus
      /\ Handled \subseteq Pdus /\ Del \subseteq Pdus
      /\ data \subseteq Pdus /\ unacked_pdu_list_ \subseteq Pdus
  BY DEF Pdus, Sent, Received
<1> QED BY <1>1, <1>2, <1>3, <1>4

(* The application sends an item: it is later than all there are.            *)
LEMMA SendKeepsBase ==
    ASSUME Base, handle_dtpc_send_data_item
    PROVE  Base'
<1>1. /\ sent' = sent + 1 /\ me_eventq_' = Append(me_eventq_, sent + 1)
      /\ UNCHANGED <<now, agg, agg_row, data, unacked_pdu_list_, transmitted, delete_requests>>
      /\ UNCHANGED <<col, col_row, handling, delivered>>
  BY DEF handle_dtpc_send_data_item, daemon, receiver
<1>2. ReceiverTyped' /\ Held' /\ Pdus' = Pdus /\ Sent' = Sent
  <2>1. ReceiverTyped' /\ Held' /\ Received' = Received
    BY <1>1, ReceiverStays DEF Base, Held
  <2> QED BY <1>1, <2>1 DEF Pdus, Sent
<1> DEFINE Old(S) == \A x \in S : x <= sent
<1>3. sent + 1 \in Nat /\ \A x \in Nat : x <= sent => x < sent + 1 /\ x <= sent + 1
  BY SMT, BaseOf
<1>4. /\ me_eventq_' \in Seq(Nat) /\ Waiting' = Waiting \cup {sent + 1}
      /\ \A i, j \in DOMAIN me_eventq_' : i < j => me_eventq_'[i] < me_eventq_'[j]
  <2>1. \A i \in DOMAIN me_eventq_ : me_eventq_[i] \in Waiting
    BY DEF Waiting
  <2>2. Waiting \subseteq Nat
    <3>1. \A i \in DOMAIN me_eventq_ : me_eventq_[i] \in Nat
      BY SMT, BaseOf
    <3> QED BY <3>1 DEF Waiting
  <2>3. \A i \in DOMAIN me_eventq_ : me_eventq_[i] < sent + 1
    BY <1>3, <2>1, <2>2 DEF Base, QueueInv
  <2>4. \A i, j \in DOMAIN me_eventq_ : i < j => me_eventq_[i] < me_eventq_[j]
    BY DEF Base, QueueInv
  <2> DEFINE r == Append(me_eventq_, sent + 1)
  <2>5. /\ r \in Seq(Nat) /\ {r[i] : i \in DOMAIN r} = Waiting \cup {sent + 1}
        /\ \A i, j \in DOMAIN r : i < j => r[i] < r[j]
    BY <1>3, <2>3, <2>4, BaseOf, QueueAppend DEF Waiting
  <2> QED BY <1>1, <2>5 DEF Waiting
<1>5. \A S \in SUBSET Nat : (\A x \in S : x <= sent) =>
         /\ \A x \in S : x <= sent'
         /\ \A T : Below(S, T) => Below(S, T \cup {sent + 1})
  BY <1>1, <1>3 DEF Below
<1>6. SenderTyped'
  BY <1>1, <1>2, <1>3, <1>4 DEF Base, SenderTyped
<1>7. QueueInv'
  <2>1. /\ Below(agg.items, Waiting) /\ \A x \in agg.items : x <= sent
        /\ Below(agg_row.items, Waiting) /\ \A x \in agg_row.items : x <= sent
        /\ \A x \in Waiting : x <= sent
    BY DEF Base, QueueInv
  <2>2. Waiting \subseteq Nat
    <3>1. \A i \in DOMAIN me_eventq_ : me_eventq_[i] \in Nat
      BY SMT, BaseOf
    <3> QED BY <3>1 DEF Waiting
  <2>3. \A x \in Waiting' \cup agg.items \cup agg_row.items : x <= sent'
    <3>1. sent + 1 <= sent'
      BY SMT, <1>1, <1>3
    <3> QED BY <1>4, <1>5, <2>1, <2>2, <3>1, BaseOf
  <2>4. Below(agg.items, Waiting') /\ Below(agg_row.items, Waiting')
    BY <1>4, <1>5, <2>1, BaseOf
  <2> QED BY <1>1, <1>4, <2>3, <2>4 DEF Base, QueueInv
<1>8. PduInv'
  <2>1. ASSUME NEW p \in Pdus
        PROVE  /\ p.seq_ctr >= 1 /\ p.seq_ctr <= agg_row.seq_ctr_
               /\ Below(p.items, Waiting') /\ \A x \in p.items : x <= sent'
               /\ p.seq_ctr < agg.seq_ctr_ => Below(p.items, agg.items)
               /\ p.seq_ctr < agg_row.seq_ctr_ => Below(p.items, agg_row.items)
    BY <1>4, <1>5, BaseOf DEF Base, PduInv
  <2> QED BY <1>1, <1>2, <2>1 DEF Base, PduInv
<1> QED BY <1>2, <1>6, <1>7, <1>8 DEF Base, Held

(* The aggregator takes items into the payload, which then stays or leaves as *)
(* a PDU with the aggregator's number.  The row is not behind, so no PDU has  *)
(* a higher number.                                                          *)
LEMMA AggregationKeepsBase ==
    ASSUME Base, NEW items \in SUBSET Nat,
           agg_row.seq_ctr_ = agg.seq_ctr_,
           me_eventq_' \in Seq(Nat), Waiting' \subseteq Waiting,
           \A i, j \in DOMAIN me_eventq_' : i < j => me_eventq_'[i] < me_eventq_'[j],
           Below(items, Waiting'), \A x \in items : x <= sent,
           \A p \in Pdus : p.seq_ctr < agg.seq_ctr_ => Below(p.items, items),
           agg' \in [seq_ctr_ : Nat, items : SUBSET Nat, timer_ : BOOLEAN],
           agg.seq_ctr_ <= agg'.seq_ctr_,
           \/ agg'.items = {}
           \/ agg'.seq_ctr_ = agg.seq_ctr_ /\ agg'.items = items,
           NEW new, new = [seq_ctr |-> agg.seq_ctr_, items |-> items, creation_ts |-> now],
           Sent' \subseteq Sent \cup {new},
           UNCHANGED <<now, sent, agg_row, col, col_row, handling, delivered>>
    PROVE  Base'
<1>1. ReceiverTyped' /\ Held' /\ Pdus' \subseteq Pdus \cup {new}
  <2>1. ReceiverTyped' /\ Held' /\ Received' = Received
    BY ReceiverStays DEF Base, Held
  <2> QED BY <2>1 DEF Pdus
<1>2. new \in Pdu /\ new.seq_ctr = agg.seq_ctr_ /\ new.items = items
  BY BaseOf DEF Pdu
<1>3. SenderTyped'
  BY <1>2 DEF Base, SenderTyped
<1>4. Below(agg'.items, Waiting') /\ Below(agg_row.items, Waiting')
  BY DEF Base, QueueInv, Below
<1>5. QueueInv'
  <2>1. agg_row.seq_ctr_ <= agg'.seq_ctr_
    OBVIOUS
  <2>2. \A x \in Waiting' \cup agg'.items \cup agg_row.items : x <= sent
    BY DEF Base, QueueInv
  <2> QED BY <1>4, <2>1, <2>2 DEF Base, QueueInv
<1>6. agg.seq_ctr_ >= 1 /\ agg.seq_ctr_ <= agg_row.seq_ctr_ /\ ~(agg.seq_ctr_ < agg_row.seq_ctr_)
      /\ ~(agg.seq_ctr_ < agg.seq_ctr_)
  <2>1. agg_row.seq_ctr_ >= 1
    BY DEF Base, QueueInv
  <2> QED BY SMT, <2>1, BaseOf
<1>7. ASSUME NEW p \in Pdus'
      PROVE  /\ p.seq_ctr >= 1 /\ p.seq_ctr <= agg_row.seq_ctr_
             /\ Below(p.items, Waiting') /\ \A x \in p.items : x <= sent
             /\ p.seq_ctr < agg'.seq_ctr_ => Below(p.items, agg'.items)
             /\ p.seq_ctr < agg_row.seq_ctr_ => Below(p.items, agg_row.items)
  <2>0. \A S : Below(S, {})
    BY DEF Below
  <2>1. CASE p \in Pdus
    <3>1. /\ p.seq_ctr >= 1 /\ p.seq_ctr <= agg_row.seq_ctr_
          /\ Below(p.items, Waiting) /\ \A x \in p.items : x <= sent
          /\ p.seq_ctr < agg_row.seq_ctr_ => Below(p.items, agg_row.items)
      BY <2>1 DEF Base, PduInv
    <3>2. Below(p.items, Waiting')
      BY <3>1 DEF Below
    <3>3. p.seq_ctr < agg'.seq_ctr_ => Below(p.items, agg'.items)
      BY <2>0, <2>1
    <3> QED BY <3>1, <3>2, <3>3
  <2>2. CASE p = new
    <3>1. p.seq_ctr < agg'.seq_ctr_ => Below(p.items, agg'.items)
      BY <1>2, <1>6, <2>0, <2>2
    <3> QED BY <1>2, <1>6, <2>2, <3>1
  <2> QED BY <1>1, <2>1, <2>2
<1>8. ASSUME NEW p \in Pdus', NEW q \in Pdus', p.seq_ctr < q.seq_ctr
      PROVE  Below(p.items, q.items)
  <2>1. CASE p \in Pdus /\ q \in Pdus
    BY <1>8, <2>1 DEF Base, PduInv
  <2>2. CASE p \in Pdus /\ q = new
    BY <1>2, <1>8, <2>2
  <2>3. CASE p = new
    <3>1. q.seq_ctr \in Nat /\ q.seq_ctr <= agg_row.seq_ctr_
      BY <1>1, <1>2, <1>7, BaseOf
    <3>2. ~(agg.seq_ctr_ < q.seq_ctr)
      BY SMT, <3>1, BaseOf
    <3> QED BY <1>2, <1>8, <2>3, <3>2
  <2> QED BY <1>1, <2>1, <2>2, <2>3
<1>9. PduInv'
  BY <1>7, <1>8 DEF PduInv
<1> QED BY <1>1, <1>3, <1>5, <1>9 DEF Base, Held

(* send_payload() does that with the items it is given.                      *)
LEMMA PayloadLeaves ==
    ASSUME Base, retransmission_limit > 0, NEW items \in SUBSET Nat, send_payload(items),
           UNCHANGED <<unacked_pdu_list_, delete_requests>>
    PROVE  /\ agg' \in [seq_ctr_ : Nat, items : SUBSET Nat, timer_ : BOOLEAN]
           /\ agg.seq_ctr_ <= agg'.seq_ctr_ /\ agg'.items = {}
           /\ Sent' \subseteq Sent \cup
                {[seq_ctr |-> agg.seq_ctr_, items |-> items, creation_ts |-> now]}
<1> DEFINE new == [seq_ctr |-> agg.seq_ctr_, items |-> items, creation_ts |-> now]
           next == agg.seq_ctr_ + (IF items # {} THEN 1 ELSE 0)
<1>1. next \in Nat /\ agg.seq_ctr_ <= next
  BY SMT, BaseOf
<1>2. agg' = [seq_ctr_ |-> next, items |-> {}, timer_ |-> TRUE]
  BY DEF send_payload
<1>3. agg' \in [seq_ctr_ : Nat, items : SUBSET Nat, timer_ : BOOLEAN]
      /\ agg'.seq_ctr_ = next /\ agg'.items = {}
  <2> HIDE DEF next
  <2> QED BY <1>1, <1>2
<1>4. data' \subseteq data \cup {new} /\ transmitted' \subseteq transmitted \cup {new}
  <2>1. CASE items = {}
    BY <2>1 DEF send_payload
  <2>2. CASE items # {}
    BY <2>2 DEF send_payload
  <2> QED BY <2>1, <2>2
<1>5. Sent' \subseteq Sent \cup {new}
  <2> HIDE DEF new
  <2> QED BY <1>4 DEF Sent
<1> QED BY <1>1, <1>3, <1>5

LEMMA NotBehind ==
    ASSUME ~AggBehind
    PROVE  agg_row.seq_ctr_ = agg.seq_ctr_
<1>1. agg_row = [seq_ctr_ |-> agg.seq_ctr_, items |-> agg.items]
  BY DEF AggBehind
<1>2. [seq_ctr_ |-> agg.seq_ctr_, items |-> agg.items].seq_ctr_ = agg.seq_ctr_
  OBVIOUS
<1> QED BY <1>1, <1>2

(* send_data_item().                                                         *)
LEMMA ItemKeepsBase ==
    ASSUME Base, retransmission_limit > 0, send_data_item
    PROVE  Base'
<1> DEFINE items == agg.items \cup {Head(me_eventq_)}
           new == [seq_ctr |-> agg.seq_ctr_, items |-> items, creation_ts |-> now]
<1>1. /\ ~AggBehind /\ me_eventq_ # <<>> /\ me_eventq_' = Tail(me_eventq_)
      /\ UNCHANGED <<now, sent, agg_row, unacked_pdu_list_, delete_requests>>
      /\ UNCHANGED <<col, col_row, handling, delivered>>
  BY DEF send_data_item, receiver
<1>2. agg_row.seq_ctr_ = agg.seq_ctr_
  BY <1>1, NotBehind
<1>3. /\ me_eventq_' \in Seq(Nat) /\ Waiting' \subseteq Waiting
      /\ Head(me_eventq_) \in Waiting /\ Head(me_eventq_) \in Nat
      /\ Below({Head(me_eventq_)}, Waiting')
      /\ \A i, j \in DOMAIN me_eventq_' : i < j => me_eventq_'[i] < me_eventq_'[j]
  <2>1. \A i, j \in DOMAIN me_eventq_ : i < j => me_eventq_[i] < me_eventq_[j]
    BY DEF Base, QueueInv
  <2> DEFINE r == Tail(me_eventq_)
  <2>2. /\ r \in Seq(Nat) /\ {r[i] : i \in DOMAIN r} \subseteq Waiting
        /\ Head(me_eventq_) \in Waiting /\ Head(me_eventq_) \in Nat
        /\ Below({Head(me_eventq_)}, {r[i] : i \in DOMAIN r})
        /\ \A i, j \in DOMAIN r : i < j => r[i] < r[j]
    BY <1>1, <2>1, BaseOf, QueueTail DEF Waiting
  <2>3. Waiting' = {r[i] : i \in DOMAIN r}
    BY <1>1 DEF Waiting
  <2> QED BY <1>1, <2>2, <2>3
<1>4. /\ items \in SUBSET Nat /\ Below(items, Waiting') /\ \A x \in items : x <= sent
      /\ \A p \in Pdus : p.seq_ctr < agg.seq_ctr_ => Below(p.items, items)
  <2>1. items \in SUBSET Nat
    BY <1>3, BaseOf
  <2>2. Below(items, Waiting') /\ \A x \in items : x <= sent
    BY <1>3 DEF Base, QueueInv, Below
  <2>3. \A p \in Pdus : p.seq_ctr < agg.seq_ctr_ => Below(p.items, items)
    BY <1>3 DEF Base, PduInv, Below
  <2> QED BY <2>1, <2>2, <2>3
<1>5. /\ agg' \in [seq_ctr_ : Nat, items : SUBSET Nat, timer_ : BOOLEAN]
      /\ agg.seq_ctr_ <= agg'.seq_ctr_
      /\ agg'.items = {} \/ (agg'.seq_ctr_ = agg.seq_ctr_ /\ agg'.items = items)
      /\ Sent' \subseteq Sent \cup {new}
  <2>1. CASE send_payload(items)
    <3> HIDE DEF items
    <3>1. /\ agg' \in [seq_ctr_ : Nat, items : SUBSET Nat, timer_ : BOOLEAN]
          /\ agg.seq_ctr_ <= agg'.seq_ctr_ /\ agg'.items = {}
          /\ Sent' \subseteq Sent \cup
               {[seq_ctr |-> agg.seq_ctr_, items |-> items, creation_ts |-> now]}
      BY <1>1, <1>4, <2>1, PayloadLeaves
    <3> QED BY <3>1
  <2>2. CASE agg' = [agg EXCEPT !.items = items, !.timer_ = TRUE]
             /\ UNCHANGED <<data, transmitted>>
    <3> HIDE DEF items
    <3>1. agg \in [seq_ctr_ : Nat, items : SUBSET Nat, timer_ : BOOLEAN]
      BY DEF Base, SenderTyped
    <3>2. agg' \in [seq_ctr_ : Nat, items : SUBSET Nat, timer_ : BOOLEAN]
          /\ agg'.seq_ctr_ = agg.seq_ctr_ /\ agg'.items = items
      BY <1>4, <2>2, <3>1
    <3>3. agg.seq_ctr_ <= agg'.seq_ctr_
      BY SMT, <3>2, BaseOf
    <3>4. Sent' = Sent
      BY <1>1, <2>2 DEF Sent
    <3> QED BY <3>2, <3>3, <3>4
  <2>3. \/ send_payload(items)
        \/ agg' = [agg EXCEPT !.items = items, !.timer_ = TRUE] /\ UNCHANGED <<data, transmitted>>
    BY DEF send_data_item
  <2> QED BY <2>1, <2>2, <2>3
<1> HIDE DEF items
<1> QED BY <1>1, <1>2, <1>3, <1>4, <1>5, AggregationKeepsBase

(* timer_expired() of the aggregator.                                        *)
LEMMA AggTimerKeepsBase ==
    ASSUME Base, retransmission_limit > 0, NEW n, agg_timer_expired(n)
    PROVE  Base'
<1>1. /\ ~AggBehind
      /\ UNCHANGED <<now, sent, me_eventq_, agg_row, unacked_pdu_list_, delete_requests>>
      /\ UNCHANGED <<col, col_row, handling, delivered>>
      /\ send_payload(agg.items) \/ UNCHANGED <<agg, data, transmitted>>
  BY DEF agg_timer_expired, receiver
<1>2. CASE send_payload(agg.items)
  <2> DEFINE items == agg.items
             new == [seq_ctr |-> agg.seq_ctr_, items |-> items, creation_ts |-> now]
  <2>1. agg_row.seq_ctr_ = agg.seq_ctr_
    BY <1>1, NotBehind
  <2>2. items \in SUBSET Nat /\ me_eventq_' \in Seq(Nat)
    BY <1>1, BaseOf
  <2>3. /\ \A i, j \in DOMAIN me_eventq_' : i < j => me_eventq_'[i] < me_eventq_'[j]
        /\ Waiting' \subseteq Waiting
        /\ Below(items, Waiting') /\ \A x \in items : x <= sent
        /\ \A p \in Pdus : p.seq_ctr < agg.seq_ctr_ => Below(p.items, items)
    BY <1>1 DEF Base, QueueInv, PduInv, Waiting
  <2>4. /\ agg' \in [seq_ctr_ : Nat, items : SUBSET Nat, timer_ : BOOLEAN]
        /\ agg.seq_ctr_ <= agg'.seq_ctr_ /\ agg'.items = {}
        /\ Sent' \subseteq Sent \cup {new}
    BY <1>1, <1>2, <2>2, PayloadLeaves
  <2> HIDE DEF items
  <2> QED BY <1>1, <2>1, <2>2, <2>3, <2>4, AggregationKeepsBase
<1>3. CASE UNCHANGED <<agg, data, transmitted>>
  <2>1. Sent' = Sent
    BY <1>1, <1>3 DEF Sent
  <2>2. now' \in Nat
    BY <1>1, BaseOf
  <2> QED BY <1>1, <1>3, <2>1, <2>2, DaemonKeepsBase
<1> QED BY <1>1, <1>2, <1>3

(* DtpcPayloadAggregatorStore::update().                                     *)
LEMMA UpdateKeepsBase ==
    ASSUME Base, UpdateAggregator
    PROVE  Base'
<1>1. /\ agg_row' = [seq_ctr_ |-> agg.seq_ctr_, items |-> agg.items]
      /\ UNCHANGED <<now, sent, me_eventq_, agg>>
      /\ UNCHANGED <<data, unacked_pdu_list_, transmitted, delete_requests>>
      /\ UNCHANGED <<col, col_row, handling, delivered>>
  BY DEF UpdateAggregator, daemon, receiver
<1>2. ReceiverTyped' /\ Held' /\ Pdus' = Pdus /\ Sent' = Sent /\ Waiting' = Waiting
  <2>1. ReceiverTyped' /\ Held' /\ Received' = Received
    BY <1>1, ReceiverStays DEF Base, Held
  <2> QED BY <1>1, <2>1 DEF Pdus, Sent, Waiting
<1>3. agg_row'.seq_ctr_ = agg.seq_ctr_ /\ agg_row'.items = agg.items
  BY <1>1
<1>4. SenderTyped'
  BY <1>1, <1>2, BaseOf DEF Base, SenderTyped
<1>5. agg.seq_ctr_ >= 1 /\ agg.seq_ctr_ <= agg.seq_ctr_
      /\ \A p \in Pdus : p.seq_ctr <= agg.seq_ctr_
  <2>1. agg_row.seq_ctr_ >= 1 /\ agg_row.seq_ctr_ <= agg.seq_ctr_
    BY DEF Base, QueueInv
  <2> QED BY SMT, <2>1, BaseOf
<1>6. QueueInv'
  BY <1>1, <1>2, <1>3, <1>5 DEF Base, QueueInv
<1>7. PduInv'
  BY <1>1, <1>2, <1>3, <1>5 DEF Base, PduInv
<1> QED BY <1>2, <1>4, <1>6, <1>7 DEF Base, Held

(* A restart of the sender takes the aggregator back to its row.             *)
LEMMA RestartSenderKeepsBase ==
    ASSUME Base, RestartSender
    PROVE  Base'
<1>1. /\ agg' = [seq_ctr_ |-> agg_row.seq_ctr_, items |-> agg_row.items, timer_ |-> FALSE]
      /\ me_eventq_' = <<>> /\ UNCHANGED <<now, sent, agg_row, data>>
      /\ unacked_pdu_list_' = {} /\ transmitted' = {} /\ delete_requests' = {}
      /\ UNCHANGED <<col, col_row, handling, delivered>>
  BY DEF RestartSender, receiver
<1>2. ReceiverTyped' /\ Held' /\ Pdus' \subseteq Pdus /\ Sent' \subseteq Sent
  <2>1. ReceiverTyped' /\ Held' /\ Received' = Received
    BY <1>1, ReceiverStays DEF Base, Held
  <2> QED BY <1>1, <2>1 DEF Pdus, Sent
<1>3. agg'.seq_ctr_ = agg_row.seq_ctr_ /\ agg'.items = agg_row.items
  BY <1>1
<1>4. me_eventq_' \in Seq(Nat) /\ DOMAIN me_eventq_' = {} /\ Waiting' = {}
  <2>1. <<>> \in Seq(Nat) /\ DOMAIN <<>> = {}
    BY SMT
  <2> QED BY <1>1, <2>1 DEF Waiting
<1>5. SenderTyped'
  BY <1>1, <1>2, <1>4, BaseOf DEF Base, SenderTyped
<1>6. agg_row.seq_ctr_ <= agg_row.seq_ctr_ /\ \A S : Below(S, {})
  BY SMT, BaseOf DEF Below
<1>7. QueueInv'
  BY <1>1, <1>3, <1>4, <1>6 DEF Base, QueueInv
<1>8. PduInv'
  BY <1>1, <1>2, <1>3, <1>4, <1>6 DEF Base, PduInv
<1> QED BY <1>2, <1>5, <1>7, <1>8 DEF Base, Held

-----------------------------------------------------------------------------
(* ... and of the receiver *)

(* handle_dtpc_data_received_event(): the PDU leaves the network.            *)
LEMMA ReceiveKeepsBase ==
    ASSUME Base, NEW pdu \in data, receive_data(pdu)
    PROVE  Base' /\ Handled' = {pdu} /\ Handled = {}
<1>1. /\ handling = Idle /\ data' = data \ {pdu}
      /\ handling' = [at |-> "received", pdu |-> pdu]
      /\ UNCHANGED <<now, sent, me_eventq_, agg, agg_row>>
      /\ UNCHANGED <<unacked_pdu_list_, transmitted, delete_requests, col, col_row, delivered>>
  BY DEF receive_data, sender, daemon
<1>2. Handled' = {pdu} /\ Handled = {} /\ Del' = Del
  BY <1>1 DEF Handled, Del, Idle
<1>3. pdu \in Pdu /\ now' \in Nat
  BY <1>1, BaseOf
<1>4. ReceiverTyped' /\ Held'
  BY <1>1, <1>3 DEF Base, ReceiverTyped, Held, Distinct
<1>5. Pdus' \subseteq Pdus
  BY <1>1, <1>2 DEF Pdus, Sent, Received
<1> QED BY <1>1, <1>2, <1>3, <1>4, <1>5, BaseStays

(* A handler of the collector that delivers or holds PDUs the receiver has.  *)
LEMMA CollectorKeepsBase ==
    ASSUME Base, UNCHANGED <<now, sent, me_eventq_, agg, agg_row, data>>,
           UNCHANGED <<unacked_pdu_list_, transmitted, delete_requests, col_row>>,
           handling' = [at |-> "updating"] \/ handling' = Idle,
           col' \in [seq_ctr_ : Nat, pdu_map_ : SUBSET Pdu, timer_ : DeliverTimer],
           delivered' \in Seq(Pdu), Distinct(col'.pdu_map_),
           col'.pdu_map_ \subseteq Pdus, Del' \subseteq Pdus
    PROVE  Base'
<1>1. ReceiverTyped' /\ Held'
  BY DEF Base, ReceiverTyped, Held, Distinct
<1>2. Handled' = {}
  <2>1. CASE handling' = Idle
    BY <2>1 DEF Handled, Idle
  <2>2. CASE handling' = [at |-> "updating"]
    BY <2>2 DEF Handled
  <2> QED BY <2>1, <2>2
<1>3. Pdus' \subseteq Pdus
  BY <1>2 DEF Pdus, Sent, Received
<1>4. now' \in Nat
  BY BaseOf
<1> QED BY <1>1, <1>3, <1>4, BaseStays

(* queue_pdu() holds the PDU unless one with its number is held.             *)
LEMMA QueuePdu ==
    ASSUME Base, NEW pdu \in Pdu, queue_pdu(pdu)
    PROVE  /\ col' \in [seq_ctr_ : Nat, pdu_map_ : SUBSET Pdu, timer_ : DeliverTimer]
           /\ delivered' = delivered /\ col'.seq_ctr_ = col.seq_ctr_
           /\ col.pdu_map_ \subseteq col'.pdu_map_
           /\ col'.pdu_map_ \subseteq col.pdu_map_ \cup {pdu}
           /\ \E p \in col'.pdu_map_ : p.seq_ctr = pdu.seq_ctr
           /\ Distinct(col'.pdu_map_)
<1> DEFINE held == \E p \in col.pdu_map_ : p.seq_ctr = pdu.seq_ctr
           map == IF held THEN col.pdu_map_ ELSE col.pdu_map_ \cup {pdu}
           timer == IF First(map).seq_ctr = pdu.seq_ctr THEN TimerFor(pdu) ELSE col.timer_
<1>1. delivered' = delivered /\ col' = [col EXCEPT !.pdu_map_ = map, !.timer_ = timer]
  BY DEF queue_pdu
<1>2. /\ col \in [seq_ctr_ : Nat, pdu_map_ : SUBSET Pdu, timer_ : DeliverTimer]
      /\ Distinct(col.pdu_map_) /\ col.timer_ \in DeliverTimer /\ col.pdu_map_ \subseteq Pdu
  BY DEF Base, ReceiverTyped
<1>3. map \subseteq Pdu /\ timer \in DeliverTimer
  BY <1>2, TimerTyped
<1>4. /\ col.pdu_map_ \subseteq map /\ map \subseteq col.pdu_map_ \cup {pdu}
      /\ \E p \in map : p.seq_ctr = pdu.seq_ctr
  OBVIOUS
<1>5. Distinct(map)
  <2>1. CASE held
    BY <1>2, <2>1
  <2>2. CASE ~held
    BY <1>2, <2>2 DEF Distinct
  <2> QED BY <2>1, <2>2
<1> HIDE DEF map, timer
<1>6. /\ col' \in [seq_ctr_ : Nat, pdu_map_ : SUBSET Pdu, timer_ : DeliverTimer]
      /\ col'.seq_ctr_ = col.seq_ctr_ /\ col'.pdu_map_ = map
  BY <1>1, <1>2, <1>3
<1> QED BY <1>1, <1>4, <1>5, <1>6

\* What a handler of the collector that delivers the PDU of number n does.
Delivers(pdu, n, map, m) ==
  /\ n <= m
  /\ col' \in [seq_ctr_ : Nat, pdu_map_ : SUBSET Pdu, timer_ : DeliverTimer]
  /\ col'.seq_ctr_ = m + 1 /\ col'.pdu_map_ \subseteq map
  /\ delivered' \in Seq(Pdu)
  /\ Del \cup {pdu} \subseteq Del' /\ Del' \subseteq Del \cup {pdu} \cup map
  /\ \A k \in (n + 1)..m : \E p \in Del' : p.seq_ctr = k
  /\ \A p \in map \ col'.pdu_map_ : p.seq_ctr \in (n + 1)..m
  /\ (\A p \in map : p.seq_ctr > n) => \A p \in col'.pdu_map_ : p.seq_ctr > m + 1
  /\ (pdu.seq_ctr = n /\ Ascending /\ \A p \in Del : p.seq_ctr < n)
       => Ascending' /\ \A p \in Del' : p.seq_ctr <= m

\* The three ways pdu_received() ends, when PDUs have numbers.
Delivered(pdu) ==
  /\ pdu.seq_ctr = col.seq_ctr_
  /\ \E m \in Nat : Delivers(pdu, col.seq_ctr_, col.pdu_map_, m)

Discarded(pdu) ==
  pdu.seq_ctr < col.seq_ctr_ /\ delivered' = delivered /\ col' = col

Queued(pdu) ==
  /\ pdu.seq_ctr > col.seq_ctr_
  /\ delivered' = delivered /\ col'.seq_ctr_ = col.seq_ctr_
  /\ col.pdu_map_ \subseteq col'.pdu_map_ /\ col'.pdu_map_ \subseteq col.pdu_map_ \cup {pdu}
  /\ \E p \in col'.pdu_map_ : p.seq_ctr = pdu.seq_ctr

LEMMA PduReceived ==
    ASSUME Base, pdu_received
    PROVE  /\ Base' /\ handling.at = "received" /\ Handled = {handling.pdu} /\ Handled' = {}
           /\ handling.pdu \in Pdus /\ handling'.at = "updating"
           /\ UNCHANGED <<col_row, acks, skipped, torn>>
           /\ Delivered(handling.pdu) \/ Discarded(handling.pdu) \/ Queued(handling.pdu)
<1> DEFINE pdu == handling.pdu
<1>1. /\ handling.at = "received" /\ handling' = [at |-> "updating"]
      /\ UNCHANGED <<now, sent, me_eventq_, agg, agg_row, data>>
      /\ UNCHANGED <<unacked_pdu_list_, transmitted, delete_requests, col_row>>
      /\ UNCHANGED <<acks, skipped, torn>>
  BY DEF pdu_received, sender, daemon, faults
<1>2. Handled = {pdu} /\ Handled' = {} /\ handling'.at = "updating"
  BY <1>1 DEF Handled
<1>3. /\ pdu \in Pdus /\ pdu \in Pdu /\ pdu.seq_ctr \in Nat /\ pdu.seq_ctr # 0
      /\ col.seq_ctr_ \in Nat /\ col.pdu_map_ \in SUBSET Pdu /\ col.timer_ \in DeliverTimer
  <2>1. pdu \in Pdus /\ pdu \in Pdu /\ pdu.seq_ctr \in Nat /\ pdu.seq_ctr >= 1
    BY <1>2, BaseOf
  <2>2. \A x \in Nat : x >= 1 => x # 0
    BY SMT
  <2> QED BY <2>1, <2>2, ReceivedTyped DEF Base
<1>4. CASE pdu.seq_ctr = col.seq_ctr_
  <2>1. deliver_pdu(pdu, col.seq_ctr_, col.pdu_map_, col.timer_)
    BY <1>4 DEF pdu_received
  <2>2. Distinct(col.pdu_map_) /\ \A p \in col.pdu_map_ : p.seq_ctr <= agg_row.seq_ctr_
    BY BaseOf DEF Base
  <2>3. PICK m \in Nat : Delivers(pdu, col.seq_ctr_, col.pdu_map_, m)
    <3> HIDE DEF pdu
    <3> QED BY <1>3, <2>1, <2>2, BaseOf, Delivery DEF Base, Delivers
  <2>4. Distinct(col'.pdu_map_) /\ col'.pdu_map_ \subseteq Pdus /\ Del' \subseteq Pdus
    BY <1>3, <2>2, <2>3, BaseOf DEF Distinct, Delivers
  <2>5. Base'
    BY <1>1, <2>3, <2>4, CollectorKeepsBase DEF Delivers
  <2> QED BY <1>1, <1>2, <1>3, <1>4, <2>3, <2>5 DEF Delivered
<1>5. CASE pdu.seq_ctr < col.seq_ctr_ /\ pdu.seq_ctr # col.seq_ctr_
  <2>1. delivered' = delivered /\ col' = col
    BY <1>3, <1>5 DEF pdu_received
  <2>2. Del' = Del
    BY <2>1 DEF Del
  <2>3. Base'
    BY <1>1, <2>1, <2>2, CollectorKeepsBase, BaseOf DEF Base, ReceiverTyped
  <2> QED BY <1>1, <1>2, <1>3, <1>5, <2>1, <2>3 DEF Discarded
<1>6. CASE ~(pdu.seq_ctr < col.seq_ctr_) /\ pdu.seq_ctr # col.seq_ctr_
  <2>1. queue_pdu(pdu)
    BY <1>3, <1>6 DEF pdu_received
  <2>2. /\ col' \in [seq_ctr_ : Nat, pdu_map_ : SUBSET Pdu, timer_ : DeliverTimer]
        /\ delivered' = delivered /\ col'.seq_ctr_ = col.seq_ctr_
        /\ col.pdu_map_ \subseteq col'.pdu_map_ /\ col'.pdu_map_ \subseteq col.pdu_map_ \cup {pdu}
        /\ \E p \in col'.pdu_map_ : p.seq_ctr = pdu.seq_ctr
        /\ Distinct(col'.pdu_map_)
    <3> HIDE DEF pdu
    <3> QED BY <1>3, <2>1, QueuePdu
  <2>3. pdu.seq_ctr > col.seq_ctr_
    BY SMT, <1>3, <1>6
  <2>4. Del' = Del
    BY <2>2 DEF Del
  <2>5. Base'
    BY <1>1, <1>3, <2>2, <2>4, CollectorKeepsBase, BaseOf DEF Base, ReceiverTyped
  <2> QED BY <1>1, <1>2, <1>3, <2>2, <2>3, <2>5 DEF Queued
<1> QED BY <1>4, <1>5, <1>6

\* timer_expired() gives up the numbers before the first PDU held and delivers it.
Expired(first) ==
  /\ first \in col.pdu_map_ /\ \A q \in col.pdu_map_ \ {first} : q.seq_ctr > first.seq_ctr
  /\ \E m \in Nat : Delivers(first, first.seq_ctr, col.pdu_map_ \ {first}, m)
  /\ skipped' = skipped \cup col.seq_ctr_..(first.seq_ctr - 1)
  /\ handling'.at = "updating"

LEMMA TimerExpired ==
    ASSUME Base, NEW n, timer_expired(n)
    PROVE  /\ Base' /\ handling = Idle /\ Handled = {} /\ Handled' = {}
           /\ UNCHANGED <<col_row, acks, torn>>
           /\ \/ \E first \in Pdus : Expired(first)
              \/ /\ UNCHANGED <<col, delivered, skipped>>
                 /\ handling'.at = "updating" \/ handling' = Idle
<1>1. /\ handling = Idle
      /\ UNCHANGED <<now, sent, me_eventq_, agg, agg_row, data>>
      /\ UNCHANGED <<unacked_pdu_list_, transmitted, delete_requests, col_row>>
      /\ UNCHANGED <<acks, torn>>
      /\ handling' = IF col.pdu_map_ # {} THEN [at |-> "updating"] ELSE Idle
  BY DEF timer_expired, sender, daemon, faults
<1>2. /\ Handled = {} /\ Handled' = {}
      /\ handling'.at = "updating" \/ handling' = Idle
      /\ handling' = [at |-> "updating"] \/ handling' = Idle
  BY <1>1 DEF Handled, Idle
<1> DEFINE first == First(col.pdu_map_)
           map == col.pdu_map_ \ {first}
<1>3. CASE col.pdu_map_ # {} /\ first.seq_ctr = n
  <2>1. /\ deliver_pdu(first, n, map, NoTimer)
        /\ skipped' = skipped \cup col.seq_ctr_..(n - 1)
    BY <1>3 DEF timer_expired
  <2>2. /\ Distinct(col.pdu_map_) /\ col.pdu_map_ \subseteq Pdu
        /\ \A p \in col.pdu_map_ : p.seq_ctr <= agg_row.seq_ctr_
    BY BaseOf DEF Base
  <2>3. first \in col.pdu_map_ /\ \A q \in col.pdu_map_ : first.seq_ctr <= q.seq_ctr
    BY <1>3, <2>2, FirstIsLeast
  <2> HIDE DEF first
  <2>4. first \in Pdus /\ first \in Pdu /\ first.seq_ctr \in Nat
    BY <2>3, BaseOf
  <2>5. \A q \in map : q.seq_ctr > first.seq_ctr
    <3>1. ASSUME NEW q \in map PROVE q.seq_ctr > first.seq_ctr
      <4>1. q.seq_ctr \in Nat /\ first.seq_ctr <= q.seq_ctr /\ q.seq_ctr # first.seq_ctr
        BY <2>2, <2>3, BaseOf DEF Distinct
      <4> QED BY SMT, <2>4, <4>1
    <3> QED BY <3>1
  <2>6. NoTimer \in DeliverTimer
    BY SMT DEF NoTimer, DeliverTimer
  <2>7. Distinct(map) /\ map \in SUBSET Pdu /\ \A p \in map : p.seq_ctr <= agg_row.seq_ctr_
    BY <2>2 DEF Distinct
  <2>8. PICK m \in Nat : Delivers(first, first.seq_ctr, map, m)
    <3>1. deliver_pdu(first, first.seq_ctr, map, NoTimer)
      BY <1>3, <2>1
    <3> HIDE DEF map
    <3> QED BY <2>4, <2>6, <2>7, <3>1, BaseOf, Delivery DEF Base, Delivers
  <2>9. Distinct(col'.pdu_map_) /\ col'.pdu_map_ \subseteq Pdus /\ Del' \subseteq Pdus
    BY <2>4, <2>7, <2>8, BaseOf DEF Distinct, Delivers
  <2>10. Base'
    BY <1>1, <1>2, <2>8, <2>9, CollectorKeepsBase DEF Delivers
  <2>11. handling'.at = "updating"
    BY <1>1, <1>3
  <2>12. Expired(first)
    BY <1>3, <2>1, <2>3, <2>5, <2>8, <2>11 DEF Expired
  <2> QED BY <1>1, <1>2, <2>4, <2>10, <2>12
<1>4. CASE ~(col.pdu_map_ # {} /\ first.seq_ctr = n)
  <2>1. UNCHANGED <<delivered, col, skipped>>
    BY <1>4 DEF timer_expired
  <2>2. Del' = Del
    BY <2>1 DEF Del
  <2>3. Base'
    BY <1>1, <1>2, <2>1, <2>2, CollectorKeepsBase, BaseOf DEF Base, ReceiverTyped
  <2> QED BY <1>1, <1>2, <2>1, <2>3
<1> QED BY <1>3, <1>4

(* DtpcDataPduCollectorStore::update().                                      *)
LEMMA CollectorUpdated ==
    ASSUME Base, UpdateCollector
    PROVE  /\ Base' /\ Handled = {} /\ Handled' = {} /\ handling' = Idle
           /\ col_row'.seq_ctr_ = col.seq_ctr_ /\ col_row'.pdu_map_ = col.pdu_map_
           /\ UNCHANGED <<col, delivered, skipped, acks, torn>>
<1>1. /\ handling.at = "updating" /\ handling' = Idle
      /\ col_row' = [seq_ctr_ |-> col.seq_ctr_, pdu_map_ |-> col.pdu_map_]
      /\ UNCHANGED <<now, sent, me_eventq_, agg, agg_row, data>>
      /\ UNCHANGED <<unacked_pdu_list_, transmitted, delete_requests>>
      /\ UNCHANGED <<col, delivered, skipped, acks, torn>>
  BY DEF UpdateCollector, sender, daemon, faults
<1>2. /\ Handled = {} /\ Handled' = {} /\ Del' = Del
      /\ col_row'.seq_ctr_ = col.seq_ctr_ /\ col_row'.pdu_map_ = col.pdu_map_
  BY <1>1 DEF Handled, Idle, Del
<1>3. ReceiverTyped'
  <2>1. col.seq_ctr_ \in Nat /\ col.pdu_map_ \subseteq Pdu
    BY ReceivedTyped DEF Base
  <2> QED BY <1>1, <2>1 DEF Base, ReceiverTyped
<1>4. Held'
  BY <1>1, <1>2 DEF Base, Held, Distinct
<1>5. Pdus' \subseteq Pdus /\ now' \in Nat
  BY <1>1, <1>2, BaseOf DEF Pdus, Sent, Received
<1> QED BY <1>1, <1>2, <1>3, <1>4, <1>5, BaseStays

(* ds_reload_post_processing() discards PDUs from the front of the map, up to *)
(* the first that is not expired, and expects the number after the last one   *)
(* discarded.                                                                *)
LEMMA Reloaded ==
    ASSUME Base, RestartReceiver
    PROVE  /\ Base' /\ handling' = Idle /\ Handled' = {}
           /\ UNCHANGED <<col_row, acks, delivered>>
           /\ col'.pdu_map_ \subseteq col_row.pdu_map_
           /\ \A p \in col_row.pdu_map_ \ col'.pdu_map_ : p.seq_ctr < col'.seq_ctr_
           /\ \/ /\ col'.pdu_map_ = col_row.pdu_map_ /\ col'.seq_ctr_ = col_row.seq_ctr_
              \/ \E g \in col_row.pdu_map_ \ col'.pdu_map_ :
                    /\ col'.seq_ctr_ = g.seq_ctr + 1
                    /\ \A p \in col'.pdu_map_ : g.seq_ctr < p.seq_ctr
           /\ skipped' = skipped \cup col_row.seq_ctr_..(col'.seq_ctr_ - 1)
           /\ torn \subseteq torn'
           /\ "receiver" \notin torn' => handling = Idle
           /\ "reload" \notin torn' => \A p \in col'.pdu_map_ : p.seq_ctr # col'.seq_ctr_
<1> DEFINE fresh(p) == now <= expiration_ts(p)
           row == col_row.pdu_map_
           map == {p \in row : \E q \in row : q.seq_ctr <= p.seq_ctr /\ fresh(q)}
           gone == row \ map
           nums == {p.seq_ctr : p \in gone}
           next == IF gone = {} THEN col_row.seq_ctr_ ELSE Max(nums) + 1
           timer == IF map = {} THEN NoTimer ELSE TimerFor(First(map))
<1>1. /\ torn' = torn \cup (IF handling # Idle THEN {"receiver"} ELSE {})
                      \cup (IF \E p \in map : p.seq_ctr = next THEN {"reload"} ELSE {})
      /\ col' = [seq_ctr_ |-> next, pdu_map_ |-> map, timer_ |-> timer]
      /\ handling' = Idle
      /\ skipped' = skipped \cup col_row.seq_ctr_..(next - 1)
  BY DEF RestartReceiver
<1>2. /\ UNCHANGED <<now, sent, me_eventq_, agg, agg_row, data>>
      /\ UNCHANGED <<unacked_pdu_list_, transmitted, delete_requests, col_row>>
      /\ UNCHANGED <<acks, delivered>>
  BY DEF RestartReceiver, sender, daemon
<1>3. Handled' = {} /\ Del' = Del
  BY <1>1, <1>2 DEF Handled, Idle, Del
<1>4. /\ row \subseteq Pdus /\ row \subseteq Pdu /\ Distinct(row) /\ col_row.seq_ctr_ \in Nat
      /\ \A p \in row : p.seq_ctr \in Nat /\ p.seq_ctr <= agg_row.seq_ctr_
      /\ agg_row.seq_ctr_ \in Nat
  BY BaseOf, ReceivedTyped DEF Base
<1>5. map \subseteq row /\ row \ map = gone /\ (gone = {} => map = row)
  OBVIOUS
<1>6. ASSUME NEW g \in gone, NEW p \in map PROVE g.seq_ctr < p.seq_ctr
  <2>1. PICK q \in row : q.seq_ctr <= p.seq_ctr /\ fresh(q)
    OBVIOUS
  <2>2. g \in row /\ ~(q.seq_ctr <= g.seq_ctr)
    BY <2>1
  <2>3. p \in row
    BY <1>5
  <2> HIDE DEF fresh, row, map, gone
  <2>4. g.seq_ctr \in Nat /\ p.seq_ctr \in Nat /\ q.seq_ctr \in Nat
    BY <1>4, <2>2, <2>3
  <2> QED BY SMT, <2>1, <2>2, <2>4
<1> HIDE DEF map
<1>7. ASSUME gone # {}
      PROVE  /\ Max(nums) \in Nat /\ next = Max(nums) + 1
             /\ (\E g \in gone : g.seq_ctr = Max(nums))
             /\ \A g \in gone : g.seq_ctr <= Max(nums)
  <2>1. nums \in SUBSET Nat /\ nums # {} /\ \A x \in nums : x <= agg_row.seq_ctr_
    BY <1>4, <1>7
  <2>2. \A g \in gone : g.seq_ctr \in nums
    OBVIOUS
  <2>3. \A x \in nums : \E g \in gone : g.seq_ctr = x
    OBVIOUS
  <2>4. next = Max(nums) + 1
    BY <1>7
  <2> HIDE DEF nums, gone, next
  <2>5. Max(nums) \in nums /\ \A y \in nums : y <= Max(nums)
    BY <1>4, <2>1, GreatestNatural
  <2> QED BY <2>1, <2>2, <2>3, <2>4, <2>5
<1>8. next \in Nat /\ \A g \in gone : g.seq_ctr < next
  <2>1. CASE gone = {}
    BY <1>4, <2>1
  <2>2. CASE gone # {}
    <3>1. \A g \in gone : g.seq_ctr \in Nat
      BY <1>4
    <3> HIDE DEF gone, next, nums
    <3> QED BY SMT, <1>7, <2>2, <3>1
  <2> QED BY <2>1, <2>2
<1>9. \/ map = row /\ next = col_row.seq_ctr_
      \/ \E g \in gone : next = g.seq_ctr + 1 /\ \A p \in map : g.seq_ctr < p.seq_ctr
  <2>1. CASE gone = {}
    BY <1>5, <2>1
  <2>2. CASE gone # {}
    BY <1>6, <1>7, <2>2
  <2> QED BY <2>1, <2>2
<1>10. timer \in DeliverTimer
  <2>1. NoTimer \in DeliverTimer
    BY SMT DEF NoTimer, DeliverTimer
  <2>2. map # {} => First(map) \in Pdu
    BY <1>4, <1>5, FirstIsLeast
  <2> QED BY <2>1, <2>2, TimerTyped
<1>11. "receiver" \notin torn' => handling = Idle
  BY <1>1
<1>12. torn \subseteq torn' /\ ("reload" \notin torn' => \A p \in map : p.seq_ctr # next)
  BY <1>1
<1> HIDE DEF next, timer, gone
<1>13. /\ col' \in [seq_ctr_ : Nat, pdu_map_ : SUBSET Pdu, timer_ : DeliverTimer]
       /\ col'.seq_ctr_ = next /\ col'.pdu_map_ = map
  BY <1>1, <1>4, <1>5, <1>8, <1>10
<1>14. Base'
  <2>1. Distinct(map) /\ map \subseteq Pdus /\ Del' \subseteq Pdus
    BY <1>3, <1>4, <1>5, BaseOf DEF Distinct
  <2>2. delivered' \in Seq(Pdu)
    BY <1>2 DEF Base, ReceiverTyped
  <2> QED BY <1>1, <1>2, <1>13, <2>1, <2>2, CollectorKeepsBase
<1>15. col_row.pdu_map_ \ col'.pdu_map_ = gone
  BY <1>5, <1>13
<1> QED BY <1>1, <1>2, <1>3, <1>5, <1>8, <1>9, <1>11, <1>12, <1>13, <1>14, <1>15

-----------------------------------------------------------------------------
(* The steps, as the receiver sees them *)

\* A step of the sender's node, of a timer or of the clock.
ReceiverUnaffected ==
  /\ UNCHANGED <<col, col_row, handling, delivered, skipped, acks>>
  /\ \A x \in {"receiver", "reload"} : x \in torn' <=> x \in torn

ReceiverStep ==
  \/ \E pdu \in data : receive_data(pdu)
  \/ pdu_received
  \/ UpdateCollector
  \/ \E n \in deliver_events : timer_expired(n)
  \/ RestartReceiver

(* The steps of the receiver keep Base.                                      *)
LEMMA ReceiverStepKeepsBase ==
    ASSUME Base, ReceiverStep
    PROVE  Base'
<1>1. CASE \E pdu \in data : receive_data(pdu)
  BY <1>1, ReceiveKeepsBase
<1>2. CASE pdu_received
  BY <1>2, PduReceived
<1>3. CASE UpdateCollector
  BY <1>3, CollectorUpdated
<1>4. CASE \E n \in deliver_events : timer_expired(n)
  BY <1>4, TimerExpired
<1>5. CASE RestartReceiver
  BY <1>5, Reloaded
<1> QED BY <1>1, <1>2, <1>3, <1>4, <1>5 DEF ReceiverStep

(* Every step keeps Base, and is a step of the receiver or leaves it alone.   *)
LEMMA StepKeepsBase ==
    ASSUME Base, retransmission_limit > 0, [Next]_vars
    PROVE  Base' /\ (ReceiverUnaffected \/ ReceiverStep)
<1>1. CASE handle_dtpc_send_data_item
  <2>1. ReceiverUnaffected
    BY <1>1 DEF handle_dtpc_send_data_item, ReceiverUnaffected, receiver, faults
  <2> QED BY <1>1, <2>1, SendKeepsBase
<1>2. CASE send_data_item
  <2>1. ReceiverUnaffected
    BY <1>2 DEF send_data_item, ReceiverUnaffected, receiver, faults
  <2> QED BY <1>2, <2>1, ItemKeepsBase
<1>3. CASE UpdateAggregator
  <2>1. ReceiverUnaffected
    BY <1>3 DEF UpdateAggregator, ReceiverUnaffected, receiver, faults
  <2> QED BY <1>3, <2>1, UpdateKeepsBase
<1>4. CASE \E n \in agg_events : agg_timer_expired(n)
  <2>1. PICK n \in agg_events : agg_timer_expired(n)
    BY <1>4
  <2>2. ReceiverUnaffected
    BY <2>1 DEF agg_timer_expired, ReceiverUnaffected, receiver, faults
  <2> QED BY <2>1, <2>2, AggTimerKeepsBase
<1>5. CASE \E n \in agg_timers : AggregationTimeout(n)
  <2>1. PICK n \in agg_timers : AggregationTimeout(n)
    BY <1>5
  <2>2. /\ ReceiverUnaffected /\ UNCHANGED <<sent, me_eventq_, agg, agg_row, now>>
        /\ UNCHANGED <<data, unacked_pdu_list_, transmitted, delete_requests>>
    BY <2>1 DEF AggregationTimeout, ReceiverUnaffected, receiver, faults, daemon
  <2>3. Sent' = Sent /\ now' \in Nat
    BY <2>2, BaseOf DEF Sent
  <2> QED BY <2>2, <2>3, DaemonKeepsBase DEF ReceiverUnaffected
<1>6. CASE \E t \in retransmit_timers : RetransmitTimeout(t)
  <2>1. PICK t \in retransmit_timers : RetransmitTimeout(t)
    BY <1>6
  <2>2. /\ ReceiverUnaffected /\ UNCHANGED <<sent, me_eventq_, agg, agg_row, now>>
        /\ UNCHANGED <<data, unacked_pdu_list_, transmitted, delete_requests>>
    BY <2>1 DEF RetransmitTimeout, ReceiverUnaffected, receiver, faults, sender
  <2>3. Sent' = Sent /\ now' \in Nat
    BY <2>2, BaseOf DEF Sent
  <2> QED BY <2>2, <2>3, DaemonKeepsBase DEF ReceiverUnaffected
<1>7. CASE \E t \in deliver_timers : DeliverTimeout(t)
  <2>1. PICK t \in deliver_timers : DeliverTimeout(t)
    BY <1>7
  <2>2. /\ ReceiverUnaffected /\ UNCHANGED <<sent, me_eventq_, agg, agg_row, now>>
        /\ UNCHANGED <<data, unacked_pdu_list_, transmitted, delete_requests>>
    BY <2>1 DEF DeliverTimeout, ReceiverUnaffected, faults, sender, daemon
  <2>3. Sent' = Sent /\ now' \in Nat
    BY <2>2, BaseOf DEF Sent
  <2> QED BY <2>2, <2>3, DaemonKeepsBase DEF ReceiverUnaffected
<1>8. CASE \E pdu \in transmitted : handle_dtpc_transmitted_event(pdu)
  <2>1. PICK pdu \in transmitted : handle_dtpc_transmitted_event(pdu)
    BY <1>8
  <2>2. /\ ReceiverUnaffected /\ UNCHANGED <<sent, me_eventq_, agg, agg_row, now>>
        /\ UNCHANGED <<data, delete_requests>>
        /\ transmitted' \subseteq transmitted
        /\ unacked_pdu_list_' \subseteq unacked_pdu_list_ \cup {pdu}
    BY <2>1 DEF handle_dtpc_transmitted_event, ReceiverUnaffected, receiver, faults, sender
  <2>3. Sent' \subseteq Sent /\ now' \in Nat
    BY <2>1, <2>2, BaseOf DEF Sent
  <2> QED BY <2>2, <2>3, DaemonKeepsBase DEF ReceiverUnaffected
<1>9. CASE \E n \in retransmit_events : retransmit_pdu(n)
  <2>1. PICK n \in retransmit_events : retransmit_pdu(n)
    BY <1>9
  <2>2. /\ ReceiverUnaffected /\ UNCHANGED <<sent, me_eventq_, agg, agg_row, now>>
        /\ UNCHANGED unacked_pdu_list_
    BY <2>1 DEF retransmit_pdu, ReceiverUnaffected, receiver, faults, sender
  <2>3. data' \cup transmitted' \cup delete_requests'
          \subseteq data \cup transmitted \cup delete_requests \cup unacked_pdu_list_
    BY <2>1 DEF retransmit_pdu
  <2>4. Sent' \subseteq Sent /\ now' \in Nat
    BY <2>2, <2>3, BaseOf DEF Sent
  <2> QED BY <2>2, <2>4, DaemonKeepsBase DEF ReceiverUnaffected
<1>10. CASE \E pdu \in delete_requests : handle_dtpc_delete_request(pdu)
  <2>1. PICK pdu \in delete_requests : handle_dtpc_delete_request(pdu)
    BY <1>10
  <2>2. /\ ReceiverUnaffected /\ UNCHANGED <<sent, me_eventq_, agg, agg_row, now>>
        /\ UNCHANGED <<data, transmitted>>
        /\ delete_requests' \subseteq delete_requests
        /\ unacked_pdu_list_' \subseteq unacked_pdu_list_
    BY <2>1 DEF handle_dtpc_delete_request, Drop, ReceiverUnaffected, receiver, faults, sender
  <2>3. Sent' \subseteq Sent /\ now' \in Nat
    BY <2>2, BaseOf DEF Sent
  <2> QED BY <2>2, <2>3, DaemonKeepsBase DEF ReceiverUnaffected
<1>11. CASE \E n \in acks : handle_dtpc_ack_received_event(n)
  <2>1. PICK n \in acks : handle_dtpc_ack_received_event(n)
    BY <1>11
  <2>2. /\ ReceiverUnaffected /\ UNCHANGED <<sent, me_eventq_, agg, agg_row, now>>
        /\ UNCHANGED <<data, transmitted, delete_requests>>
        /\ unacked_pdu_list_' \subseteq unacked_pdu_list_
    BY <2>1 DEF handle_dtpc_ack_received_event, Drop, ReceiverUnaffected, receiver, faults, sender
  <2>3. Sent' \subseteq Sent /\ now' \in Nat
    BY <2>2, BaseOf DEF Sent
  <2> QED BY <2>2, <2>3, DaemonKeepsBase DEF ReceiverUnaffected
<1>12. CASE RestartSender
  <2>1. ReceiverUnaffected
    <3>1. torn' = torn \/ torn' = torn \cup {"sender"}
      BY <1>12 DEF RestartSender
    <3>2. "receiver" # "sender" /\ "reload" # "sender"
      OBVIOUS
    <3>3. \A x \in {"receiver", "reload"} : x \in torn' <=> x \in torn
      BY <3>1, <3>2
    <3> QED BY <1>12, <3>3 DEF RestartSender, ReceiverUnaffected, receiver
  <2> QED BY <1>12, <2>1, RestartSenderKeepsBase
<1>13. CASE Tick
  <2>1. /\ ReceiverUnaffected /\ UNCHANGED <<sent, me_eventq_, agg, agg_row>> /\ now' = now + 1
        /\ UNCHANGED <<data, unacked_pdu_list_, transmitted, delete_requests>>
    BY <1>13 DEF Tick, ReceiverUnaffected, receiver, faults, sender, daemon
  <2>2. now' \in Nat
    BY SMT, <2>1, BaseOf
  <2>3. Sent' = Sent
    BY <2>1 DEF Sent
  <2> QED BY <2>1, <2>2, <2>3, DaemonKeepsBase DEF ReceiverUnaffected
<1>14. CASE UNCHANGED vars
  <2>1. /\ ReceiverUnaffected /\ UNCHANGED <<sent, me_eventq_, agg, agg_row, now>>
        /\ UNCHANGED <<data, unacked_pdu_list_, transmitted, delete_requests>>
    BY <1>14 DEF vars, ReceiverUnaffected, receiver, faults, sender, daemon
  <2>2. Sent' = Sent /\ now' \in Nat
    BY <2>1, BaseOf DEF Sent
  <2> QED BY <2>1, <2>2, DaemonKeepsBase DEF ReceiverUnaffected
<1>15. CASE ReceiverStep
  BY <1>15, ReceiverStepKeepsBase
<1> QED
  BY <1>1, <1>2, <1>3, <1>4, <1>5, <1>6, <1>7, <1>8, <1>9, <1>10, <1>11, <1>12, <1>13,
     <1>14, <1>15
  DEF Next, Aggregator, Timeouts, SenderDaemon, ReceiverDaemon, ReceiverStep

-----------------------------------------------------------------------------
(* The collector delivers in order *)

LEMMA StepKeepsOrder ==
    ASSUME Base, Smooth => OrderInv, Smooth', ReceiverUnaffected \/ ReceiverStep
    PROVE  OrderInv'
<1>0. /\ \A p \in Pdus : p.seq_ctr \in Nat
      /\ col.pdu_map_ \subseteq Pdus /\ col_row.pdu_map_ \subseteq Pdus /\ Del \subseteq Pdus
      /\ col.seq_ctr_ \in Nat /\ col_row.seq_ctr_ \in Nat
  BY BaseOf, ReceivedTyped DEF Base
<1>1. CASE ReceiverUnaffected
  <2>1. Smooth
    BY <1>1 DEF ReceiverUnaffected, Smooth
  <2> QED BY <1>1, <2>1 DEF ReceiverUnaffected, OrderInv, Ascending, Del
<1>2. CASE \E pdu \in data : receive_data(pdu)
  <2>1. /\ UNCHANGED <<col, col_row, delivered, torn>> /\ handling = Idle
    BY <1>2 DEF receive_data, faults
  <2>2. OrderInv /\ handling.at # "updating"
    BY <2>1 DEF Smooth, Idle
  <2> QED BY <2>1, <2>2 DEF OrderInv, Ascending, Del
<1>3. CASE pdu_received
  <2>1. /\ handling.at = "received" /\ handling.pdu \in Pdus /\ handling'.at = "updating"
        /\ UNCHANGED <<col_row, torn>>
        /\ Delivered(handling.pdu) \/ Discarded(handling.pdu) \/ Queued(handling.pdu)
    BY <1>3, PduReceived
  <2>2. OrderInv
    BY <2>1 DEF Smooth
  <2>3. CASE Delivered(handling.pdu)
    <3>1. PICK m \in Nat : Delivers(handling.pdu, col.seq_ctr_, col.pdu_map_, m)
      BY <2>3 DEF Delivered
    <3>2. handling.pdu.seq_ctr = col.seq_ctr_ /\ col'.seq_ctr_ = m + 1
      BY <2>3, <3>1 DEF Delivered, Delivers
    <3>3. \A p \in col'.pdu_map_ : p.seq_ctr > col'.seq_ctr_
      BY <2>2, <3>1, <3>2 DEF OrderInv, Delivers
    <3>4. Ascending' /\ Del' \subseteq Pdus /\ \A p \in Del' : p.seq_ctr <= m
      BY <1>0, <2>1, <2>2, <3>1, <3>2 DEF OrderInv, Delivers
    <3>5. \A p \in Del' : p.seq_ctr < col'.seq_ctr_
      BY SMT, <1>0, <3>2, <3>4
    <3> QED BY <2>1, <2>2, <3>3, <3>4, <3>5 DEF OrderInv
  <2>4. CASE Discarded(handling.pdu)
    BY <2>1, <2>2, <2>4 DEF Discarded, OrderInv, Ascending, Del
  <2>5. CASE Queued(handling.pdu)
    <3>1. \A p \in col'.pdu_map_ : p.seq_ctr > col'.seq_ctr_
      BY <2>2, <2>5 DEF Queued, OrderInv
    <3> QED BY <2>1, <2>2, <2>5, <3>1 DEF Queued, OrderInv, Ascending, Del
  <2> QED BY <2>1, <2>3, <2>4, <2>5
<1>4. CASE UpdateCollector
  <2>1. /\ col_row'.seq_ctr_ = col.seq_ctr_ /\ col_row'.pdu_map_ = col.pdu_map_
        /\ UNCHANGED <<col, delivered, torn>>
    BY <1>4, CollectorUpdated
  <2>2. OrderInv
    BY <2>1 DEF Smooth
  <2> QED BY <2>1, <2>2 DEF OrderInv, Ascending, Del
<1>5. CASE \E n \in deliver_events : timer_expired(n)
  <2>1. /\ handling = Idle /\ UNCHANGED <<col_row, torn>>
        /\ \/ \E first \in Pdus : Expired(first)
           \/ UNCHANGED <<col, delivered>>
    BY <1>5, TimerExpired
  <2>2. OrderInv /\ handling.at # "updating"
    BY <2>1 DEF Smooth, Idle
  <2>3. CASE \E first \in Pdus : Expired(first)
    <3>1. PICK first \in Pdus : Expired(first)
      BY <2>3
    <3> DEFINE n == first.seq_ctr
               map == col.pdu_map_ \ {first}
    <3>2. PICK m \in Nat : Delivers(first, n, map, m)
      BY <3>1 DEF Expired
    <3>3. /\ \A p \in map : p.seq_ctr > n
          /\ n > col.seq_ctr_ /\ n \in Nat /\ handling'.at = "updating"
      BY <1>0, <2>2, <3>1 DEF Expired, OrderInv
    <3> HIDE DEF n
    <3>4. \A p \in Del : p.seq_ctr < n
      <4>1. ASSUME NEW p \in Del PROVE p.seq_ctr < n
        <5>1. p.seq_ctr \in Nat /\ p.seq_ctr < col.seq_ctr_
          BY <1>0, <2>2 DEF OrderInv
        <5> QED BY SMT, <1>0, <3>3, <5>1
      <4> QED BY <4>1
    <3> HIDE DEF map
    <3>5. \A p \in col'.pdu_map_ : p.seq_ctr > col'.seq_ctr_
      BY <3>2, <3>3 DEF Delivers
    <3>6. Ascending' /\ \A p \in Del' : p.seq_ctr <= m
      BY <2>2, <3>2, <3>4 DEF OrderInv, Delivers, n
    <3>7. Del' \subseteq Pdus /\ col'.seq_ctr_ = m + 1
      BY <1>0, <3>2 DEF Delivers, map
    <3>8. \A p \in Del' : p.seq_ctr < col'.seq_ctr_
      BY SMT, <1>0, <3>6, <3>7
    <3> QED BY <2>1, <2>2, <3>3, <3>5, <3>6, <3>8 DEF OrderInv
  <2>4. CASE UNCHANGED <<col, delivered>>
    BY <2>1, <2>2, <2>4 DEF OrderInv, Ascending, Del
  <2> QED BY <2>1, <2>3, <2>4
<1>6. CASE RestartReceiver
  <2>1. /\ UNCHANGED <<col_row, delivered>> /\ handling' = Idle /\ torn \subseteq torn'
        /\ col'.pdu_map_ \subseteq col_row.pdu_map_
        /\ \/ /\ col'.pdu_map_ = col_row.pdu_map_ /\ col'.seq_ctr_ = col_row.seq_ctr_
           \/ \E g \in col_row.pdu_map_ \ col'.pdu_map_ :
                 /\ col'.seq_ctr_ = g.seq_ctr + 1
                 /\ \A p \in col'.pdu_map_ : g.seq_ctr < p.seq_ctr
        /\ "receiver" \notin torn' => handling = Idle
        /\ "reload" \notin torn' => \A p \in col'.pdu_map_ : p.seq_ctr # col'.seq_ctr_
    BY <1>6, Reloaded
  <2>2. /\ Smooth /\ handling = Idle
        /\ \A p \in col'.pdu_map_ : p.seq_ctr # col'.seq_ctr_
    BY <2>1 DEF Smooth
  <2>3. OrderInv /\ handling.at # "updating" /\ Del' = Del
    BY <2>1, <2>2 DEF Idle, Del
  <2>4. \A p \in Del : p.seq_ctr < col_row.seq_ctr_
    BY <2>3 DEF OrderInv
  <2>5. CASE col'.pdu_map_ = col_row.pdu_map_ /\ col'.seq_ctr_ = col_row.seq_ctr_
    BY <2>1, <2>3, <2>4, <2>5 DEF OrderInv, Ascending
  <2>6. CASE \E g \in col_row.pdu_map_ \ col'.pdu_map_ :
               /\ col'.seq_ctr_ = g.seq_ctr + 1
               /\ \A p \in col'.pdu_map_ : g.seq_ctr < p.seq_ctr
    <3>1. PICK g \in col_row.pdu_map_ :
               /\ col'.seq_ctr_ = g.seq_ctr + 1
               /\ \A p \in col'.pdu_map_ : g.seq_ctr < p.seq_ctr
      BY <2>6
    <3>2. g.seq_ctr \in Nat /\ g.seq_ctr > col_row.seq_ctr_
      BY <1>0, <2>3 DEF OrderInv
    <3>3. \A p \in col'.pdu_map_ : p.seq_ctr \in Nat
      BY <1>0, <2>1
    <3>4. \A p \in col'.pdu_map_ : p.seq_ctr > col'.seq_ctr_
      BY SMT, <2>2, <3>1, <3>2, <3>3
    <3>5. \A p \in Del : p.seq_ctr \in Nat
      BY <1>0
    <3>6. \A p \in Del : p.seq_ctr < col'.seq_ctr_
      BY SMT, <1>0, <2>4, <3>1, <3>2, <3>5
    <3> QED BY <2>1, <2>3, <2>4, <3>4, <3>6 DEF OrderInv, Ascending
  <2> QED BY <2>1, <2>5, <2>6
<1> QED BY <1>1, <1>2, <1>3, <1>4, <1>5, <1>6 DEF ReceiverStep

-----------------------------------------------------------------------------
(* What is acknowledged is settled, held or at hand *)

\* What was delivered or given up stays so.
LEMMA SettledStays ==
    ASSUME skipped \subseteq skipped', Del \subseteq Del', NEW n, Settled(n)
    PROVE  Settled(n)'
BY DEF Settled

LEMMA StepKeepsSettled ==
    ASSUME Base, "receiver" \notin torn => SettledInv /\ AckInv, "receiver" \notin torn',
           ReceiverUnaffected \/ ReceiverStep
    PROVE  SettledInv' /\ AckInv'
<1>0. /\ \A p \in Pdus : p.seq_ctr \in Nat /\ p.seq_ctr >= 1
      /\ col.pdu_map_ \subseteq Pdus /\ col_row.pdu_map_ \subseteq Pdus
      /\ col.seq_ctr_ \in Nat /\ col_row.seq_ctr_ \in Nat
  BY BaseOf, ReceivedTyped DEF Base
<1>1. CASE ReceiverUnaffected
  <2>1. SettledInv /\ AckInv
    BY <1>1 DEF ReceiverUnaffected
  <2>2. \A n : Settled(n) => Settled(n)'
    BY <1>1 DEF ReceiverUnaffected, Settled, Del
  <2>3. Handled' = Handled
    BY <1>1 DEF ReceiverUnaffected, Handled
  <2> QED BY <1>1, <2>1, <2>2, <2>3 DEF ReceiverUnaffected, SettledInv, AckInv
<1>2. CASE \E pdu \in data : receive_data(pdu)
  <2>1. PICK pdu \in data : receive_data(pdu)
    BY <1>2
  <2>2. /\ UNCHANGED <<col, col_row, delivered, skipped, torn>> /\ handling = Idle
        /\ acks' \subseteq acks \cup {pdu.seq_ctr}
    BY <2>1 DEF receive_data, faults
  <2>3. Handled' = {pdu} /\ Handled = {}
    BY <2>1, ReceiveKeepsBase
  <2>4. SettledInv /\ AckInv /\ handling.at # "updating"
    BY <2>2 DEF Idle
  <2>5. \A n : Settled(n) => Settled(n)'
    BY <2>2 DEF Settled, Del
  <2> QED BY <2>2, <2>3, <2>4, <2>5 DEF SettledInv, AckInv
<1>3. CASE pdu_received
  <2>0. PICK pdu : pdu = handling.pdu
    OBVIOUS
  <2>1. /\ Handled = {pdu} /\ Handled' = {} /\ pdu \in Pdus /\ handling'.at = "updating"
        /\ UNCHANGED <<col_row, acks, skipped, torn>>
        /\ Delivered(pdu) \/ Discarded(pdu) \/ Queued(pdu)
    BY <1>3, <2>0, PduReceived
  <2>2. SettledInv /\ AckInv
    BY <2>1
  <2>3. CASE Delivered(pdu)
    <3>1. PICK m \in Nat : Delivers(pdu, col.seq_ctr_, col.pdu_map_, m)
      BY <2>3 DEF Delivered
    <3>2. /\ pdu.seq_ctr = col.seq_ctr_ /\ col'.seq_ctr_ = m + 1 /\ col.seq_ctr_ <= m
          /\ Del \subseteq Del' /\ pdu \in Del'
      BY <2>3, <3>1 DEF Delivered, Delivers
    <3>3. \A n : Settled(n) => Settled(n)'
      BY <2>1, <3>2, SettledStays
    <3>4. \A k \in (col.seq_ctr_ + 1)..m : Settled(k)'
      BY <3>1 DEF Delivers, Settled
    <3>5. Settled(pdu.seq_ctr)'
      BY <3>2 DEF Settled
    <3>6. ASSUME NEW k \in 1..(col'.seq_ctr_ - 1) PROVE Settled(k)'
      <4>1. \/ k \in 1..(col.seq_ctr_ - 1) \/ k = col.seq_ctr_
            \/ k \in (col.seq_ctr_ + 1)..m
        BY SMT, <1>0, <3>2
      <4> QED BY <2>2, <3>2, <3>3, <3>4, <3>5, <4>1 DEF SettledInv
    <3>7. \A p \in col.pdu_map_ \ col'.pdu_map_ : Settled(p.seq_ctr)'
      BY <3>1, <3>4 DEF Delivers
    <3>8. AckInv'
      <4>1. ASSUME NEW n \in acks
            PROVE  Settled(n)' \/ \E p \in col'.pdu_map_ : p.seq_ctr = n
        <5>1. CASE Settled(n)
          BY <3>3, <5>1
        <5>2. CASE \E p \in col.pdu_map_ : p.seq_ctr = n
          BY <3>7, <5>2
        <5>3. CASE pdu.seq_ctr = n
          BY <3>5, <5>3
        <5> QED BY <2>1, <2>2, <5>1, <5>2, <5>3 DEF AckInv
      <4> QED BY <2>1, <4>1 DEF AckInv
    <3> QED BY <2>1, <2>2, <3>3, <3>6, <3>8 DEF SettledInv
  <2>4. CASE Discarded(pdu)
    <3>1. \A n : Settled(n) => Settled(n)'
      BY <2>1, <2>4 DEF Discarded, Settled, Del
    <3>2. pdu.seq_ctr \in 1..(col.seq_ctr_ - 1)
      BY SMT, <1>0, <2>1, <2>4 DEF Discarded
    <3>3. Settled(pdu.seq_ctr)'
      BY <2>2, <3>1, <3>2 DEF SettledInv
    <3> QED BY <2>1, <2>2, <2>4, <3>1, <3>3 DEF Discarded, SettledInv, AckInv
  <2>5. CASE Queued(pdu)
    <3>1. \A n : Settled(n) => Settled(n)'
      BY <2>1, <2>5 DEF Queued, Settled, Del
    <3> QED BY <2>1, <2>2, <2>5, <3>1 DEF Queued, SettledInv, AckInv
  <2> QED BY <2>1, <2>3, <2>4, <2>5
<1>4. CASE UpdateCollector
  <2>1. /\ col_row'.seq_ctr_ = col.seq_ctr_ /\ col_row'.pdu_map_ = col.pdu_map_
        /\ UNCHANGED <<col, delivered, skipped, acks, torn>> /\ Handled = {} /\ Handled' = {}
    BY <1>4, CollectorUpdated
  <2>2. SettledInv /\ AckInv
    BY <2>1
  <2>3. \A n : Settled(n) => Settled(n)'
    BY <2>1 DEF Settled, Del
  <2> QED BY <2>1, <2>2, <2>3 DEF SettledInv, AckInv
<1>5. CASE \E n \in deliver_events : timer_expired(n)
  <2>1. /\ handling = Idle /\ Handled = {} /\ Handled' = {}
        /\ UNCHANGED <<col_row, acks, torn>>
        /\ \/ \E first \in Pdus : Expired(first)
           \/ UNCHANGED <<col, delivered, skipped>>
    BY <1>5, TimerExpired
  <2>2. SettledInv /\ AckInv /\ handling.at # "updating"
    BY <2>1 DEF Idle
  <2>3. CASE \E first \in Pdus : Expired(first)
    <3>1. PICK first \in Pdus : Expired(first)
      BY <2>3
    <3> DEFINE n == first.seq_ctr
               map == col.pdu_map_ \ {first}
    <3>2. PICK m \in Nat : Delivers(first, n, map, m)
      BY <3>1 DEF Expired
    <3>3. /\ n \in Nat /\ handling'.at = "updating"
          /\ skipped' = skipped \cup col.seq_ctr_..(n - 1)
      BY <1>0, <3>1 DEF Expired
    <3> HIDE DEF n, map
    <3>4. Del \subseteq Del' /\ first \in Del' /\ col'.seq_ctr_ = m + 1 /\ n <= m
      BY <3>2 DEF Delivers
    <3>5. \A k : Settled(k) => Settled(k)'
      BY <3>3, <3>4, SettledStays
    <3>6. \A k \in (n + 1)..m : Settled(k)'
      BY <3>2 DEF Delivers, Settled
    <3>7. Settled(n)'
      BY <3>4 DEF Settled, n
    <3>8. \A k \in col.seq_ctr_..(n - 1) : Settled(k)'
      BY <3>3 DEF Settled
    <3>9. ASSUME NEW k \in 1..(col'.seq_ctr_ - 1) PROVE Settled(k)'
      <4>1. \/ k \in 1..(col.seq_ctr_ - 1) \/ k \in col.seq_ctr_..(n - 1)
            \/ k = n \/ k \in (n + 1)..m
        BY SMT, <1>0, <3>3, <3>4
      <4> QED BY <2>2, <3>5, <3>6, <3>7, <3>8, <4>1 DEF SettledInv
    <3>10. \A p \in col.pdu_map_ \ col'.pdu_map_ : Settled(p.seq_ctr)'
      <4>1. \A p \in map \ col'.pdu_map_ : Settled(p.seq_ctr)'
        BY <3>2, <3>6 DEF Delivers
      <4> QED BY <3>7, <4>1 DEF map, n
    <3>11. AckInv'
      BY <2>1, <2>2, <3>5, <3>10 DEF AckInv
    <3> QED BY <2>1, <2>2, <3>3, <3>5, <3>9, <3>11 DEF SettledInv
  <2>4. CASE UNCHANGED <<col, delivered, skipped>>
    <3>1. \A n : Settled(n) => Settled(n)'
      BY <2>4 DEF Settled, Del
    <3> QED BY <2>1, <2>2, <2>4, <3>1 DEF SettledInv, AckInv
  <2> QED BY <2>1, <2>3, <2>4
<1>6. CASE RestartReceiver
  <2>1. /\ UNCHANGED <<col_row, acks, delivered>> /\ Handled' = {}
        /\ torn \subseteq torn' /\ handling = Idle
        /\ col'.pdu_map_ \subseteq col_row.pdu_map_
        /\ \A p \in col_row.pdu_map_ \ col'.pdu_map_ : p.seq_ctr < col'.seq_ctr_
        /\ skipped' = skipped \cup col_row.seq_ctr_..(col'.seq_ctr_ - 1)
        /\ Base'
    BY <1>6, Reloaded
  <2>2. SettledInv /\ AckInv /\ handling.at # "updating" /\ Handled = {}
    BY <2>1 DEF Idle, Handled
  <2>3. \A n : Settled(n) => Settled(n)'
    <3>1. Del' = Del
      BY <2>1 DEF Del
    <3> QED BY <2>1, <3>1, SettledStays
  <2>4. \A k \in col_row.seq_ctr_..(col'.seq_ctr_ - 1) : Settled(k)'
    BY <2>1 DEF Settled
  <2>5. col'.seq_ctr_ \in Nat
    BY <2>1 DEF Base, ReceiverTyped
  <2>6. ASSUME NEW k \in 1..(col'.seq_ctr_ - 1) PROVE Settled(k)'
    <3>1. k \in 1..(col_row.seq_ctr_ - 1) \/ k \in col_row.seq_ctr_..(col'.seq_ctr_ - 1)
      BY SMT, <1>0, <2>5
    <3> QED BY <2>2, <2>3, <2>4, <3>1 DEF SettledInv
  <2>7. \A p \in col.pdu_map_ \ col'.pdu_map_ : Settled(p.seq_ctr)'
    <3>1. ASSUME NEW p \in col.pdu_map_ \ col'.pdu_map_ PROVE Settled(p.seq_ctr)'
      <4>1. p.seq_ctr \in Nat /\ p.seq_ctr >= 1 /\ p.seq_ctr < col'.seq_ctr_
        BY <1>0, <2>1, <2>2 DEF SettledInv
      <4>2. p.seq_ctr \in 1..(col'.seq_ctr_ - 1)
        BY SMT, <2>5, <4>1
      <4> QED BY <2>6, <4>2
    <3> QED BY <3>1
  <2>8. AckInv'
    BY <2>1, <2>2, <2>3, <2>7 DEF AckInv
  <2> QED BY <2>1, <2>2, <2>3, <2>6, <2>8 DEF SettledInv
<1> QED BY <1>1, <1>2, <1>3, <1>4, <1>5, <1>6 DEF ReceiverStep

-----------------------------------------------------------------------------
(* The theorems *)

\* The limit is a property of the profile, which no step changes.
LimitInv == retransmission_limit \in Nat

LEMMA ProfileStays ==
    ASSUME [Next]_vars
    PROVE  retransmission_limit' = retransmission_limit
<1>1. CASE handle_dtpc_send_data_item \/ RestartSender \/ RestartReceiver \/ Tick
  BY <1>1 DEF handle_dtpc_send_data_item, RestartSender, RestartReceiver, Tick, profile
<1>2. CASE Aggregator
  BY <1>2 DEF Aggregator, send_data_item, UpdateAggregator, agg_timer_expired, profile
<1>3. CASE Timeouts
  BY <1>3 DEF Timeouts, AggregationTimeout, RetransmitTimeout, DeliverTimeout, profile
<1>4. CASE SenderDaemon
  BY <1>4 DEF SenderDaemon, handle_dtpc_transmitted_event, retransmit_pdu,
     handle_dtpc_delete_request, handle_dtpc_ack_received_event, profile
<1>5. CASE \E pdu \in data : receive_data(pdu)
  BY <1>5 DEF receive_data, profile
<1>6. CASE ReceiverDaemon
  BY <1>6 DEF ReceiverDaemon, pdu_received, UpdateCollector, timer_expired, profile
<1>7. CASE UNCHANGED vars
  BY <1>7 DEF vars, profile
<1> QED BY <1>1, <1>2, <1>3, <1>4, <1>5, <1>6, <1>7 DEF Next

LEMMA InvariantInitially ==
    ASSUME Init
    PROVE  DtpcInv /\ LimitInv /\ NoServiceInv /\ UnackedIsTimed
<1>1. LimitInv
  BY DtpcAssumption DEF Init, LimitInv
<1>2. NoServiceInv /\ UnackedIsTimed
  BY DEF Init, NoServiceInv, UnackedIsTimed
<1>3. /\ Sent = {} /\ Handled = {} /\ Del = {} /\ Waiting = {}
      /\ DOMAIN me_eventq_ = {} /\ DOMAIN delivered = {}
      /\ me_eventq_ \in Seq(Nat) /\ delivered \in Seq(Pdu)
  <2>1. DOMAIN <<>> = {} /\ <<>> \in Seq(Nat) /\ <<>> \in Seq(Pdu)
    BY SMT
  <2>2. Sent = {} /\ Handled = {}
    BY DEF Init, Sent, Handled, Idle
  <2> QED BY <2>1, <2>2 DEF Init, Del, Waiting
<1>4. /\ agg.seq_ctr_ = 1 /\ agg.items = {} /\ agg_row.seq_ctr_ = 1 /\ agg_row.items = {}
      /\ col.seq_ctr_ = 1 /\ col.pdu_map_ = {} /\ col_row.seq_ctr_ = 1 /\ col_row.pdu_map_ = {}
      /\ acks = {}
  BY DEF Init
<1>5. 0 \in Nat /\ 1 \in Nat /\ 1 >= 1 /\ 1 <= 1 /\ 1..(1 - 1) = {} /\ NoTimer \in DeliverTimer
  BY SMT DEF NoTimer, DeliverTimer
<1>6. SenderTyped
  BY <1>3, <1>5 DEF Init, SenderTyped
<1>7. ReceiverTyped
  BY <1>3, <1>5 DEF Init, ReceiverTyped
<1>8. QueueInv
  BY <1>3, <1>4, <1>5 DEF QueueInv, Below
<1>9. Pdus = {} /\ PduInv
  BY <1>3, <1>4 DEF Pdus, Received, PduInv
<1>10. Base
  BY <1>4, <1>6, <1>7, <1>8, <1>9 DEF Base, Distinct
<1>11. OrderInv
  BY <1>3, <1>4 DEF OrderInv, Ascending
<1>12. SettledInv /\ AckInv
  BY <1>4, <1>5 DEF SettledInv, AckInv
<1> QED BY <1>1, <1>2, <1>10, <1>11, <1>12 DEF DtpcInv

LEMMA InvariantStep ==
    ASSUME DtpcInv, [Next]_vars
    PROVE  DtpcInv'
<1>1. SUFFICES ASSUME retransmission_limit > 0
               PROVE  /\ Base'
                      /\ Smooth' => OrderInv'
                      /\ "receiver" \notin torn' => SettledInv' /\ AckInv'
  BY ProfileStays DEF DtpcInv
<1>2. /\ Base
      /\ Smooth => OrderInv
      /\ "receiver" \notin torn => SettledInv /\ AckInv
  BY <1>1 DEF DtpcInv
<1>3. Base' /\ (ReceiverUnaffected \/ ReceiverStep)
  BY <1>1, <1>2, StepKeepsBase
<1>4. ASSUME Smooth' PROVE OrderInv'
  BY <1>2, <1>3, <1>4, StepKeepsOrder
<1>5. ASSUME "receiver" \notin torn' PROVE SettledInv' /\ AckInv'
  BY <1>2, <1>3, <1>5, StepKeepsSettled
<1> QED BY <1>3, <1>4, <1>5

(* With the transport service the items reach the topic in the order in which *)
(* the application sent them and none twice, for any number of items, PDUs,   *)
(* retransmissions and restarts, except after the two restarts that           *)
(* InOrderOnce names.                                                        *)
THEOREM ItemsInOrder == Spec => []InOrderOnce
<1>1. Init => DtpcInv
  BY InvariantInitially
<1>2. DtpcInv /\ [Next]_vars => DtpcInv'
  BY InvariantStep
<1>3. DtpcInv => InOrderOnce
  <2>1. SUFFICES ASSUME DtpcInv, retransmission_limit > 0, Smooth,
                        NEW i \in DOMAIN delivered, NEW j \in DOMAIN delivered, i < j
                 PROVE  \A x \in delivered[i].items, y \in delivered[j].items : x < y
    BY DEF InOrderOnce, Smooth
  <2>2. Base /\ OrderInv
    BY <2>1 DEF DtpcInv
  <2>3. delivered[i].seq_ctr < delivered[j].seq_ctr
    BY <2>1, <2>2 DEF OrderInv, Ascending
  <2>4. delivered[i] \in Pdus /\ delivered[j] \in Pdus
    BY <2>2, BaseOf DEF Del
  <2>5. Below(delivered[i].items, delivered[j].items)
    BY <2>2, <2>3, <2>4 DEF Base, PduInv
  <2> QED BY <2>5 DEF Below
<1> QED BY <1>1, <1>2, <1>3, PTL DEF Spec

(* Without the transport service there is nothing to acknowledge.             *)
LEMMA NoServiceStep ==
    ASSUME NoServiceInv, [Next]_vars
    PROVE  NoServiceInv'
<1>1. SUFFICES ASSUME retransmission_limit = 0
               PROVE  /\ acks' = {} /\ unacked_pdu_list_' = {} /\ transmitted' = {}
                      /\ \A p \in data' : p.seq_ctr = 0
  BY ProfileStays DEF NoServiceInv
<1>2. /\ acks = {} /\ unacked_pdu_list_ = {} /\ transmitted = {}
      /\ \A p \in data : p.seq_ctr = 0
  BY <1>1 DEF NoServiceInv
<1>3. ~(0 > 0)
  BY SMT
<1>4. ASSUME NEW items, send_payload(items)
      PROVE  transmitted' = transmitted /\ \A p \in data' : p.seq_ctr = 0
  <2> DEFINE pdu == [seq_ctr |-> 0, items |-> items, creation_ts |-> now]
  <2>1. transmitted' = transmitted /\ data' \subseteq data \cup {pdu}
    <3>1. CASE items = {}
      BY <1>4, <3>1 DEF send_payload
    <3>2. CASE items # {}
      BY <1>1, <1>3, <1>4, <3>2 DEF send_payload
    <3> QED BY <3>1, <3>2
  <2>2. pdu.seq_ctr = 0
    OBVIOUS
  <2> HIDE DEF pdu
  <2> QED BY <1>2, <2>1, <2>2
<1>5. CASE Aggregator
  <2>1. CASE send_data_item
    BY <1>2, <1>4, <2>1 DEF send_data_item
  <2>2. CASE UpdateAggregator
    BY <1>2, <2>2 DEF UpdateAggregator, daemon
  <2>3. CASE \E n \in agg_events : agg_timer_expired(n)
    BY <1>2, <1>4, <2>3 DEF agg_timer_expired
  <2> QED BY <1>5, <2>1, <2>2, <2>3 DEF Aggregator
<1>6. CASE Timeouts
  BY <1>2, <1>6 DEF Timeouts, AggregationTimeout, RetransmitTimeout, DeliverTimeout, daemon
<1>7. CASE SenderDaemon
  <2>1. CASE \E n \in retransmit_events : retransmit_pdu(n)
    BY <1>2, <2>1 DEF retransmit_pdu
  <2>2. CASE \E pdu \in delete_requests : handle_dtpc_delete_request(pdu)
    BY <1>2, <2>2 DEF handle_dtpc_delete_request, Drop
  <2> QED BY <1>2, <1>7, <2>1, <2>2 DEF SenderDaemon
<1>8. CASE \E pdu \in data : receive_data(pdu)
  BY <1>2, <1>3, <1>8 DEF receive_data, daemon
<1>9. CASE ReceiverDaemon
  BY <1>2, <1>9 DEF ReceiverDaemon, pdu_received, UpdateCollector, timer_expired, daemon
<1>10. CASE handle_dtpc_send_data_item \/ RestartSender \/ RestartReceiver \/ Tick
  BY <1>2, <1>10 DEF handle_dtpc_send_data_item, RestartSender, RestartReceiver, Tick, daemon
<1>11. CASE UNCHANGED vars
  BY <1>2, <1>11 DEF vars, daemon
<1> QED BY <1>5, <1>6, <1>7, <1>8, <1>9, <1>10, <1>11 DEF Next

(* A PDU whose ACK left was delivered, is held, is being handled or was given  *)
(* up, through any loss, repetition and restart, unless the receiver stopped  *)
(* in the middle of pdu_received().                                          *)
THEOREM AckedStaysKept == Spec => []AckedIsKept
<1> DEFINE Inv == DtpcInv /\ LimitInv /\ NoServiceInv
<1>1. Init => Inv
  BY InvariantInitially
<1>2. Inv /\ [Next]_vars => Inv'
  BY InvariantStep, NoServiceStep, ProfileStays DEF LimitInv
<1>3. Inv => AckedIsKept
  <2>1. SUFFICES ASSUME Inv, "receiver" \notin torn, NEW n \in acks
                 PROVE  \/ \E i \in DOMAIN delivered : delivered[i].seq_ctr = n
                        \/ \E p \in col.pdu_map_ : p.seq_ctr = n
                        \/ n \in skipped
                        \/ handling.at = "received" /\ handling.pdu.seq_ctr = n
    BY DEF AckedIsKept
  <2>2. retransmission_limit > 0
    <3>1. retransmission_limit # 0 /\ retransmission_limit \in Nat
      BY <2>1 DEF NoServiceInv, LimitInv
    <3> QED BY SMT, <3>1
  <2>3. AckInv
    BY <2>1, <2>2 DEF DtpcInv
  <2> QED BY <2>3 DEF AckInv, Settled, Handled, Del
<1> HIDE DEF Inv
<1> QED BY <1>1, <1>2, <1>3, PTL DEF Spec

(* Every unacknowledged PDU has a retransmit timer that ticks or an event that *)
(* starts one or takes it off the list.                                      *)
LEMMA TimedStep ==
    ASSUME UnackedIsTimed, [Next]_vars
    PROVE  UnackedIsTimed'
<1>1. ASSUME UNCHANGED <<unacked_pdu_list_, retransmit_timers, retransmit_events, delete_requests>>,
             transmitted \subseteq transmitted'
      PROVE  UnackedIsTimed'
  BY <1>1 DEF UnackedIsTimed
<1>2. CASE Aggregator
  <2>1. ASSUME NEW items, send_payload(items) PROVE transmitted \subseteq transmitted'
    BY <2>1 DEF send_payload
  <2>2. CASE send_data_item
    BY <1>1, <2>1, <2>2 DEF send_data_item
  <2>3. CASE UpdateAggregator
    BY <1>1, <2>3 DEF UpdateAggregator, daemon
  <2>4. CASE \E n \in agg_events : agg_timer_expired(n)
    BY <1>1, <2>1, <2>4 DEF agg_timer_expired
  <2> QED BY <1>2, <2>2, <2>3, <2>4 DEF Aggregator
<1>3. CASE Timeouts
  <2>1. CASE \E t \in retransmit_timers : RetransmitTimeout(t)
    <3>1. PICK t \in retransmit_timers : RetransmitTimeout(t)
      BY <2>1
    <3> QED BY <3>1 DEF RetransmitTimeout, UnackedIsTimed
  <2>2. CASE \/ \E n \in agg_timers : AggregationTimeout(n)
             \/ \E t \in deliver_timers : DeliverTimeout(t)
    BY <1>1, <2>2 DEF AggregationTimeout, DeliverTimeout, daemon
  <2> QED BY <1>3, <2>1, <2>2 DEF Timeouts
<1>4. CASE \E pdu \in transmitted : handle_dtpc_transmitted_event(pdu)
  <2>1. PICK pdu \in transmitted : handle_dtpc_transmitted_event(pdu)
    BY <1>4
  <2> DEFINE t == [seq_ctr |-> pdu.seq_ctr, due |-> calc_retransmit_time]
  <2>2. /\ transmitted' = transmitted \ {pdu}
        /\ unacked_pdu_list_' \subseteq unacked_pdu_list_ \cup {pdu}
        /\ retransmit_timers' = retransmit_timers \cup {t}
        /\ UNCHANGED <<retransmit_events, delete_requests>>
    BY <2>1 DEF handle_dtpc_transmitted_event
  <2>3. t.seq_ctr = pdu.seq_ctr
    OBVIOUS
  <2> HIDE DEF t
  <2>4. \E u \in retransmit_timers' : u.seq_ctr = pdu.seq_ctr
    BY <2>2, <2>3
  <2>5. ASSUME NEW p \in unacked_pdu_list_'
        PROVE  \/ \E u \in retransmit_timers' : u.seq_ctr = p.seq_ctr
               \/ p.seq_ctr \in retransmit_events'
               \/ \E q \in transmitted' \cup delete_requests' : q.seq_ctr = p.seq_ctr
    <3>1. CASE p.seq_ctr = pdu.seq_ctr
      BY <2>4, <3>1
    <3>2. CASE p.seq_ctr # pdu.seq_ctr
      <4>1. p \in unacked_pdu_list_
        BY <2>2, <3>2
      <4> QED BY <2>2, <3>2, <4>1 DEF UnackedIsTimed
    <3> QED BY <3>1, <3>2
  <2> QED BY <2>5 DEF UnackedIsTimed
<1>5. CASE \E n \in retransmit_events : retransmit_pdu(n)
  <2>1. PICK n \in retransmit_events : retransmit_pdu(n)
    BY <1>5
  <2>2. /\ UNCHANGED <<unacked_pdu_list_, retransmit_timers>>
        /\ retransmit_events' = retransmit_events \ {n}
        /\ transmitted \subseteq transmitted' /\ delete_requests \subseteq delete_requests'
    BY <2>1 DEF retransmit_pdu
  <2>3. (\E p \in unacked_pdu_list_ : p.seq_ctr = n)
          => \E q \in transmitted' \cup delete_requests' : q.seq_ctr = n
    BY <2>1 DEF retransmit_pdu
  <2> QED BY <2>2, <2>3 DEF UnackedIsTimed
<1>6. CASE \E pdu \in delete_requests : handle_dtpc_delete_request(pdu)
  <2>1. PICK pdu \in delete_requests : handle_dtpc_delete_request(pdu)
    BY <1>6
  <2> QED BY <2>1 DEF handle_dtpc_delete_request, Drop, UnackedIsTimed
<1>7. CASE \E n \in acks : handle_dtpc_ack_received_event(n)
  BY <1>7 DEF handle_dtpc_ack_received_event, Drop, UnackedIsTimed
<1>8. CASE \E pdu \in data : receive_data(pdu)
  BY <1>1, <1>8 DEF receive_data, daemon
<1>9. CASE ReceiverDaemon
  BY <1>1, <1>9 DEF ReceiverDaemon, pdu_received, UpdateCollector, timer_expired, daemon
<1>10. CASE handle_dtpc_send_data_item \/ RestartReceiver \/ Tick
  BY <1>1, <1>10 DEF handle_dtpc_send_data_item, RestartReceiver, Tick, daemon
<1>11. CASE RestartSender
  BY <1>11 DEF RestartSender, UnackedIsTimed
<1>12. CASE UNCHANGED vars
  BY <1>1, <1>12 DEF vars, daemon
<1> QED BY <1>2, <1>3, <1>4, <1>5, <1>6, <1>7, <1>8, <1>9, <1>10, <1>11, <1>12
        DEF Next, SenderDaemon

(* No PDU stays on unacked_pdu_list_ with nothing that looks at it again.     *)
THEOREM UnackedStaysTimed == Spec => []UnackedIsTimed
<1>1. Init => UnackedIsTimed
  BY InvariantInitially
<1>2. UnackedIsTimed /\ [Next]_vars => UnackedIsTimed'
  BY TimedStep
<1> QED BY <1>1, <1>2, PTL DEF Spec
=============================================================================
