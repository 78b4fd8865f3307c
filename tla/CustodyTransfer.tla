--------------------------- MODULE CustodyTransfer ---------------------------
(***************************************************************************)
(* Custody of bundles passing from one DTNME node, the custodian, to the    *)
(* next, the receiver, with aggregate custody signals.  The custodian's     *)
(* CustodyList gives each bundle an id that travels with the bundle (in its *)
(* CTEB block); the receiver accepts custody or reports a redundant         *)
(* reception, in both cases by the id; the custodian releases the bundles   *)
(* whose ids come back.  Each node writes bundles to its datastore from a   *)
(* thread of its own, some time after the change in memory, and either node *)
(* may stop and start again at any time.                                    *)
(*                                                                          *)
(* The receiver's ACS thread, which AggregateCustody details, is here the   *)
(* set of ids posted to it and not yet signalled.  An id may be signalled   *)
(* with any others: accepted and redundant ones are collected apart, but    *)
(* release custody alike.  A restart forgets the ids that the thread had    *)
(* not saved and signals the rest.                                          *)
(***************************************************************************)
EXTENDS Integers, FiniteSets

CONSTANTS
    Bundles,                 \* the bundles that request custody transfer
    MaxId,                   \* bound on the custody ids issued in one run
    MaxRestarts,             \* bound on the restarts of the two daemons together
    MaxInFlight              \* bound on the messages under way

ASSUME BoundsAssumption ==
    /\ MaxId \in Nat
    /\ MaxRestarts \in Nat
    /\ MaxInFlight \in Nat \ {0}

Ids == 1..MaxId

VARIABLES
    custodyid,               \* custodian: a bundle's custodyid_, 0 if it has none
    last_custody_id,         \* custodian: last id of the CustodyList
    custodianDisk,           \* custodian: the custodyid_ its datastore holds
    holds,                   \* receiver: bundles in local custody
    receiverDisk,            \* receiver: the ones its datastore holds
    pending,                 \* receiver: ids posted to the ACS thread
    net,                     \* bundles and signals under way
    issued,                  \* history: <<id, bundle>> pairs ever issued
    accepted,                \* history: bundles the receiver ever accepted
    restarts                 \* counter for the bound MaxRestarts

custodian == <<custodyid, last_custody_id, custodianDisk, issued>>
receiver == <<holds, receiverDisk, pending, accepted>>
vars == <<custodian, receiver, net, restarts>>

BundleMsg == [type : {"bundle"}, bundle : Bundles, id : Ids]
SignalMsg == [type : {"signal"}, ids : SUBSET Ids]

(***************************************************************************)
(* The types of the variables.                                              *)
(***************************************************************************)
TypeOK ==
    /\ custodyid \in [Bundles -> 0..MaxId]
    /\ last_custody_id \in 0..MaxId
    /\ custodianDisk \in [Bundles -> 0..MaxId]
    /\ holds \subseteq Bundles
    /\ receiverDisk \subseteq Bundles
    /\ pending \subseteq Ids
    /\ net \subseteq BundleMsg \cup SignalMsg
    /\ issued \subseteq Ids \X Bundles
    /\ accepted \subseteq Bundles
    /\ restarts \in 0..MaxRestarts

Init ==
    /\ custodyid = [b \in Bundles |-> 0]
    /\ last_custody_id = 0
    /\ custodianDisk = [b \in Bundles |-> 0]
    /\ holds = {}
    /\ receiverDisk = {}
    /\ pending = {}
    /\ net = {}
    /\ issued = {}
    /\ accepted = {}
    /\ restarts = 0

-----------------------------------------------------------------------------
(***************************************************************************)
(* Messages that find the network full displace others, which are lost.     *)
(***************************************************************************)
Transmit(ms) ==
    \E lost \in SUBSET net :
        /\ net' = (net \ lost) \cup ms
        /\ Cardinality(net') <= MaxInFlight

(***************************************************************************)
(* The custodian.  A bundle that arrives, for the first time or again, gets *)
(* the next id of the list.                                                 *)
(***************************************************************************)
accept_custody(b) ==
    /\ custodyid[b] = 0
    /\ last_custody_id < MaxId
    /\ last_custody_id' = last_custody_id + 1
    /\ custodyid' = [custodyid EXCEPT ![b] = last_custody_id + 1]
    /\ issued' = issued \cup {<<last_custody_id + 1, b>>}
    /\ UNCHANGED <<custodianDisk, receiver, net, restarts>>

(***************************************************************************)
(* A first transmission, or one more after handle_custody_timeout.          *)
(***************************************************************************)
Send(b) ==
    /\ custodyid[b] # 0
    /\ Transmit({[type |-> "bundle", bundle |-> b, id |-> custodyid[b]]})
    /\ UNCHANGED <<custodian, receiver, restarts>>

release_custody(bs) ==
    custodyid' = [b \in Bundles |-> IF b \in bs THEN 0 ELSE custodyid[b]]

\* Mutant of Releases: a signal acknowledges all ids up to its largest.
Releases_Cumulative(m) ==
    {b \in Bundles : /\ custodyid[b] # 0
                     /\ \E id \in m.ids : custodyid[b] <= id}

(***************************************************************************)
(* Every id of the signal that is not larger than the last one issued and   *)
(* that the list has releases its bundle.                                   *)
(***************************************************************************)
Releases(m) ==
    {b \in Bundles : /\ custodyid[b] \in m.ids
                     /\ custodyid[b] <= last_custody_id}

process_acs(m) ==
    /\ m.type = "signal"
    /\ release_custody(Releases(m))
    /\ net' = net \ {m}
    /\ UNCHANGED <<last_custody_id, custodianDisk, issued, receiver, restarts>>

handle_bundle_expired(b) ==
    /\ custodyid[b] # 0
    /\ release_custody({b})
    /\ UNCHANGED <<last_custody_id, custodianDisk, issued, receiver,
                   net, restarts>>

CustodianStores(b) ==
    /\ custodianDisk[b] # custodyid[b]
    /\ custodianDisk' = [custodianDisk EXCEPT ![b] = custodyid[b]]
    /\ UNCHANGED <<custodyid, last_custody_id, issued, receiver, net,
                   restarts>>

(***************************************************************************)
(* A restart reloads the bundles; CustodyList::insert takes over their ids, *)
(* and the last id issued is the largest of them.                           *)
(***************************************************************************)
CustodianRestarts ==
    /\ restarts < MaxRestarts
    /\ restarts' = restarts + 1
    /\ custodyid' = custodianDisk
    /\ last_custody_id' \in {custodianDisk[b] : b \in Bundles} \cup {0}
    /\ \A b \in Bundles : custodianDisk[b] <= last_custody_id'
    /\ UNCHANGED <<custodianDisk, issued, receiver, net>>

-----------------------------------------------------------------------------
\* Mutant of handle_bundle_received: a duplicate is dropped without a signal.
handle_bundle_received_Silent(m) ==
    /\ m.type = "bundle"
    /\ pending' = IF m.bundle \in holds THEN pending ELSE pending \cup {m.id}
    /\ holds' = holds \cup {m.bundle}
    /\ accepted' = accepted \cup {m.bundle}
    /\ net' = net \ {m}
    /\ UNCHANGED <<custodian, receiverDisk, restarts>>

(***************************************************************************)
(* The receiver.  A bundle it has in custody is a duplicate, which is       *)
(* reported as redundant and dropped; any other is accepted.                *)
(***************************************************************************)
handle_bundle_received(m) ==
    /\ m.type = "bundle"
    /\ pending' = pending \cup {m.id}
    /\ holds' = holds \cup {m.bundle}
    /\ accepted' = accepted \cup {m.bundle}
    /\ net' = net \ {m}
    /\ UNCHANGED <<custodian, receiverDisk, restarts>>

handle_bundle_delivered(b) ==
    /\ b \in holds
    /\ holds' = holds \ {b}
    /\ UNCHANGED <<custodian, receiverDisk, pending, accepted,
                   net, restarts>>

ReceiverStores(b) ==
    /\ b \in holds <=> b \notin receiverDisk
    /\ receiverDisk' = IF b \in holds THEN receiverDisk \cup {b}
                       ELSE receiverDisk \ {b}
    /\ UNCHANGED <<custodian, holds, pending, accepted, net,
                   restarts>>

Signals(idss) == {[type |-> "signal", ids |-> ids] : ids \in idss \ {{}}}

\* Mutant of generate_acs: each fill is one id too long.
generate_acs_LongFill(ids) ==
    /\ ids # {}
    /\ pending' = pending \ ids
    /\ Transmit(Signals({ids \cup ({id + 1 : id \in ids} \cap Ids)}))
    /\ UNCHANGED <<custodian, holds, receiverDisk, accepted, restarts>>

generate_acs(ids) ==
    /\ ids # {}
    /\ pending' = pending \ ids
    /\ Transmit(Signals({ids}))
    /\ UNCHANGED <<custodian, holds, receiverDisk, accepted, restarts>>

ReceiverRestarts(kept) ==
    /\ restarts < MaxRestarts
    /\ restarts' = restarts + 1
    /\ holds' = receiverDisk
    /\ pending' = {}
    /\ Transmit(Signals({kept}))
    /\ UNCHANGED <<custodian, receiverDisk, accepted>>

-----------------------------------------------------------------------------
Lose(m) ==
    /\ net' = net \ {m}
    /\ UNCHANGED <<custodian, receiver, restarts>>

Next ==
    \/ \E b \in Bundles :
          \/ accept_custody(b)
          \/ Send(b)
          \/ handle_bundle_expired(b)
          \/ CustodianStores(b)
          \/ handle_bundle_delivered(b)
          \/ ReceiverStores(b)
    \/ \E m \in net : process_acs(m) \/ handle_bundle_received(m) \/ Lose(m)
    \/ \E ids \in SUBSET pending : generate_acs(ids) \/ ReceiverRestarts(ids)
    \/ CustodianRestarts

Spec == Init /\ [][Next]_vars

(***************************************************************************)
(* The fairness assumed of the threads and of the network: the storage and  *)
(* ACS threads and the ACS timer get their turn, a bundle in custody is     *)
(* sent again after each custody timeout, and a message that is sent again  *)
(* and again is not lost every time.  Bundles may expire, be delivered, and *)
(* daemons may stop, but none of these has to happen.                       *)
(***************************************************************************)
Fairness ==
    /\ \A id \in Ids :
           SF_vars(\E ids \in SUBSET pending : id \in ids /\ generate_acs(ids))
    /\ \A b \in Bundles : WF_vars(Send(b))
    /\ \A b \in Bundles :
           SF_vars(\E m \in net : /\ m.type = "bundle"
                                  /\ m.bundle = b
                                  /\ m.id = custodyid[b]
                                  /\ handle_bundle_received(m))
    /\ \A b \in Bundles :
           SF_vars(\E m \in net : /\ m.type = "signal"
                                  /\ custodyid[b] \in m.ids
                                  /\ process_acs(m))

FairSpec == Spec /\ Fairness

-----------------------------------------------------------------------------
UnderWay == {m \in net : m.type = "signal"}

(***************************************************************************)
(* Every id that is on its way back to the custodian, in the ACS thread or  *)
(* in a signal, was issued for a bundle that the receiver accepted:         *)
(* retransmissions, redundant receptions and restarts of either node add    *)
(* none.                                                                    *)
(***************************************************************************)
SignalsAreTruthful ==
    \A id \in pending \cup UNION {m.ids : m \in UnderWay} :
        \E b \in accepted : <<id, b>> \in issued

IdsUnique ==
    \A p, q \in issued : p[1] = q[1] => p[2] = q[2]

(***************************************************************************)
(* process_acs releases custody of a bundle only if the receiver accepted   *)
(* that bundle: a signal under way whose id is of an earlier run of the     *)
(* daemon is caught by the comparison with the last id issued.              *)
(***************************************************************************)
ReleasesOnlyAccepted ==
    \A m \in UnderWay : Releases(m) \subseteq accepted

(***************************************************************************)
(* As long as no custody id has been issued for two bundles, process_acs    *)
(* releases custody of a bundle only if the receiver accepted that bundle,  *)
(* whatever is lost, late, repeated or forgotten.                           *)
(***************************************************************************)
LostOnlyByReuse == IdsUnique => ReleasesOnlyAccepted

(***************************************************************************)
(* Custody of every bundle ends: a lost bundle or signal, or an id that the *)
(* receiver forgot in a restart, is made good by the next custody timeout,  *)
(* whose duplicate is accepted again or reported as redundant.              *)
(***************************************************************************)
CustodyEnds == \A b \in Bundles : []<>(custodyid[b] = 0)
=============================================================================
