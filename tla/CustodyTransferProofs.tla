------------------------ MODULE CustodyTransferProofs ------------------------
(***************************************************************************)
(* The safety of custody transfer, for any set of bundles and any bounds.   *)
(*                                                                          *)
(* SignalsAreTruthful is not inductive: a bundle under way must carry an id *)
(* that was issued for it, and for that the ids in the custodian's memory   *)
(* and in its datastore must be issued ones too, or a restart would bring   *)
(* back an id nobody issued.  TransferInv adds these facts.                 *)
(***************************************************************************)
EXTENDS CustodyTransfer, TLAPS

Vouched(id) == \E b \in accepted : <<id, b>> \in issued

IdsAreIssued ==
    \A b \in Bundles :
        /\ custodyid[b] # 0 => <<custodyid[b], b>> \in issued
        /\ custodianDisk[b] # 0 => <<custodianDisk[b], b>> \in issued

MessagesAreTruthful ==
    \A m \in net :
        /\ m.type = "bundle" => <<m.id, m.bundle>> \in issued
        /\ m.type = "signal" => \A id \in m.ids : Vouched(id)

TransferInv ==
    /\ TypeOK
    /\ IdsAreIssued
    /\ MessagesAreTruthful
    /\ \A id \in pending : Vouched(id)

(***************************************************************************)
(* Until a daemon restarts, no id is larger than the last one of the        *)
(* CustodyList, so that the next one is new.                                *)
(***************************************************************************)
FirstRunInv ==
    restarts = 0 => /\ \A p \in issued : p[1] <= last_custody_id
                    /\ IdsUnique

-----------------------------------------------------------------------------
(***************************************************************************)
(* A message that the network holds after a transmission was there before   *)
(* or is one of those sent.                                                 *)
(***************************************************************************)
LEMMA TransmitAdds ==
    ASSUME NEW ms, Transmit(ms)
    PROVE  net' \subseteq net \cup ms
BY DEF Transmit

(***************************************************************************)
(* An id stays vouched for: neither node takes back what it issued or       *)
(* accepted.                                                                *)
(***************************************************************************)
LEMMA VouchedStays ==
    ASSUME issued \subseteq issued', accepted \subseteq accepted'
    PROVE  \A id : Vouched(id) => Vouched(id)'
BY DEF Vouched

(***************************************************************************)
(* The initial state has nothing issued, accepted or under way.             *)
(***************************************************************************)
LEMMA TransferInit == Init => TransferInv /\ FirstRunInv
BY BoundsAssumption DEF Init, TransferInv, FirstRunInv, TypeOK, IdsAreIssued,
   MessagesAreTruthful, IdsUnique, Ids

(***************************************************************************)
(* release_custody clears the ids of some bundles; those left are issued    *)
(* ones as before.                                                          *)
(***************************************************************************)
LEMMA ReleaseKeepsInv ==
    ASSUME TransferInv, NEW bs, release_custody(bs), net' \subseteq net,
           UNCHANGED <<last_custody_id, custodianDisk, issued, receiver,
                       restarts>>
    PROVE  TransferInv'
<1>1. /\ custodyid' \in [Bundles -> 0..MaxId]
      /\ \A b \in Bundles : custodyid'[b] # 0 => custodyid'[b] = custodyid[b]
      BY BoundsAssumption DEF TransferInv, TypeOK, release_custody
<1>2. TypeOK'
      BY <1>1 DEF TransferInv, TypeOK, receiver
<1>3. IdsAreIssued'
      BY Zenon, <1>1 DEF TransferInv, IdsAreIssued
<1>4. MessagesAreTruthful' /\ \A id \in pending' : Vouched(id)'
      BY DEF TransferInv, MessagesAreTruthful, Vouched, receiver
<1> QED
    BY <1>2, <1>3, <1>4 DEF TransferInv

(***************************************************************************)
(* Every step of the custodian, of the receiver and of the network keeps    *)
(* the invariant.                                                           *)
(***************************************************************************)
LEMMA TransferStep == TransferInv /\ [Next]_vars => TransferInv'
<1> SUFFICES ASSUME TransferInv, [Next]_vars
             PROVE  TransferInv'
    OBVIOUS
<1> USE BoundsAssumption
<1>1. ASSUME NEW b \in Bundles, accept_custody(b)
      PROVE  TransferInv'
  <2>1. TypeOK'
        BY <1>1 DEF TransferInv, TypeOK, accept_custody, receiver, Ids
  <2>2. issued \subseteq issued' /\ UNCHANGED <<accepted, pending, net>>
        BY <1>1 DEF accept_custody, receiver
  <2>3. IdsAreIssued'
        BY Zenon, <1>1 DEF TransferInv, TypeOK, IdsAreIssued, accept_custody
  <2>4. \A id : Vouched(id) => Vouched(id)'
        BY <2>2, VouchedStays
  <2> QED
      BY <2>1, <2>2, <2>3, <2>4 DEF TransferInv, MessagesAreTruthful
<1>2. ASSUME NEW b \in Bundles, Send(b)
      PROVE  TransferInv'
  <2> DEFINE sent == [type |-> "bundle", bundle |-> b, id |-> custodyid[b]]
  <2>1. /\ net' \subseteq net \cup {sent}
        /\ UNCHANGED <<custodian, receiver, restarts>>
        /\ custodyid[b] # 0
        BY <1>2, TransmitAdds DEF Send
  <2>2. sent \in BundleMsg /\ <<sent.id, sent.bundle>> \in issued
        BY Zenon, <2>1 DEF TransferInv, TypeOK, IdsAreIssued, BundleMsg, Ids
  <2>3. sent.type # "signal"
        OBVIOUS
  <2> HIDE DEF sent
  <2>4. TypeOK'
        BY <2>1, <2>2 DEF TransferInv, TypeOK, custodian, receiver
  <2>5. MessagesAreTruthful'
        BY Zenon, <2>1, <2>2, <2>3 DEF TransferInv, MessagesAreTruthful, Vouched,
           custodian, receiver
  <2> QED
      BY <2>1, <2>4, <2>5 DEF TransferInv, IdsAreIssued, Vouched, custodian,
         receiver
<1>3. ASSUME NEW b \in Bundles, handle_bundle_expired(b)
      PROVE  TransferInv'
      BY <1>3, ReleaseKeepsInv DEF handle_bundle_expired
<1>4. ASSUME NEW b \in Bundles, CustodianStores(b)
      PROVE  TransferInv'
      BY Zenon, <1>4 DEF TransferInv, TypeOK, IdsAreIssued, MessagesAreTruthful,
         Vouched, CustodianStores, receiver
<1>5. ASSUME NEW b \in Bundles, handle_bundle_delivered(b)
      PROVE  TransferInv'
      BY Zenon, <1>5 DEF TransferInv, TypeOK, IdsAreIssued, MessagesAreTruthful,
         Vouched, handle_bundle_delivered, custodian
<1>6. ASSUME NEW b \in Bundles, ReceiverStores(b)
      PROVE  TransferInv'
      BY Zenon, <1>6 DEF TransferInv, TypeOK, IdsAreIssued, MessagesAreTruthful,
         Vouched, ReceiverStores, custodian
<1>7. ASSUME NEW m \in net, process_acs(m)
      PROVE  TransferInv'
      BY <1>7, ReleaseKeepsInv DEF process_acs
<1>8. ASSUME NEW m \in net, handle_bundle_received(m)
      PROVE  TransferInv'
  <2>1. m.bundle \in Bundles /\ m.id \in Ids
        BY <1>8 DEF TransferInv, TypeOK, handle_bundle_received, BundleMsg,
           SignalMsg
  <2>2. TypeOK'
        BY <1>8, <2>1 DEF TransferInv, TypeOK, handle_bundle_received, custodian
  <2>3. /\ UNCHANGED custodian
        /\ accepted' = accepted \cup {m.bundle}
        /\ pending' = pending \cup {m.id}
        /\ net' \subseteq net
        BY <1>8 DEF handle_bundle_received
  <2>4. \A id : Vouched(id) => Vouched(id)'
        BY <2>3, VouchedStays DEF custodian
  <2>5. Vouched(m.id)'
        BY Zenon, <1>8, <2>3 DEF TransferInv, MessagesAreTruthful, Vouched, custodian,
           handle_bundle_received
  <2> QED
      BY <2>2, <2>3, <2>4, <2>5 DEF TransferInv, IdsAreIssued,
         MessagesAreTruthful, custodian
<1>9. ASSUME NEW m \in net, Lose(m)
      PROVE  TransferInv'
      BY <1>9 DEF TransferInv, TypeOK, IdsAreIssued, MessagesAreTruthful,
         Vouched, Lose, custodian, receiver
<1>10. ASSUME NEW ids \in SUBSET pending,
              generate_acs(ids) \/ ReceiverRestarts(ids)
       PROVE  TransferInv'
  <2>1. /\ pending' \subseteq pending
        /\ net' \subseteq net \cup Signals({ids})
        /\ UNCHANGED <<custodian, accepted, receiverDisk>>
        /\ holds' \subseteq Bundles
        /\ restarts' \in 0..MaxRestarts
        BY <1>10, TransmitAdds DEF TransferInv, TypeOK, generate_acs,
           ReceiverRestarts
  <2>2. \A m \in Signals({ids}) :
           m \in SignalMsg /\ m.type = "signal" /\ m.ids = ids
        BY DEF TransferInv, TypeOK, Signals, SignalMsg
  <2>3. TypeOK'
        BY Zenon, <2>1, <2>2 DEF TransferInv, TypeOK, custodian
  <2>4. MessagesAreTruthful'
        BY Zenon, <2>1, <2>2 DEF TransferInv, MessagesAreTruthful, Vouched, custodian
  <2> QED
      BY <2>1, <2>3, <2>4 DEF TransferInv, IdsAreIssued, Vouched, custodian
<1>11. CASE CustodianRestarts
  <2>1. TypeOK'
        BY <1>11 DEF TransferInv, TypeOK, CustodianRestarts, receiver
  <2>2. IdsAreIssued'
        BY Zenon, <1>11 DEF TransferInv, IdsAreIssued, CustodianRestarts
  <2>3. MessagesAreTruthful' /\ \A id \in pending' : Vouched(id)'
        BY <1>11 DEF TransferInv, MessagesAreTruthful, Vouched,
           CustodianRestarts, receiver
  <2> QED
      BY <2>1, <2>2, <2>3 DEF TransferInv
<1>12. CASE UNCHANGED vars
       BY Zenon, <1>12 DEF TransferInv, TypeOK, IdsAreIssued, MessagesAreTruthful,
          Vouched, vars, custodian, receiver
<1> QED
    BY <1>1, <1>2, <1>3, <1>4, <1>5, <1>6, <1>7, <1>8, <1>9, <1>10, <1>11,
       <1>12 DEF Next

(***************************************************************************)
(* Only accept_custody issues an id, and before the first restart its id is *)
(* larger than all the others.                                              *)
(***************************************************************************)
LEMMA FirstRunStep ==
    TransferInv /\ FirstRunInv /\ [Next]_vars => FirstRunInv'
<1> SUFFICES ASSUME TransferInv, FirstRunInv, [Next]_vars, restarts' = 0
             PROVE  /\ \A p \in issued' : p[1] <= last_custody_id'
                    /\ IdsUnique'
    BY DEF FirstRunInv
<1>1. ASSUME NEW b \in Bundles, accept_custody(b)
      PROVE  /\ \A p \in issued' : p[1] <= last_custody_id'
             /\ IdsUnique'
  <2>1. restarts = 0 /\ last_custody_id \in Nat /\ issued \subseteq Ids \X Bundles
        BY <1>1, BoundsAssumption DEF accept_custody, TransferInv, TypeOK
  <2>2. \A p \in issued : p[1] <= last_custody_id /\ p[1] \in Nat
        BY <2>1, BoundsAssumption DEF FirstRunInv, Ids
  <2>3. /\ issued' = issued \cup {<<last_custody_id + 1, b>>}
        /\ last_custody_id' = last_custody_id + 1
        BY <1>1 DEF accept_custody
  <2>4. \A p \in issued : p[1] # last_custody_id + 1
        BY <2>1, <2>2
  <2> QED
      BY <2>1, <2>2, <2>3, <2>4 DEF FirstRunInv, IdsUnique
<1>2. CASE UNCHANGED <<issued, last_custody_id, restarts>>
      BY <1>2 DEF FirstRunInv, IdsUnique
<1>3. ASSUME NEW ids \in SUBSET pending, ReceiverRestarts(ids)
      PROVE  FALSE
      BY <1>3 DEF ReceiverRestarts, TransferInv, TypeOK
<1>4. CASE CustodianRestarts
      BY <1>4 DEF CustodianRestarts, TransferInv, TypeOK
<1> QED
    BY Zenon, <1>1, <1>2, <1>3, <1>4 DEF Next, vars, Send, handle_bundle_expired,
       CustodianStores, handle_bundle_delivered, ReceiverStores, process_acs,
       handle_bundle_received, Lose, generate_acs, custodian

(***************************************************************************)
(* Together the two invariants hold in every reachable state.               *)
(***************************************************************************)
LEMMA TransferInvariants == Spec => [](TransferInv /\ FirstRunInv)
BY TransferInit, TransferStep, FirstRunStep, PTL DEF Spec

-----------------------------------------------------------------------------
(***************************************************************************)
(* No combination of losses, retransmissions, redundant receptions and      *)
(* restarts of either daemon puts an id into the receiver's ACS thread or   *)
(* into a signal without a bundle it was issued for that the receiver       *)
(* accepted.                                                                *)
(***************************************************************************)
THEOREM SignalsStayTruthful == Spec => []SignalsAreTruthful
<1>1. TransferInv => SignalsAreTruthful
      BY Zenon DEF TransferInv, MessagesAreTruthful, Vouched, SignalsAreTruthful,
         UnderWay
<1> QED
    BY <1>1, TransferInvariants, PTL

(***************************************************************************)
(* If a signal releases a bundle, the id the list has for it is vouched     *)
(* for by an accepted bundle; ids being unique, it is the same bundle.      *)
(***************************************************************************)
LEMMA UniqueIdsRelease == TransferInv => LostOnlyByReuse
<1> SUFFICES ASSUME TransferInv, IdsUnique,
                    NEW m \in UnderWay, NEW b \in Releases(m)
             PROVE  b \in accepted
    BY DEF LostOnlyByReuse, ReleasesOnlyAccepted
<1>1. m \in net /\ m.type = "signal" /\ m.ids \subseteq Ids
      BY DEF UnderWay, TransferInv, TypeOK, BundleMsg, SignalMsg
<1>2. b \in Bundles /\ custodyid[b] \in m.ids
      BY DEF Releases
<1>3. <<custodyid[b], b>> \in issued
  <2>1. custodyid[b] \in Ids /\ 0 \notin Ids
        BY <1>1, <1>2, BoundsAssumption DEF Ids
  <2>2. custodyid[b] # 0
        BY <2>1, Zenon
  <2> QED
      BY Zenon, <1>2, <2>2 DEF TransferInv, IdsAreIssued
<1>4. PICK c \in accepted : <<custodyid[b], c>> \in issued
      BY Zenon, <1>1, <1>2 DEF TransferInv, MessagesAreTruthful, Vouched
<1> QED
    BY <1>3, <1>4 DEF IdsUnique

(***************************************************************************)
(* process_acs never releases a bundle that the receiver did not accept,    *)
(* unless CustodyList has issued one id for two bundles.                    *)
(***************************************************************************)
THEOREM ReuseIsTheOnlyLoss == Spec => []LostOnlyByReuse
BY TransferInvariants, UniqueIdsRelease, PTL

(***************************************************************************)
(* CustodyList::insert issues an id twice only across a restart: until one  *)
(* of the daemons has restarted, process_acs releases accepted bundles only.*)
(***************************************************************************)
THEOREM NoLossBeforeARestart == Spec => [](restarts = 0 => ReleasesOnlyAccepted)
<1>1. TransferInv /\ FirstRunInv => (restarts = 0 => ReleasesOnlyAccepted)
      BY UniqueIdsRelease DEF FirstRunInv, LostOnlyByReuse
<1> QED
    BY <1>1, TransferInvariants, PTL
=============================================================================
