------------------------ MODULE CustodySignalsProofs ------------------------
(***************************************************************************)
(* What the ACS thread saves is never lost: proved of the abstract          *)
(* specification for any set of ids.  TLC shows that AggregateCustody       *)
(* implements that specification.                                           *)
(***************************************************************************)
EXTENDS CustodySignals, TLAPS

(***************************************************************************)
(* SavedIsKnown is inductive as it stands: an id that leaves the collection *)
(* is acknowledged in the same step, and only a save or a restart changes   *)
(* the datastore.                                                           *)
(***************************************************************************)
LEMMA SavedIsKnownStep == SavedIsKnown /\ [Next]_vars => SavedIsKnown'
<1> SUFFICES ASSUME SavedIsKnown, [Next]_vars
             PROVE  SavedIsKnown'
    OBVIOUS
<1> USE DEF SavedIsKnown
<1>1. ASSUME NEW id \in Ids, Add(id)
      PROVE  SavedIsKnown'
      BY <1>1 DEF Add
<1>2. CASE Flush
      BY <1>2 DEF Flush
<1>3. CASE Save
      BY <1>3 DEF Save
<1>4. CASE Restart
      BY <1>4 DEF Restart
<1>5. CASE UNCHANGED vars
      BY <1>5 DEF vars
<1> QED
    BY <1>1, <1>2, <1>3, <1>4, <1>5 DEF Next

(***************************************************************************)
(* What the PendingAcsStore holds is being collected or has been            *)
(* acknowledged: handle_acs_expired and generate_acs leave no stale record  *)
(* that a reload would turn into a false acknowledgement.                   *)
(***************************************************************************)
THEOREM SavedIsAlwaysKnown == Spec => []SavedIsKnown
<1>1. Init => SavedIsKnown
      BY DEF Init, SavedIsKnown
<1> QED
    BY <1>1, SavedIsKnownStep, PTL DEF Spec

(***************************************************************************)
(* An id in the PendingAcsStore stays there until a signal acknowledges it. *)
(* A save that replaces the record after a flush is the step that needs     *)
(* SavedIsKnown.                                                            *)
(***************************************************************************)
THEOREM SavedIdsReachASignal == Spec => SavedUntilAcked
<1>1. SavedIsKnown /\ [Next]_vars
         => [\A id \in saved : id \in saved' \cup acked']_vars
  <2> SUFFICES ASSUME SavedIsKnown, Next
               PROVE  \/ \A id \in saved : id \in saved' \cup acked'
                      \/ UNCHANGED vars
      OBVIOUS
  <2>1. ASSUME NEW id \in Ids, Add(id)
        PROVE  \A i \in saved : i \in saved' \cup acked'
        BY <2>1 DEF Add
  <2>2. CASE Flush
        BY <2>2 DEF Flush
  <2>3. CASE Save
        BY <2>3 DEF Save, SavedIsKnown
  <2>4. CASE Restart
        BY <2>4 DEF Restart
  <2> QED
      BY <2>1, <2>2, <2>3, <2>4 DEF Next
<1> QED
    BY <1>1, SavedIsAlwaysKnown, PTL DEF Spec, SavedUntilAcked
=============================================================================
