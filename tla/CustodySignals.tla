--------------------------- MODULE CustodySignals ---------------------------
(***************************************************************************)
(* What the aggregation of custody signals (ACS) promises for one key, that *)
(* is for one custodian, disposition and reason code:                       *)
(* BundleDaemonACS collects custody ids, saves what it has collected in the *)
(* datastore and, when a timer or the size limit says so, posts one signal  *)
(* that acknowledges all of them.  Here the collection is simply a set; the *)
(* run-length coding is in AggregateCustody, which implements this module.  *)
(***************************************************************************)
CONSTANT Ids             \* the custody ids the custodian may have issued

VARIABLES
    pending,             \* ids collected in memory, not yet in a signal
    saved,               \* ids the PendingAcsStore holds
    acked                \* ids some posted signal has acknowledged

vars == <<pending, saved, acked>>

(***************************************************************************)
(* The type of the three sets.                                              *)
(***************************************************************************)
TypeOK ==
    /\ pending \subseteq Ids
    /\ saved \subseteq Ids
    /\ acked \subseteq Ids

Init == pending = {} /\ saved = {} /\ acked = {}

(***************************************************************************)
(* One id arrives.  It joins the collection, or the collection is sent      *)
(* first and the id starts the next one, or the id is sent with it.         *)
(***************************************************************************)
Add(id) ==
    /\ \/ /\ pending' = pending \cup {id}
          /\ acked' = acked
       \/ /\ pending' = {id}
          /\ acked' = acked \cup pending
       \/ /\ pending' = {}
          /\ acked' = acked \cup pending \cup {id}
    /\ saved' = saved

Flush ==
    /\ pending' = {}
    /\ acked' = acked \cup pending
    /\ saved' = saved

Save == saved' = pending /\ UNCHANGED <<pending, acked>>

(***************************************************************************)
(* The daemon stops and starts again: what was saved is acknowledged.       *)
(***************************************************************************)
Restart ==
    /\ acked' = acked \cup saved
    /\ pending' = {}
    /\ saved' = {}

Next == (\E id \in Ids : Add(id)) \/ Flush \/ Save \/ Restart

Spec == Init /\ [][Next]_vars

-----------------------------------------------------------------------------
(***************************************************************************)
(* What the datastore holds is still being collected or has been           *)
(* acknowledged, so that a late save cannot bring a lost id to light.       *)
(***************************************************************************)
SavedIsKnown == saved \subseteq pending \cup acked

(***************************************************************************)
(* An id that has been saved leaves the datastore only once a signal has    *)
(* acknowledged it: neither a flush, a save nor a restart drops it.         *)
(***************************************************************************)
SavedUntilAcked == [][\A id \in saved : id \in saved' \cup acked']_vars
=============================================================================
