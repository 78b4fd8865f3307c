------------------------ MODULE BundleLifecycleProofs ------------------------
(***************************************************************************)
(* Proofs about BundleLifecycle, for every set of bundles, payload sizes,  *)
(* quotas and bounds: no object in use is destroyed, no row outlives its   *)
(* bundle, and the datastore is current or about to be.                    *)
(*                                                                         *)
(* The argument is in three layers.  Types says what each variable holds;  *)
(* the space account, a sum over a set of bundles, is left out, and no     *)
(* step of the rest looks at its value except to refuse.  RefInv is about  *)
(* references: who runs holds one, and nobody gives up the last list.      *)
(* StoreInv is about the storage thread: its queues, flags and rows.       *)
(***************************************************************************)
EXTENDS BundleLifecycle, TLAPS

\* The flags of the bundles and the events other threads post to storage.
BundleTypes ==
    /\ refs \in [Bundles -> SUBSET Holders]
    /\ freed \subseteq Bundles
    /\ in_storage_queue \subseteq Bundles
    /\ in_datastore \subseteq Bundles
    /\ queued_for_datastore \subseteq Bundles
    /\ eventq \in Seq(StorageEvents)

RunTypes ==
    run \in [Threads -> {Idle} \union
                [at : InputSteps \union DeleteSteps, b : Bundles, ref : Events]]

StoreTypes ==
    /\ add_update \subseteq Bundles
    /\ to_delete \subseteq [id : Bundles, size_and_flag : Int]
    /\ writing \in [at : {"idle", "deletes", "adds"}] \union
                   [at : {"found", "written"}, b : Bundles]
    /\ DOMAIN db \subseteq Bundles
    /\ \A b \in DOMAIN db : db[b] \in Row

NodeTypes ==
    /\ reloaded \subseteq Bundles
    /\ down \in {"up", "draining", "stopped"}

Types == arrived \subseteq Bundles /\ BundleTypes /\ RunTypes /\ StoreTypes /\ NodeTypes

-----------------------------------------------------------------------------
(***************************************************************************)
(* What the shared pieces of the handlers do.                              *)
(***************************************************************************)

\* The leaves are first-order; the ones with arithmetic or records cite SMT.
USE Zenon

(* An idle thread stands at no step of a handler.                          *)
LEMMA IdleIsNoStep == Idle.at \notin InputSteps \union DeleteSteps
<1>1. Idle.at = "idle"
  BY DEF Idle
<1> QED
  BY <1>1 DEF InputSteps, DeleteSteps

(* A thread that moves from one step of a handler to the next stays with    *)
(* its bundle and its event, and the other thread does not move.            *)
LEMMA GotoStep ==
    ASSUME Types, NEW t \in Threads, NEW s \in InputSteps \union DeleteSteps,
           At(t, s), NEW s2 \in InputSteps \union DeleteSteps, Goto(t, s2)
    PROVE  /\ run[t].b \in Bundles /\ run[t].ref \in Events /\ run[t] # Idle
           /\ RunTypes'
           /\ run'[t].at = s2 /\ run'[t].b = run[t].b /\ run'[t].ref = run[t].ref
           /\ \A u \in Threads : u # t => run'[u] = run[u]
<1>1. run[t] # Idle
  BY IdleIsNoStep DEF At
<1>2. run[t] \in [at : InputSteps \union DeleteSteps, b : Bundles, ref : Events]
  BY <1>1 DEF Types, RunTypes
<1>3. run'[t].at = s2 /\ run'[t].b = run[t].b /\ run'[t].ref = run[t].ref
  BY <1>2 DEF Goto, Types, RunTypes
<1> QED
  BY <1>1, <1>2, <1>3 DEF Goto, Types, RunTypes

(* A thread at a step of a handler has a bundle and an event.              *)
LEMMA AtStep ==
    ASSUME Types, NEW t \in Threads, NEW s \in InputSteps \union DeleteSteps, At(t, s)
    PROVE  run[t].b \in Bundles /\ run[t].ref \in Events /\ run[t] # Idle
<1>1. run[t] # Idle
  BY IdleIsNoStep DEF At
<1> QED
  BY <1>1 DEF Types, RunTypes

(* The storage queue after an append: the old events, and the new one at   *)
(* the end.                                                                *)
LEMMA Appended ==
    ASSUME NEW q \in Seq(StorageEvents), NEW e \in StorageEvents, NEW r, r = Append(q, e)
    PROVE  /\ r \in Seq(StorageEvents)
           /\ DOMAIN q \subseteq DOMAIN r
           /\ \A i \in DOMAIN q : r[i] = q[i]
           /\ Len(q) + 1 \in DOMAIN r /\ r[Len(q) + 1] = e
           /\ \A i \in DOMAIN r : i \in DOMAIN q \/ i = Len(q) + 1
           /\ Len(q) + 1 \notin DOMAIN q
BY SMT

(* The storage queue without its first event.                              *)
LEMMA Popped ==
    ASSUME NEW q \in Seq(StorageEvents), q # <<>>, NEW r, r = Tail(q)
    PROVE  /\ r \in Seq(StorageEvents)
           /\ Head(q) = q[1] /\ 1 \in DOMAIN q /\ q[1] \in StorageEvents
           /\ \A i \in DOMAIN r : i + 1 \in DOMAIN q /\ r[i] = q[i + 1] /\ i # 0 /\ i \in Int
           /\ \A i \in DOMAIN q : i = 1 \/ (i - 1 \in DOMAIN r /\ r[i - 1] = q[i])
BY SMT

(* Sizes are naturals. *)
LEMMA DurableSizeType == \A b \in Bundles : durable_size(b) \in Nat
BY LifecycleAssumption DEF durable_size

(* The delete event of a bundle is an event of the storage queue.          *)
LEMMA DeleteEventsType ==
    ASSUME Types, NEW b \in Bundles
    PROVE  /\ \/ DeleteEvents(b) = <<>>
              \/ \E e \in StorageEvents :
                    /\ DeleteEvents(b) = <<e>> /\ e.type = "delete" /\ e.id = b
                    /\ b \in in_datastore => e.size_and_flag >= 0
           /\ DeleteEvents(b) = <<>> => b \notin in_datastore \union in_storage_queue
<1>1. durable_size(b) \in Nat
  BY DurableSizeType
<1> DEFINE n == IF b \in in_datastore THEN durable_size(b) ELSE -durable_size(b)
           e == [type |-> "delete", id |-> b, size_and_flag |-> n]
<1>2. n \in Int /\ (b \in in_datastore => n >= 0)
  BY <1>1, SMT
<1> HIDE DEF n
<1>3. e \in StorageEvents /\ e.type = "delete" /\ e.id = b /\ e.size_and_flag = n
  BY <1>2 DEF StorageEvents
<1>4. DeleteEvents(b) = IF b \in in_storage_queue \union in_datastore THEN <<e>> ELSE <<>>
  BY DEF DeleteEvents, n
<1>5. <<e>> # <<>>
  OBVIOUS
<1> HIDE DEF e
<1> QED
  BY <1>2, <1>3, <1>4, <1>5

(* What dropping references does: only the bundle's own holders change,    *)
(* and when one is left the bundle is freed and, if it is queued for the   *)
(* datastore of a running daemon, its delete event is posted.              *)
LEMMA DelRefStep ==
    ASSUME Types, NEW b \in Bundles, NEW hs, del_ref(b, hs)
    PROVE  /\ BundleTypes'
           /\ refs' = [refs EXCEPT ![b] = @ \ hs]
           /\ in_storage_queue' = in_storage_queue /\ in_datastore' = in_datastore
           /\ \/ /\ freed' = freed /\ eventq' = eventq
                 /\ queued_for_datastore' = queued_for_datastore
                 /\ ~\E h \in Holders : refs'[b] = {h}
              \/ /\ freed' = freed \union {b}
                 /\ queued_for_datastore' = queued_for_datastore \ {b}
                 /\ \E h \in Holders : refs'[b] = {h}
                 /\ IF b \in queued_for_datastore /\ down = "up"
                    THEN eventq' = eventq \o DeleteEvents(b) ELSE eventq' = eventq
<1>1. refs' = [refs EXCEPT ![b] = @ \ hs] /\ refs' \in [Bundles -> SUBSET Holders]
  BY DEF del_ref, Types, BundleTypes
<1>2. refs'[b] = refs[b] \ hs
  BY <1>1 DEF Types, BundleTypes
<1>3. eventq \o DeleteEvents(b) \in Seq(StorageEvents)
  <2>1. DeleteEvents(b) \in Seq(StorageEvents)
    <3>1. \A e \in StorageEvents : <<e>> \in Seq(StorageEvents)
      BY SMT
    <3>2. <<>> \in Seq(StorageEvents)
      BY SMT
    <3> QED
      BY <3>1, <3>2, DeleteEventsType, Zenon
  <2> QED
    BY <2>1, SMT DEF Types, BundleTypes
<1>4. CASE ~\E h \in Holders : refs[b] \ hs = {h}
  BY <1>1, <1>2, <1>4 DEF del_ref, Types, BundleTypes, flags
<1>5. CASE \E h \in Holders : refs[b] \ hs = {h}
  <2>1. Free(b)
    BY <1>5 DEF del_ref
  <2>2. /\ freed' = freed \union {b}
        /\ queued_for_datastore' = queued_for_datastore \ {b}
        /\ in_storage_queue' = in_storage_queue /\ in_datastore' = in_datastore
    BY <2>1 DEF Free
  <2>3. IF b \in queued_for_datastore /\ down = "up"
        THEN eventq' = eventq \o DeleteEvents(b) ELSE eventq' = eventq
    BY <2>1 DEF Free, bundle_delete
  <2>4. eventq' \in Seq(StorageEvents)
    BY <2>3, <1>3 DEF Types, BundleTypes
  <2> QED
    BY <1>1, <1>2, <1>5, <2>2, <2>3, <2>4 DEF Types, BundleTypes
<1> QED
  BY <1>4, <1>5

(* What asking for a write does: on a running daemon the bundle is queued  *)
(* for the datastore, with an event unless one is on its way.              *)
LEMMA AddUpdateStep ==
    ASSUME Types, NEW b \in Bundles, bundle_add_update(b),
           refs' \in [Bundles -> SUBSET Holders], freed' = freed
    PROVE  /\ BundleTypes'
           /\ in_datastore' = in_datastore
           /\ \/ /\ down # "up" /\ eventq' = eventq
                 /\ in_storage_queue' = in_storage_queue
                 /\ queued_for_datastore' = queued_for_datastore
              \/ /\ down = "up" /\ b \in in_storage_queue /\ eventq' = eventq
                 /\ in_storage_queue' = in_storage_queue
                 /\ queued_for_datastore' = queued_for_datastore \union {b}
              \/ /\ down = "up" /\ b \notin in_storage_queue
                 /\ eventq' = Append(eventq, [type |-> "update", id |-> b])
                 /\ in_storage_queue' = in_storage_queue \union {b}
                 /\ queued_for_datastore' = queued_for_datastore \union {b}
<1>1. [type |-> "update", id |-> b] \in StorageEvents
  BY DEF StorageEvents
<1>2. Append(eventq, [type |-> "update", id |-> b]) \in Seq(StorageEvents)
  BY <1>1, SMT DEF Types, BundleTypes
<1> QED
  BY <1>2 DEF bundle_add_update, Types, BundleTypes, flags

-----------------------------------------------------------------------------
(***************************************************************************)
(* The type invariant.                                                     *)
(***************************************************************************)

(* The names the handlers use are holders, events, steps and threads.      *)
LEMMA Names ==
    /\ "all" \in Holders /\ "deleting" \in Holders /\ "pending" \in Holders
    /\ "custody" \in Holders /\ "incoming" \in Holders /\ "timer" \in Holders
    /\ "link" \in Holders /\ "storage" \in Holders /\ Events \subseteq Holders
    /\ "arriving" \in Events /\ "received" \in Events /\ "expired" \in Events
    /\ "transmitted" \in Events /\ "request" \in Events /\ "signal" \in Events
    /\ "quota" \in InputSteps /\ "accept" \in InputSteps /\ "add" \in InputSteps
    /\ "timer" \in InputSteps /\ "custody" \in InputSteps /\ "listed" \in InputSteps
    /\ "post" \in InputSteps
    /\ "release" \in DeleteSteps /\ "erase custody" \in DeleteSteps
    /\ "push deleting" \in DeleteSteps /\ "erase pending" \in DeleteSteps
    /\ "erase all" \in DeleteSteps /\ "drop event" \in DeleteSteps
    /\ "input" \in Threads /\ "main" \in Threads
BY DEF Holders, Lists, Events, InputSteps, DeleteSteps, Threads

(* No event has the name of another holder. *)
LEMMA EventNames ==
    /\ "all" \notin Events /\ "deleting" \notin Events /\ "pending" \notin Events
    /\ "custody" \notin Events /\ "incoming" \notin Events /\ "timer" \notin Events
    /\ "link" \notin Events /\ "storage" \notin Events
BY DEF Events

(* Initially every variable has its type. *)
LEMMA TypesInit == Init => Types
BY SMT DEF Init, Types, BundleTypes, RunTypes, StoreTypes, NodeTypes, Threads, Idle

(* Steps that leave the variables of a part alone keep its types.          *)
LEMMA TypesKept ==
    ASSUME Types
    PROVE  /\ (UNCHANGED <<refs, freed, flags, eventq>>) => BundleTypes'
           /\ (UNCHANGED run) => RunTypes'
           /\ (UNCHANGED store) => StoreTypes'
           /\ (UNCHANGED node) => NodeTypes'
           /\ (UNCHANGED arrived) => arrived' \subseteq Bundles
BY DEF Types, BundleTypes, RunTypes, StoreTypes, NodeTypes, flags, store, node

(* A step that only changes who holds the bundles. *)
LEMMA HoldersChange ==
    ASSUME Types, refs' \in [Bundles -> SUBSET Holders], UNCHANGED <<freed, flags, eventq>>
    PROVE  BundleTypes'
BY DEF Types, BundleTypes, flags

(* The main thread takes an event other than a reception on the input      *)
(* thread, whose bundle somebody holds and is not freed; it may hand the   *)
(* bundle to a link, and a custody signal takes a reference of its own.    *)
LEMMA MainEventStep ==
    ASSUME Types, NEW b \in Bundles, MainEvent(b) \/ handle_custody_signal(b)
    PROVE  /\ run["main"] = Idle
           /\ UNCHANGED <<arrived, freed, flags, local_custody, eventq, store, files, total, node>>
           /\ \E e \in Events \ {"arriving"}, step \in {"drop event", "release"} :
                 /\ run' = [run EXCEPT !["main"] = [at |-> step, b |-> b, ref |-> e]]
                 /\ \/ e \in refs[b] /\ refs' = refs
                    \/ e \in refs[b] /\ refs' = [refs EXCEPT ![b] = @ \union {"link"}]
                    \/ /\ "custody" \in refs[b] /\ b \notin freed
                       /\ refs' = [refs EXCEPT ![b] = @ \union {e}]
<1>1. ASSUME NEW e \in Events \ {"arriving"}, NEW step \in {"drop event", "release"},
             MainTakes(b, e, step)
      PROVE  /\ run["main"] = Idle /\ e \in refs[b]
             /\ run' = [run EXCEPT !["main"] = [at |-> step, b |-> b, ref |-> e]]
             /\ UNCHANGED <<arrived, freed, flags, local_custody, eventq, store, files,
                            total, node>>
  BY <1>1 DEF MainTakes
<1>2. /\ "received" \in Events \ {"arriving"} /\ "expired" \in Events \ {"arriving"}
      /\ "transmitted" \in Events \ {"arriving"} /\ "request" \in Events \ {"arriving"}
      /\ "signal" \in Events \ {"arriving"}
  BY Names
<1>3. CASE handle_bundle_received(b)
  <2>1. PICK step \in {"drop event", "release"} :
            /\ MainTakes(b, "received", step)
            /\ refs' = refs \/ refs' = [refs EXCEPT ![b] = @ \union {"link"}]
    BY <1>3 DEF handle_bundle_received
  <2> QED
    BY <2>1, <1>1, <1>2
<1>4. CASE handle_bundle_transmitted(b)
  <2>1. PICK step \in {"drop event", "release"} :
            MainTakes(b, "transmitted", step) /\ refs' = refs
    BY <1>4 DEF handle_bundle_transmitted
  <2> QED
    BY <2>1, <1>1, <1>2
<1>5. CASE handle_bundle_expired(b)
  BY <1>5, <1>1, <1>2 DEF handle_bundle_expired
<1>6. CASE handle_bundle_delete(b)
  BY <1>6, <1>1, <1>2 DEF handle_bundle_delete
<1>7. CASE handle_custody_signal(b)
  BY <1>7, <1>2 DEF handle_custody_signal
<1> QED
  BY <1>3, <1>4, <1>5, <1>6, <1>7 DEF MainEvent

(* Every step keeps the types. *)
LEMMA TypesStep == Types /\ [Next]_vars => Types'
<1> SUFFICES ASSUME Types, [Next]_vars PROVE Types'
  OBVIOUS
<1> DEFINE RefsOK == refs' \in [Bundles -> SUBSET Holders]
<1>1. ASSUME NEW b \in Bundles, StartIncoming(b) PROVE Types'
  <2>1. BundleTypes'
    BY <1>1, Names DEF StartIncoming, Types, BundleTypes
  <2> QED
    BY <1>1, <2>1, TypesKept DEF StartIncoming, Types
<1>2. ASSUME NEW b \in Bundles,
             PostReceived(b) \/ LinkDone(b) \/ Timeout(b) \/ RequestDelete(b)
      PROVE  Types'
  <2>1. RefsOK
    BY <1>2, Names DEF PostReceived, LinkDone, Timeout, RequestDelete, Types, BundleTypes
  <2>2. UNCHANGED <<arrived, freed, flags, run, eventq, store, node>>
    BY <1>2 DEF PostReceived, LinkDone, Timeout, RequestDelete
  <2> QED
    BY <2>1, <2>2, HoldersChange, TypesKept DEF Types
<1>3. ASSUME NEW b \in Bundles, AbandonIncoming(b) PROVE Types'
  BY <1>3, DelRefStep, TypesKept DEF AbandonIncoming, Types
<1>4. ASSUME NEW b \in Bundles, QueryQuota(b) PROVE Types'
  <2>1. RunTypes'
    BY <1>4, Names DEF QueryQuota, Types, RunTypes
  <2>2. BundleTypes'
    BY <1>4 DEF QueryQuota, Types, BundleTypes
  <2> QED
    BY <1>4, <2>1, <2>2, TypesKept DEF QueryQuota, Types
<1>5. CASE AcceptOrReject
  <2>1. RunTypes'
    BY <1>5, GotoStep, Names DEF AcceptOrReject
  <2> QED
    BY <1>5, <2>1, TypesKept DEF AcceptOrReject, Types
<1>6. CASE add_to_pending
  <2> DEFINE b == run["input"].b
  <2>1. b \in Bundles /\ RunTypes'
    BY <1>6, GotoStep, Names DEF add_to_pending
  <2>2. RefsOK
    BY <1>6, <2>1, Names DEF add_to_pending, Types, BundleTypes
  <2>3. CASE UNCHANGED <<flags, total, eventq>>
    BY <1>6, <2>1, <2>2, <2>3, HoldersChange, TypesKept DEF add_to_pending, Types, NodeTypes
  <2>4. CASE bundle_add_update(b)
    BY <1>6, <2>1, <2>2, <2>4, AddUpdateStep, TypesKept DEF add_to_pending, Types, NodeTypes
  <2> QED
    BY <1>6, <2>3, <2>4 DEF add_to_pending
<1>7. CASE StartExpirationTimer
  <2>1. run["input"].b \in Bundles /\ RunTypes'
    BY <1>7, GotoStep, Names DEF StartExpirationTimer
  <2>2. RefsOK
    BY <1>7, <2>1, Names DEF StartExpirationTimer, Types, BundleTypes
  <2> QED
    BY <1>7, <2>1, <2>2, HoldersChange, TypesKept DEF StartExpirationTimer, Types
<1>8. CASE accept_custody
  <2> DEFINE b == run["input"].b
  <2>1. b \in Bundles /\ RunTypes'
    BY <1>8, GotoStep, Names DEF accept_custody
  <2>2. RefsOK
    BY <1>8 DEF accept_custody, Types, BundleTypes
  <2>3. CASE UNCHANGED <<flags, total, eventq>>
    BY <1>8, <2>1, <2>2, <2>3, HoldersChange, TypesKept DEF accept_custody, Types
  <2>4. CASE bundle_add_update(b)
    BY <1>8, <2>1, <2>2, <2>4, AddUpdateStep, TypesKept DEF accept_custody, Types
  <2> QED
    BY <1>8, <2>3, <2>4 DEF accept_custody
<1>9. CASE PushCustody
  <2>1. run["input"].b \in Bundles /\ RunTypes'
    BY <1>9, GotoStep, Names DEF PushCustody
  <2>2. RefsOK
    BY <1>9, <2>1, Names DEF PushCustody, Types, BundleTypes
  <2> QED
    BY <1>9, <2>1, <2>2, HoldersChange, TypesKept DEF PushCustody, Types
<1>10. CASE PostToMain
  <2>1. run["input"].b \in Bundles
    BY <1>10, AtStep, Names DEF PostToMain
  <2>2. RefsOK
    BY <1>10, <2>1, Names DEF PostToMain, Types, BundleTypes
  <2>3. RunTypes'
    BY <1>10 DEF PostToMain, Types, RunTypes
  <2> QED
    BY <1>10, <2>2, <2>3, HoldersChange, TypesKept DEF PostToMain, Types
<1>11. ASSUME NEW t \in Threads, release_custody(t) PROVE Types'
  <2> DEFINE b == run[t].b
  <2>1. b \in Bundles /\ RunTypes'
    BY <1>11, GotoStep, Names DEF release_custody
  <2>2. RefsOK
    BY <1>11 DEF release_custody, Types, BundleTypes
  <2>3. CASE UNCHANGED <<flags, total, eventq>>
    BY <1>11, <2>1, <2>2, <2>3, HoldersChange, TypesKept DEF release_custody, Types
  <2>4. CASE bundle_add_update(b)
    BY <1>11, <2>1, <2>2, <2>4, AddUpdateStep, TypesKept DEF release_custody, Types
  <2> QED
    BY <1>11, <2>3, <2>4 DEF release_custody
<1>12. ASSUME NEW t \in Threads, EraseCustody(t) \/ delete_from_pending(t) \/ EraseAll(t)
       PROVE  Types'
  <2>1. run[t].b \in Bundles /\ RunTypes'
    BY <1>12, GotoStep, Names DEF EraseCustody, delete_from_pending, EraseAll
  <2>2. BundleTypes'
    BY <1>12, <2>1, DelRefStep DEF EraseCustody, delete_from_pending, EraseAll
  <2> QED
    BY <1>12, <2>1, <2>2, TypesKept DEF EraseCustody, delete_from_pending, EraseAll, Types
<1>13. ASSUME NEW t \in Threads, PushDeleting(t) PROVE Types'
  <2>1. run[t].b \in Bundles /\ RunTypes'
    BY <1>13, GotoStep, Names DEF PushDeleting
  <2>2. RefsOK
    BY <1>13, <2>1, Names DEF PushDeleting, Types, BundleTypes
  <2> QED
    BY <1>13, <2>1, <2>2, HoldersChange, TypesKept DEF PushDeleting, Types
<1>14. ASSUME NEW t \in Threads, DropEvent(t) PROVE Types'
  <2>1. run[t].b \in Bundles
    BY <1>14, AtStep, Names DEF DropEvent
  <2>2. BundleTypes'
    BY <1>14, <2>1, DelRefStep DEF DropEvent
  <2>3. RunTypes'
    BY <1>14 DEF DropEvent, Types, RunTypes
  <2> QED
    BY <1>14, <2>2, <2>3, TypesKept DEF DropEvent, Types
<1>15. ASSUME NEW b \in Bundles, MainEvent(b) \/ handle_custody_signal(b) PROVE Types'
  <2>1. PICK e \in Events, step \in {"drop event", "release"} :
          /\ run' = [run EXCEPT !["main"] = [at |-> step, b |-> b, ref |-> e]]
          /\ \/ refs' = refs
             \/ refs' = [refs EXCEPT ![b] = @ \union {"link"}]
             \/ refs' = [refs EXCEPT ![b] = @ \union {e}]
    BY <1>15, MainEventStep
  <2>2. RunTypes'
    BY <2>1, Names DEF Types, RunTypes
  <2>3. RefsOK
    BY <2>1, Names DEF Types, BundleTypes
  <2>4. UNCHANGED <<arrived, freed, flags, eventq, store, node>>
    BY <1>15, MainEventStep
  <2> QED
    BY <2>2, <2>3, <2>4, HoldersChange, TypesKept DEF Types
<1>16. ASSUME NEW b \in Bundles, handle_bundle_free(b) PROVE Types'
  <2>1. BundleTypes'
    BY <1>16 DEF handle_bundle_free, Types, BundleTypes
  <2> QED
    BY <1>16, <2>1, TypesKept DEF handle_bundle_free, Types
<1>17. CASE StorageEvent
  <2>1. eventq' \in Seq(StorageEvents) /\ Head(eventq) \in StorageEvents
    BY <1>17, Popped DEF StorageEvent, Types, BundleTypes
  <2>2. add_update' \subseteq Bundles /\ to_delete' \subseteq [id : Bundles, size_and_flag : Int]
    BY <1>17, <2>1, SMT DEF StorageEvent, Types, StoreTypes, StorageEvents
  <2>3. BundleTypes' /\ StoreTypes'
    BY <1>17, <2>1, <2>2 DEF StorageEvent, Types, BundleTypes, StoreTypes, flags
  <2> QED
    BY <1>17, <2>3, TypesKept DEF StorageEvent, Types
<1>18. CASE StartPass \/ StartAdds \/ EndPass
  <2>1. StoreTypes'
    BY <1>18, SMT DEF StartPass, StartAdds, EndPass, Types, StoreTypes, Idle
  <2> QED
    BY <1>18, <2>1, TypesKept DEF StartPass, StartAdds, EndPass, Types
<1>19. ASSUME NEW d \in to_delete, StorageDelete(d) PROVE Types'
  <2>1. DOMAIN db' \subseteq DOMAIN db
    BY <1>19 DEF StorageDelete
  <2>2. \A b \in DOMAIN db' : db'[b] \in Row
    BY <1>19 DEF StorageDelete, Types, StoreTypes
  <2>3. StoreTypes'
    BY <1>19, <2>1, <2>2 DEF StorageDelete, Types, StoreTypes
  <2> QED
    BY <1>19, <2>3, TypesKept DEF StorageDelete, Types
<1>20. ASSUME NEW b \in Bundles, find_for_storage(b) PROVE Types'
  <2>1. RefsOK
    BY <1>20, Names DEF find_for_storage, Types, BundleTypes
  <2>2. StoreTypes'
    BY <1>20, SMT DEF find_for_storage, Types, StoreTypes
  <2> QED
    BY <1>20, <2>1, <2>2, HoldersChange, TypesKept DEF find_for_storage, Types
<1>21. CASE StorageWrite
  <2>1. writing.b \in Bundles /\ writing' = [at |-> "written", b |-> writing.b]
    BY <1>21 DEF StorageWrite, Types, StoreTypes
  <2>2. DOMAIN db' = DOMAIN db \union {writing.b}
    BY <1>21 DEF StorageWrite
  <2>3. \A b \in DOMAIN db' : db'[b] \in Row
    BY <1>21, SMT DEF StorageWrite, Types, StoreTypes, Row
  <2>4. StoreTypes' /\ BundleTypes'
    BY <1>21, <2>1, <2>2, <2>3 DEF StorageWrite, Types, StoreTypes, BundleTypes
  <2> QED
    BY <1>21, <2>4, TypesKept DEF StorageWrite, Types
<1>22. CASE StorageRelease
  <2>1. writing.b \in Bundles /\ StoreTypes'
    BY <1>22 DEF StorageRelease, Types, StoreTypes
  <2> QED
    BY <1>22, <2>1, DelRefStep, TypesKept DEF StorageRelease, Types
<1>23. CASE handle_shutdown_request \/ commit_all_updates
  <2>1. NodeTypes'
    BY <1>23 DEF handle_shutdown_request, commit_all_updates, Types, NodeTypes
  <2> QED
    BY <1>23, <2>1, TypesKept DEF handle_shutdown_request, commit_all_updates, Types
<1>24. CASE Restart
  <2> DEFINE doa == DOMAIN db \ files
  <2>1. PICK n \in 0..Cardinality(doa) : \E order \in Bijection(1..n, doa) :
            eventq' = [i \in 1..n |-> [type |-> "delete", id |-> order[i],
                                       size_and_flag |-> durable_size(order[i])]]
    BY <1>24 DEF Restart
  <2>2. PICK order \in Bijection(1..n, doa) :
            eventq' = [i \in 1..n |-> [type |-> "delete", id |-> order[i],
                                       size_and_flag |-> durable_size(order[i])]]
    BY <2>1
  <2>3. \A i \in 1..n : order[i] \in Bundles
    BY <2>2 DEF Bijection, Injection, Surjection, Types, StoreTypes
  <2>4. \A i \in 1..n : durable_size(order[i]) \in Int
    BY <2>3, DurableSizeType, SMT
  <2>5. \A i \in 1..n : eventq'[i] \in StorageEvents
    BY <2>2, <2>3, <2>4 DEF StorageEvents
  <2>6. eventq' \in Seq(StorageEvents)
    BY <2>1, <2>2, <2>5, SMT
  <2>7. RefsOK
    BY <1>24, Names DEF Restart
  <2>8. BundleTypes'
    BY <1>24, <2>6, <2>7 DEF Restart, Types, StoreTypes, BundleTypes
  <2>9. RunTypes' /\ StoreTypes' /\ NodeTypes'
    BY <1>24 DEF Restart, Types, StoreTypes, RunTypes, NodeTypes, Idle
  <2> QED
    BY <1>24, <2>8, <2>9 DEF Restart, Types
<1>25. CASE UNCHANGED vars
  BY <1>25, TypesKept DEF Types, vars
<1> QED
  BY <1>1, <1>2, <1>3, <1>4, <1>5, <1>6, <1>7, <1>8, <1>9, <1>10, <1>11, <1>12, <1>13,
     <1>14, <1>15, <1>16, <1>17, <1>18, <1>19, <1>20, <1>21, <1>22, <1>23, <1>24, <1>25,
     Names
  DEF Next, Input, Storage, delete_bundle

-----------------------------------------------------------------------------
(***************************************************************************)
(* References.                                                             *)
(***************************************************************************)

\* A bundle with an object is on all_bundles_, or on deleting_bundles_ after
\* delete_bundle has taken it off.
OnAList(b) == refs[b] # {} =>
    b \in arrived /\ ("all" \in refs[b] \/ "deleting" \in refs[b])

\* A thread that handles an event holds the event's reference, and the bundle
\* it takes off the other lists is on deleting_bundles_.
Runs(t) == run[t] # Idle =>
    /\ run[t].ref \in refs[run[t].b]
    /\ run[t].ref = "arriving" <=> t = "input"
    /\ run[t].at \in {"erase pending", "erase all"} => "deleting" \in refs[run[t].b]

\* The storage thread holds the bundle it writes.
StorageHolds == writing.at \in {"found", "written"} => "storage" \in refs[writing.b]

RefInv ==
    /\ \A b \in Bundles : OnAList(b)
    /\ FreedIsUnreferenced
    /\ \A t \in Threads : Runs(t)
    /\ StorageHolds
    /\ DOMAIN db \subseteq arrived

Keeps(h) == \A b \in Bundles : h \in refs[b] => h \in refs'[b]

(* A step on bundles that are not freed, which leaves them on a list and   *)
(* takes no reference of a thread that goes on, keeps RefInv.              *)
LEMMA RefStep ==
    ASSUME Types, RefInv, arrived' = arrived, Keeps("deleting"),
           \A b \in DOMAIN db' : b \in DOMAIN db \/ b \in arrived,
           \A b \in Bundles : refs'[b] # refs[b] =>
               Live(b) /\ ("all" \in refs'[b] \/ "deleting" \in refs'[b]),
           \A b \in freed' : b \in Bundles /\ (b \in freed \/ \E h : refs'[b] = {h}),
           \A t \in Threads : \/ Runs(t)'
                              \/ /\ run'[t] = run[t]
                                 /\ run[t] # Idle => Keeps(run[t].ref),
           \/ StorageHolds'
           \/ writing' = writing /\ Keeps("storage")
    PROVE  RefInv'
<1>1. \A b \in Bundles : OnAList(b)'
  BY DEF RefInv, OnAList, Live
<1>2. FreedIsUnreferenced'
  <2> SUFFICES ASSUME NEW b \in freed' PROVE refs'[b] \in {{"all"}, {"deleting"}}
    BY DEF FreedIsUnreferenced
  <2>1. b \in Bundles
    OBVIOUS
  <2>2. CASE \E h : refs'[b] = {h}
    BY <2>1, <2>2, <1>1 DEF OnAList
  <2>3. CASE b \in freed /\ refs'[b] = refs[b]
    BY <2>3 DEF RefInv, FreedIsUnreferenced
  <2> QED
    BY <2>1, <2>2, <2>3 DEF Live
<1>3. \A t \in Threads : Runs(t)'
  <2> SUFFICES ASSUME NEW t \in Threads, run'[t] = run[t], run[t] # Idle => Keeps(run[t].ref)
               PROVE  Runs(t)'
    OBVIOUS
  <2>1. run[t] # Idle => run[t].b \in Bundles
    BY DEF Types, RunTypes
  <2> QED
    BY <2>1 DEF RefInv, Runs, Keeps
<1>4. StorageHolds'
  <2>1. writing.at \in {"found", "written"} => writing.b \in Bundles
    BY DEF Types, StoreTypes
  <2> QED
    BY <2>1 DEF RefInv, StorageHolds, Keeps
<1> QED
  BY <1>1, <1>2, <1>3, <1>4 DEF RefInv

(* A reference that is not the one of the last list shows that the bundle  *)
(* is not freed.                                                           *)
LEMMA HeldIsLive ==
    ASSUME RefInv, NEW b \in Bundles, NEW h \in refs[b], h # "all", h # "deleting"
    PROVE  Live(b)
BY DEF RefInv, FreedIsUnreferenced, Live

(* The bundle of a running thread is not freed. *)
LEMMA RunningIsLive ==
    ASSUME Types, RefInv, NEW t \in Threads, run[t] # Idle
    PROVE  /\ run[t].b \in Bundles /\ Live(run[t].b) /\ run[t].ref \in Events
           /\ run[t].ref \in refs[run[t].b]
<1>1. run[t].b \in Bundles /\ run[t].ref \in Events
  BY DEF Types, RunTypes
<1>2. run[t].ref \in refs[run[t].b]
  BY DEF RefInv, Runs
<1> QED
  BY <1>1, <1>2, HeldIsLive, EventNames

(* A thread goes on with its handler while the references it needs stay.   *)
LEMMA RunMoves ==
    ASSUME Types, RefInv, NEW t \in Threads, NEW s \in InputSteps \union DeleteSteps,
           At(t, s), NEW s2 \in InputSteps \union DeleteSteps, Goto(t, s2),
           run[t].ref \in refs'[run[t].b],
           s2 \in {"erase pending", "erase all"} => "deleting" \in refs'[run[t].b]
    PROVE  Runs(t)' /\ \A u \in Threads : u # t => run'[u] = run[u]
<1>1. run[t] # Idle /\ \A u \in Threads : u # t => run'[u] = run[u]
  BY GotoStep
<1>2. run[t].ref = "arriving" <=> t = "input"
  BY <1>1 DEF RefInv, Runs
<1>3. run'[t].b = run[t].b /\ run'[t].ref = run[t].ref /\ run'[t].at = s2
  BY GotoStep
<1>4. Runs(t)'
  BY <1>2, <1>3, Zenon DEF Runs
<1> QED
  BY <1>1, <1>4

(* Nothing is referenced before the first reception. *)
LEMMA RefInvInit == Init => RefInv
<1>1. Init => writing.at = "idle"
  BY SMT DEF Init, Idle
<1> QED
  BY <1>1, SMT DEF Init, RefInv, OnAList, FreedIsUnreferenced, Runs, StorageHolds

(* Every step keeps RefInv. *)
LEMMA RefInvStep == Types /\ Types' /\ RefInv /\ [Next]_vars => RefInv'
<1> SUFFICES ASSUME Types, Types', RefInv, [Next]_vars PROVE RefInv'
  OBVIOUS
<1>0. refs \in [Bundles -> SUBSET Holders]
  BY DEF Types, BundleTypes
<1>1. ASSUME NEW b \in Bundles, StartIncoming(b) PROVE RefInv'
  <2>1. refs[b] = {} /\ b \notin freed
    BY <1>1 DEF StartIncoming, RefInv, OnAList, FreedIsUnreferenced
  <2>2. refs' = [refs EXCEPT ![b] = {"all", "incoming"}]
    BY <1>1 DEF StartIncoming
  <2>3. \A x \in Bundles : OnAList(x)'
    BY <1>0, <1>1, <2>2 DEF StartIncoming, RefInv, OnAList
  <2>4. FreedIsUnreferenced'
    BY <1>0, <1>1, <2>1, <2>2, SMT DEF StartIncoming, RefInv, FreedIsUnreferenced
  <2>5. \A t \in Threads : Runs(t)'
    <3> SUFFICES ASSUME NEW t \in Threads, run[t] # Idle PROVE Runs(t)'
      BY <1>1 DEF StartIncoming, Runs
    <3>1. run[t].b # b
      BY <2>1, RunningIsLive
    <3> QED
      BY <1>0, <1>1, <2>2, <3>1, RunningIsLive DEF StartIncoming, Runs, RefInv
  <2>6. StorageHolds'
    BY <1>0, <1>1, <2>1, <2>2 DEF StartIncoming, store, StorageHolds, RefInv, Types, StoreTypes
  <2>7. DOMAIN db' \subseteq arrived'
    BY <1>1 DEF StartIncoming, store, RefInv
  <2> QED
    BY <2>3, <2>4, <2>5, <2>6, <2>7 DEF RefInv
<1>2. ASSUME NEW b \in Bundles,
             PostReceived(b) \/ LinkDone(b) \/ Timeout(b) \/ RequestDelete(b)
      PROVE  RefInv'
  <2>1. PICK h \in {"incoming", "link", "timer"}, e \in Events :
            /\ h \in refs[b] \/ ("all" \in refs[b] /\ b \notin freed)
            /\ \/ refs' = [refs EXCEPT ![b] = (@ \ {h}) \union {e}]
               \/ refs' = [refs EXCEPT ![b] = @ \union {e}]
    BY <1>2, Names DEF PostReceived, LinkDone, Timeout, RequestDelete
  <2>2. UNCHANGED <<arrived, freed, run, store>>
    BY <1>2 DEF PostReceived, LinkDone, Timeout, RequestDelete
  <2>3. Live(b)
    BY <2>1, HeldIsLive DEF Live
  <2>4. "all" \in refs[b] \/ "deleting" \in refs[b]
    BY <2>3 DEF RefInv, OnAList, Live
  <2>5. Keeps("deleting") /\ Keeps("all") /\ Keeps("storage")
    BY <1>0, <2>1 DEF Keeps
  <2>6. \A x \in Bundles : refs'[x] # refs[x] => x = b
    BY <1>0, <2>1
  <2>7. \A t \in Threads : run[t] # Idle => Keeps(run[t].ref)
    BY <1>0, <2>1, RunningIsLive, EventNames, SMT DEF Keeps
  <2> QED
    BY <2>2, <2>3, <2>4, <2>5, <2>6, <2>7, RefStep DEF Keeps, store, Types, BundleTypes
<1>3. ASSUME NEW b \in Bundles, AbandonIncoming(b) PROVE RefInv'
  <2>1. "incoming" \in refs[b] /\ del_ref(b, {"incoming"}) /\ UNCHANGED <<arrived, run, store>>
    BY <1>3 DEF AbandonIncoming
  <2>2. Live(b)
    BY <2>1, HeldIsLive
  <2>3. /\ refs' = [refs EXCEPT ![b] = @ \ {"incoming"}]
        /\ freed' = freed \/ (freed' = freed \union {b} /\ \E h : refs'[b] = {h})
    BY <2>1, DelRefStep
  <2>4. Keeps("deleting") /\ Keeps("all") /\ Keeps("storage")
    BY <1>0, <2>3 DEF Keeps
  <2>5. \A t \in Threads : run[t] # Idle => Keeps(run[t].ref)
    BY <1>0, <2>3, RunningIsLive, EventNames DEF Keeps
  <2>6. \A x \in Bundles : refs'[x] # refs[x] => x = b
    BY <1>0, <2>3
  <2>7. "all" \in refs'[b] \/ "deleting" \in refs'[b]
    BY <2>2, <2>4 DEF RefInv, OnAList, Live, Keeps
  <2> QED
    BY <2>1, <2>2, <2>3, <2>4, <2>5, <2>6, <2>7, RefStep DEF store, Types, BundleTypes
<1>4. ASSUME NEW b \in Bundles, QueryQuota(b) PROVE RefInv'
  <2>1. PICK step \in {"release", "accept"} :
            run' = [run EXCEPT !["input"] = [at |-> step, b |-> b, ref |-> "arriving"]]
    BY <1>4 DEF QueryQuota
  <2>2. "arriving" \in refs[b] /\ UNCHANGED <<arrived, refs, freed, store>>
    BY <1>4 DEF QueryQuota
  <2>3. Runs("input")'
    BY <2>1, <2>2, Names DEF Runs, Types, RunTypes
  <2>4. \A t \in Threads : t # "input" => run'[t] = run[t]
    BY <2>1 DEF Types, RunTypes
  <2> QED
    BY <2>2, <2>3, <2>4, RefStep DEF Keeps, store, Types, BundleTypes
<1>5. CASE AcceptOrReject
  <2>1. UNCHANGED <<arrived, refs, freed, store>>
    BY <1>5 DEF AcceptOrReject
  <2>2. run["input"] # Idle
    BY <1>5, AtStep, Names DEF AcceptOrReject
  <2>3. Runs("input")' /\ \A u \in Threads : u # "input" => run'[u] = run[u]
    BY <1>5, <2>1, <2>2, RunMoves, RunningIsLive, Names DEF AcceptOrReject
  <2> QED
    BY <2>1, <2>3, RefStep DEF Keeps, store, Types, BundleTypes
<1>6. CASE add_to_pending \/ StartExpirationTimer \/ PushCustody
  <2> DEFINE b == run["input"].b
  <2>1. run["input"] # Idle
    BY <1>6, AtStep, Names DEF add_to_pending, StartExpirationTimer, PushCustody
  <2>2. b \in Bundles /\ Live(b) /\ run["input"].ref \in refs[b]
    BY <2>1, RunningIsLive, Names
  <2>3. PICK h : refs' = [refs EXCEPT ![b] = @ \union {h}]
    BY <1>6 DEF add_to_pending, StartExpirationTimer, PushCustody
  <2>4. UNCHANGED <<arrived, freed, store>>
    BY <1>6 DEF add_to_pending, StartExpirationTimer, PushCustody
  <2>5. \A x : Keeps(x)
    BY <1>0, <2>3 DEF Keeps
  <2>6. Runs("input")' /\ \A u \in Threads : u # "input" => run'[u] = run[u]
    <3>1. run["input"].ref \in refs'[b]
      BY <2>2, <2>5 DEF Keeps
    <3> QED
      BY <1>6, <3>1, RunMoves, Names DEF add_to_pending, StartExpirationTimer, PushCustody
  <2>7. \A x \in Bundles : refs'[x] # refs[x] => x = b
    BY <1>0, <2>3
  <2>8. "all" \in refs'[b] \/ "deleting" \in refs'[b]
    BY <2>2, <2>5 DEF RefInv, OnAList, Live, Keeps
  <2> QED
    BY <2>2, <2>4, <2>5, <2>6, <2>7, <2>8, RefStep DEF store, Types, BundleTypes
<1>7. CASE accept_custody
  <2>1. UNCHANGED <<arrived, refs, freed, store>>
    BY <1>7 DEF accept_custody
  <2>2. run["input"] # Idle
    BY <1>7, AtStep, Names DEF accept_custody
  <2>3. Runs("input")' /\ \A u \in Threads : u # "input" => run'[u] = run[u]
    BY <1>7, <2>1, <2>2, RunMoves, RunningIsLive, Names DEF accept_custody
  <2> QED
    BY <2>1, <2>3, RefStep DEF Keeps, store, Types, BundleTypes
<1>8. CASE PostToMain
  <2> DEFINE b == run["input"].b
  <2>1. run["input"] # Idle
    BY <1>8, AtStep, Names DEF PostToMain
  <2>2. b \in Bundles /\ Live(b)
    BY <2>1, RunningIsLive, Names
  <2>3. /\ refs' = [refs EXCEPT ![b] = (@ \ {"arriving"}) \union {"received"}]
        /\ run' = [run EXCEPT !["input"] = Idle]
        /\ UNCHANGED <<arrived, freed, store>>
    BY <1>8 DEF PostToMain
  <2>4. Keeps("deleting") /\ Keeps("all") /\ Keeps("storage")
    BY <1>0, <2>3 DEF Keeps
  <2>5. Runs("input")' /\ \A u \in Threads : u # "input" => run'[u] = run[u]
    BY <2>3, SMT DEF Types, RunTypes, Runs
  <2>6. \A u \in Threads : u # "input" /\ run[u] # Idle => Keeps(run[u].ref)
    <3> SUFFICES ASSUME NEW u \in Threads, u # "input", run[u] # Idle PROVE Keeps(run[u].ref)
      OBVIOUS
    <3>1. run[u].ref # "arriving"
      BY DEF RefInv, Runs
    <3> QED
      BY <1>0, <2>3, <3>1 DEF Keeps
  <2>7. \A x \in Bundles : refs'[x] # refs[x] => x = b
    BY <1>0, <2>3
  <2>8. "all" \in refs'[b] \/ "deleting" \in refs'[b]
    BY <2>2, <2>4 DEF RefInv, OnAList, Live, Keeps
  <2> QED
    BY <2>2, <2>3, <2>4, <2>5, <2>6, <2>7, <2>8, RefStep DEF store, Types, BundleTypes
<1>9. ASSUME NEW t \in Threads, release_custody(t) PROVE RefInv'
  <2>1. UNCHANGED <<arrived, refs, freed, store>>
    BY <1>9 DEF release_custody
  <2>2. run[t] # Idle
    BY <1>9, AtStep, Names DEF release_custody
  <2>3. Runs(t)' /\ \A u \in Threads : u # t => run'[u] = run[u]
    BY <1>9, <2>1, <2>2, RunMoves, RunningIsLive, Names DEF release_custody
  <2> QED
    BY <2>1, <2>3, RefStep DEF Keeps, store, Types, BundleTypes
<1>10. ASSUME NEW t \in Threads, EraseCustody(t) \/ delete_from_pending(t) \/ EraseAll(t)
       PROVE  RefInv'
  <2> DEFINE b == run[t].b
  <2>1. run[t] # Idle
    BY <1>10, AtStep, Names DEF EraseCustody, delete_from_pending, EraseAll
  <2>2. b \in Bundles /\ Live(b) /\ run[t].ref \in refs[b] /\ run[t].ref \in Events
    BY <2>1, RunningIsLive
  <2>3. PICK hs \in {{}, {"custody"}, {"timer", "pending"}, {"all"}} :
            del_ref(b, hs) /\ ("all" \in hs => At(t, "erase all"))
    BY <1>10 DEF EraseCustody, delete_from_pending, EraseAll
  <2>4. /\ refs' = [refs EXCEPT ![b] = @ \ hs]
        /\ freed' = freed \/ (freed' = freed \union {b} /\ \E h : refs'[b] = {h})
    BY <2>2, <2>3, DelRefStep
  <2>5. UNCHANGED <<arrived, store>>
    BY <1>10 DEF EraseCustody, delete_from_pending, EraseAll
  <2>6. Keeps("deleting") /\ Keeps("storage") /\ \A e \in Events : Keeps(e)
    BY <1>0, <2>4, EventNames DEF Keeps
  <2>7. Runs(t)' /\ \A u \in Threads : u # t => run'[u] = run[u]
    <3>1. run[t].ref \in refs'[b]
      BY <2>2, <2>6 DEF Keeps
    <3>2. At(t, "erase pending") \/ At(t, "erase all") => "deleting" \in refs'[b]
      BY <2>1, <2>2, <2>6 DEF Keeps, RefInv, Runs, At
    <3> QED
      BY <1>10, <3>1, <3>2, RunMoves, Names DEF EraseCustody, delete_from_pending, EraseAll
  <2>8. \A x \in Bundles : refs'[x] # refs[x] => x = b
    BY <1>0, <2>4
  <2>9. "all" \in refs'[b] \/ "deleting" \in refs'[b]
    <3>1. CASE "all" \in hs
      BY <2>1, <2>2, <2>3, <2>6, <3>1 DEF Keeps, RefInv, Runs, At
    <3>2. CASE "all" \notin hs
      BY <1>0, <2>2, <2>4, <2>6, <3>2 DEF RefInv, OnAList, Live, Keeps
    <3> QED
      BY <3>1, <3>2
  <2>10. \A u \in Threads : run[u] # Idle => Keeps(run[u].ref)
    BY <2>6, RunningIsLive
  <2> QED
    BY <2>2, <2>4, <2>5, <2>6, <2>7, <2>8, <2>9, <2>10, RefStep DEF store, Types, BundleTypes
<1>11. ASSUME NEW t \in Threads, PushDeleting(t) PROVE RefInv'
  <2> DEFINE b == run[t].b
  <2>1. run[t] # Idle
    BY <1>11, AtStep, Names DEF PushDeleting
  <2>2. b \in Bundles /\ Live(b) /\ run[t].ref \in refs[b]
    BY <2>1, RunningIsLive
  <2>3. /\ refs' = [refs EXCEPT ![b] = @ \union {"deleting"}]
        /\ UNCHANGED <<arrived, freed, store>>
    BY <1>11 DEF PushDeleting
  <2>4. (\A x : Keeps(x)) /\ "deleting" \in refs'[b]
    BY <1>0, <2>2, <2>3 DEF Keeps
  <2>5. Runs(t)' /\ \A u \in Threads : u # t => run'[u] = run[u]
    <3>1. run[t].ref \in refs'[b]
      BY <2>2, <2>4 DEF Keeps
    <3> QED
      BY <1>11, <2>4, <3>1, RunMoves, Names DEF PushDeleting
  <2>6. \A x \in Bundles : refs'[x] # refs[x] => x = b
    BY <1>0, <2>3
  <2> QED
    BY <2>2, <2>3, <2>4, <2>5, <2>6, RefStep DEF store, Types, BundleTypes
<1>12. ASSUME NEW t \in Threads, DropEvent(t) PROVE RefInv'
  <2> DEFINE b == run[t].b
             e == run[t].ref
  <2>1. run[t] # Idle
    BY <1>12, AtStep, Names DEF DropEvent
  <2>2. b \in Bundles /\ Live(b) /\ e \in Events
    BY <2>1, RunningIsLive
  <2>3. del_ref(b, {e}) /\ run' = [run EXCEPT ![t] = Idle] /\ UNCHANGED <<arrived, store>>
    BY <1>12 DEF DropEvent
  <2>4. /\ refs' = [refs EXCEPT ![b] = @ \ {e}]
        /\ freed' = freed \/ (freed' = freed \union {b} /\ \E h : refs'[b] = {h})
    BY <2>2, <2>3, DelRefStep
  <2>5. \A h : h # e => Keeps(h)
    BY <1>0, <2>4 DEF Keeps
  <2>6. Keeps("deleting") /\ Keeps("all") /\ Keeps("storage")
    BY <2>2, <2>5, EventNames
  <2>7. Runs(t)' /\ \A u \in Threads : u # t => run'[u] = run[u]
    BY <2>3 DEF Types, RunTypes, Runs
  <2>8. \A u \in Threads : u # t /\ run[u] # Idle => Keeps(run[u].ref)
    <3> SUFFICES ASSUME NEW u \in Threads, u # t, run[u] # Idle PROVE run[u].ref # e
      BY <2>5
    <3>1. (e = "arriving" <=> t = "input") /\ (run[u].ref = "arriving" <=> u = "input")
      BY <2>1 DEF RefInv, Runs
    <3> QED
      BY <3>1 DEF Threads
  <2>9. \A x \in Bundles : refs'[x] # refs[x] => x = b
    BY <1>0, <2>4
  <2>10. "all" \in refs'[b] \/ "deleting" \in refs'[b]
    BY <2>2, <2>6 DEF RefInv, OnAList, Live, Keeps
  <2> QED
    BY <2>2, <2>3, <2>4, <2>6, <2>7, <2>8, <2>9, <2>10, RefStep
    DEF store, Types, BundleTypes
<1>13. ASSUME NEW b \in Bundles, MainEvent(b) \/ handle_custody_signal(b) PROVE RefInv'
  <2>1. run["main"] = Idle /\ UNCHANGED <<arrived, freed, store>>
    BY <1>13, MainEventStep
  <2>2. PICK e \in Events \ {"arriving"}, step \in {"drop event", "release"} :
                 /\ run' = [run EXCEPT !["main"] = [at |-> step, b |-> b, ref |-> e]]
                 /\ \/ e \in refs[b] /\ refs' = refs
                    \/ e \in refs[b] /\ refs' = [refs EXCEPT ![b] = @ \union {"link"}]
                    \/ /\ "custody" \in refs[b] /\ b \notin freed
                       /\ refs' = [refs EXCEPT ![b] = @ \union {e}]
    BY <1>13, MainEventStep
  <2>3. Live(b)
    BY <2>2, HeldIsLive, EventNames
  <2>4. (\A x : Keeps(x)) /\ e \in refs'[b]
    BY <1>0, <2>2 DEF Keeps
  <2>5. \A u \in Threads : u # "main" => run'[u] = run[u]
    BY <2>2 DEF Types, RunTypes
  <2>6. Runs("main")'
    <3>1. run'["main"].at = step /\ run'["main"].b = b /\ run'["main"].ref = e
      BY <2>2, Names DEF Types, RunTypes
    <3> QED
      BY <2>4, <3>1 DEF Runs
  <2>7. \A x \in Bundles : refs'[x] # refs[x] => x = b
    BY <1>0, <2>2
  <2>8. "all" \in refs'[b] \/ "deleting" \in refs'[b]
    BY <2>3, <2>4 DEF RefInv, OnAList, Live, Keeps
  <2> QED
    BY <2>1, <2>3, <2>4, <2>5, <2>6, <2>7, <2>8, RefStep DEF store, Types, BundleTypes
<1>14. ASSUME NEW b \in Bundles, handle_bundle_free(b) PROVE RefInv'
  <2>1. /\ b \in freed /\ refs' = [refs EXCEPT ![b] = {}] /\ freed' = freed \ {b}
        /\ UNCHANGED <<arrived, run, store>>
    BY <1>14 DEF handle_bundle_free
  <2>2. \A x \in Bundles : OnAList(x)'
    BY <1>0, <2>1 DEF RefInv, OnAList
  <2>3. FreedIsUnreferenced'
    BY <1>0, <2>1 DEF RefInv, FreedIsUnreferenced, Types, BundleTypes
  <2>4. \A h \in refs[b] : h = "all" \/ h = "deleting"
    BY <2>1 DEF RefInv, FreedIsUnreferenced
  <2>5. \A t \in Threads : Runs(t)'
    <3> SUFFICES ASSUME NEW t \in Threads, run[t] # Idle PROVE Runs(t)'
      BY <2>1 DEF Runs
    <3>1. run[t].b \in Bundles /\ run[t].b # b
      BY <2>4, RunningIsLive, EventNames
    <3> QED
      BY <1>0, <2>1, <3>1 DEF Runs, RefInv
  <2>6. StorageHolds'
    <3>1. writing.at \in {"found", "written"} => writing.b \in Bundles /\ writing.b # b
      BY <2>4 DEF RefInv, StorageHolds, Types, StoreTypes
    <3> QED
      BY <1>0, <2>1, <3>1 DEF StorageHolds, RefInv, store
  <2> QED
    BY <2>1, <2>2, <2>3, <2>5, <2>6 DEF RefInv, store
<1>15. CASE StorageEvent \/ \E d \in to_delete : StorageDelete(d)
  <2>1. UNCHANGED <<arrived, refs, freed, run, writing>> /\ DOMAIN db' \subseteq DOMAIN db
    BY <1>15 DEF StorageEvent, StorageDelete
  <2> QED
    BY <2>1, RefStep DEF Keeps, Types, BundleTypes
<1>16. CASE StartPass \/ StartAdds \/ EndPass
  <2>1. UNCHANGED <<arrived, refs, freed, run, db>>
    BY <1>16 DEF StartPass, StartAdds, EndPass
  <2>2. StorageHolds'
    BY <1>16, SMT DEF StartPass, StartAdds, EndPass, StorageHolds, Idle
  <2> QED
    BY <2>1, <2>2, RefStep DEF Keeps, Types, BundleTypes
<1>17. ASSUME NEW b \in Bundles, find_for_storage(b) PROVE RefInv'
  <2>1. UNCHANGED <<arrived, freed, run, db>>
    BY <1>17 DEF find_for_storage
  <2>2. CASE UNCHANGED <<refs, writing>>
    BY <2>1, <2>2, RefStep DEF Keeps, Types, BundleTypes
  <2>3. CASE /\ "all" \in refs[b] /\ b \notin freed
             /\ refs' = [refs EXCEPT ![b] = @ \union {"storage"}]
             /\ writing' = [at |-> "found", b |-> b]
    <3>1. Live(b)
      BY <2>3 DEF Live
    <3>2. \A x : Keeps(x)
      BY <1>0, <2>3 DEF Keeps
    <3>3. StorageHolds'
      BY <1>0, <2>3 DEF StorageHolds
    <3>4. \A x \in Bundles : refs'[x] # refs[x] => x = b
      BY <1>0, <2>3
    <3>5. "all" \in refs'[b]
      BY <2>3, <3>2 DEF Keeps
    <3> QED
      BY <2>1, <3>1, <3>2, <3>3, <3>4, <3>5, RefStep DEF Types, BundleTypes
  <2> QED
    BY <1>17, <2>2, <2>3 DEF find_for_storage
<1>18. CASE StorageWrite
  <2>1. UNCHANGED <<arrived, refs, freed, run>>
    BY <1>18 DEF StorageWrite
  <2>2. writing'.b = writing.b /\ writing.at = "found"
    BY <1>18 DEF StorageWrite, Types, StoreTypes
  <2>3. StorageHolds'
    BY <2>1, <2>2 DEF StorageHolds, RefInv
  <2>4. writing.b \in arrived
    BY <2>2 DEF RefInv, StorageHolds, OnAList, Types, StoreTypes
  <2>5. \A b \in DOMAIN db' : b \in DOMAIN db \/ b \in arrived
    BY <1>18, <2>4 DEF StorageWrite
  <2> QED
    BY <2>1, <2>3, <2>5, RefStep DEF Keeps, Types, BundleTypes
<1>19. CASE StorageRelease
  <2> DEFINE b == writing.b
  <2>1. /\ writing.at = "written" /\ del_ref(b, {"storage"})
        /\ UNCHANGED <<arrived, run, db>> /\ writing' = [at |-> "adds"]
    BY <1>19 DEF StorageRelease
  <2>2. b \in Bundles /\ Live(b)
    BY <2>1, HeldIsLive DEF RefInv, StorageHolds, Types, StoreTypes
  <2>3. /\ refs' = [refs EXCEPT ![b] = @ \ {"storage"}]
        /\ freed' = freed \/ (freed' = freed \union {b} /\ \E h : refs'[b] = {h})
    BY <2>1, <2>2, DelRefStep
  <2>4. Keeps("deleting") /\ Keeps("all") /\ \A e \in Events : Keeps(e)
    BY <1>0, <2>3, EventNames DEF Keeps
  <2>5. \A t \in Threads : run[t] # Idle => Keeps(run[t].ref)
    BY <2>4, RunningIsLive
  <2>6. StorageHolds'
    BY <2>1 DEF StorageHolds
  <2>7. \A x \in Bundles : refs'[x] # refs[x] => x = b
    BY <1>0, <2>3
  <2>8. "all" \in refs'[b] \/ "deleting" \in refs'[b]
    BY <2>2, <2>4 DEF RefInv, OnAList, Live, Keeps
  <2> QED
    BY <2>1, <2>2, <2>3, <2>4, <2>5, <2>6, <2>7, <2>8, RefStep DEF Types, BundleTypes
<1>20. CASE handle_shutdown_request \/ commit_all_updates \/ UNCHANGED vars
  <2>1. UNCHANGED <<arrived, refs, freed, run, writing, db>>
    BY <1>20 DEF handle_shutdown_request, commit_all_updates, vars, store
  <2> QED
    BY <2>1, RefStep DEF Keeps, Types, BundleTypes
<1>21. CASE Restart
  <2>1. /\ refs' = [b \in Bundles |-> IF b \in DOMAIN db \intersect files
                                      THEN {"all", "arriving"} ELSE {}]
        /\ freed' = {} /\ run' = [t \in Threads |-> Idle] /\ writing' = Idle
        /\ arrived' = arrived /\ db' = db
    BY <1>21 DEF Restart
  <2>2. writing'.at = "idle"
    BY <2>1 DEF Idle
  <2> QED
    BY <2>1, <2>2 DEF RefInv, OnAList, FreedIsUnreferenced, Runs, StorageHolds
<1> QED
  BY <1>1, <1>2, <1>3, <1>4, <1>5, <1>6, <1>7, <1>8, <1>9, <1>10, <1>11, <1>12, <1>13,
     <1>14, <1>15, <1>16, <1>17, <1>18, <1>19, <1>20, <1>21, Names
  DEF Next, Input, Storage, delete_bundle

(* del_ref marks a bundle freed only when the list it is on is the last    *)
(* holder, and nobody takes a reference after that: the object             *)
(* handle_bundle_free destroys is in use by no thread, event, link or      *)
(* timer, whatever the interleaving of the threads, crashes included.      *)
THEOREM FreedUnreferenced == Spec => []FreedIsUnreferenced
<1>1. Init => Types /\ RefInv
  BY TypesInit, RefInvInit
<1>2. Types /\ RefInv /\ [Next]_vars => (Types /\ RefInv)'
  BY TypesStep, RefInvStep
<1>3. Types /\ RefInv => FreedIsUnreferenced
  BY DEF RefInv
<1> QED
  BY <1>1, <1>2, <1>3, PTL DEF Spec

-----------------------------------------------------------------------------
(***************************************************************************)
(* The storage thread.                                                     *)
(***************************************************************************)

\* A bundle is deleted once: the maps of the storage thread, which keep the
\* first entry of an id, lose nothing.
OneDelete ==
    /\ \A i, j \in DOMAIN eventq :
          eventq[i].type = "delete" /\ eventq[j].type = "delete" /\ eventq[i].id = eventq[j].id
             => i = j
    /\ \A i \in DOMAIN eventq, d \in to_delete : eventq[i].type = "delete" => eventq[i].id # d.id
    /\ \A d, e \in to_delete : d.id = e.id => d = e

\* The flags and the queues hold nothing of an id that was never used.
Known(b) ==
    \/ b \in in_datastore \union in_storage_queue \union reloaded
    \/ UpdateQueued(b) \/ DeleteQueued(b)
    => b \in arrived

\* What the flags of a bundle in use say: its row is there and will be
\* removed with it, and a write is on its way when in_storage_queue says so.
FlagsRight(b) == Live(b) =>
    /\ ~DeleteQueued(b)
    /\ b \in in_datastore => b \in queued_for_datastore /\ b \in DOMAIN db
    /\ UpdateQueued(b) => b \in queued_for_datastore
    /\ b \in reloaded => b \in in_datastore
    /\ b \in in_storage_queue /\ "deleting" \notin refs[b] => UpdateQueued(b)

\* NoOrphanRow and the two halves of StorageIsCurrent, for one bundle.
RowOwned(b) ==
    down = "up" /\ b \in DOMAIN db => (Live(b) /\ b \in in_datastore) \/ RemovalQueued(b)
Stored(b) ==
    "pending" \in refs[b] /\ "deleting" \notin refs[b] /\ b \notin late
      => b \in DOMAIN db \/ (b \notin in_datastore /\ UpdateQueued(b))
CustodyStored(b) ==
    b \in DOMAIN db /\ Live(b) /\ "deleting" \notin refs[b] /\ down = "up"
      => db[b].custody = (b \in local_custody) \/ UpdateQueued(b)

BundleInv(b) ==
    Known(b) /\ FlagsRight(b) /\ RowOwned(b) /\ Stored(b) /\ CustodyStored(b)

StoreInv == OneDelete /\ \A b \in Bundles : BundleInv(b)

\* A step leaves alone what the store and the flags say of a bundle ...
SameFlags(b) ==
    /\ (b \in arrived => b \in arrived') /\ down' = down
    /\ (b \in in_datastore' <=> b \in in_datastore)
    /\ (b \in in_storage_queue' <=> b \in in_storage_queue)
    /\ (b \in queued_for_datastore' <=> b \in queued_for_datastore)
    /\ (b \in reloaded' <=> b \in reloaded) /\ (b \in late => b \in late')
    /\ (b \in local_custody' <=> b \in local_custody)
    /\ (b \in DOMAIN db' <=> b \in DOMAIN db)
    /\ (b \in DOMAIN db => db'[b] = db[b])
\* ... and what is queued for it.
SameQueues(b) ==
    /\ UpdateQueued(b)' <=> UpdateQueued(b)
    /\ DeleteQueued(b)' <=> DeleteQueued(b)
    /\ RemovalQueued(b)' <=> RemovalQueued(b)

\* The storage thread goes on with the bundle it is about to write.
WriteKept == /\ writing'.at = "found" <=> writing.at = "found"
             /\ writing.at = "found" => writing'.b = writing.b

(* A step that only changes who holds a bundle, and neither makes it       *)
(* pending nor takes it off deleting_bundles_, keeps its invariant.        *)
LEMMA BundleKept ==
    ASSUME NEW b, BundleInv(b), SameFlags(b), SameQueues(b), Live(b)' <=> Live(b),
           "deleting" \in refs[b] => "deleting" \in refs'[b],
           "pending" \in refs'[b] => "pending" \in refs[b]
    PROVE  BundleInv(b)'
<1>1. Known(b)'
  BY DEF BundleInv, SameFlags, SameQueues, Known
<1>2. FlagsRight(b)'
  BY DEF BundleInv, SameFlags, SameQueues, FlagsRight
<1>3. RowOwned(b)' /\ Stored(b)' /\ CustodyStored(b)'
  BY SMT DEF BundleInv, SameFlags, SameQueues, RowOwned, Stored, CustodyStored
<1> QED
  BY <1>1, <1>2, <1>3 DEF BundleInv

(* The queues of every bundle, when the storage queue and thread stand.    *)
LEMMA QueuesKept ==
    ASSUME UNCHANGED <<eventq, add_update, to_delete>>, WriteKept
    PROVE  (OneDelete <=> OneDelete') /\ \A b : SameQueues(b)
BY DEF OneDelete, SameQueues, UpdateQueued, DeleteQueued, RemovalQueued, WriteKept

(* An update event joins the storage queue. *)
LEMMA QueueUpdate ==
    ASSUME Types, NEW b \in Bundles, OneDelete,
           eventq' = Append(eventq, [type |-> "update", id |-> b]),
           UNCHANGED <<add_update, to_delete>>, WriteKept
    PROVE  /\ OneDelete' /\ UpdateQueued(b)'
           /\ \A x : (DeleteQueued(x)' <=> DeleteQueued(x))
                     /\ (RemovalQueued(x)' <=> RemovalQueued(x))
           /\ \A x : x # b => SameQueues(x)
<1> DEFINE e == [type |-> "update", id |-> b]
           n == Len(eventq) + 1
<1>1. e \in StorageEvents /\ eventq \in Seq(StorageEvents) /\ e.type # "delete"
  BY DEF StorageEvents, Types, BundleTypes
<1>2. \A x : x # b => e # [type |-> "update", id |-> x]
  OBVIOUS
<1>3. eventq' = Append(eventq, e)
  OBVIOUS
<1> HIDE DEF e
<1>4. /\ DOMAIN eventq \subseteq DOMAIN eventq'
      /\ \A i \in DOMAIN eventq : eventq'[i] = eventq[i]
      /\ n \in DOMAIN eventq' /\ eventq'[n] = e
      /\ \A i \in DOMAIN eventq' : i \in DOMAIN eventq \/ i = n
  BY <1>1, <1>3, Appended
<1> HIDE DEF n
<1>5. OneDelete'
  BY <1>1, <1>4, SMT DEF OneDelete
<1>6. UpdateQueued(b)'
  BY <1>4 DEF UpdateQueued, e
<1>7. \A x : (DeleteQueued(x)' <=> DeleteQueued(x)) /\ (RemovalQueued(x)' <=> RemovalQueued(x))
  BY <1>1, <1>4 DEF DeleteQueued, RemovalQueued
<1>8. \A x : x # b => (UpdateQueued(x)' <=> UpdateQueued(x))
  BY <1>2, <1>4 DEF UpdateQueued, WriteKept
<1> QED
  BY <1>5, <1>6, <1>7, <1>8 DEF SameQueues

(* The delete event of a bundle joins the storage queue. *)
LEMMA QueueDelete ==
    ASSUME Types, NEW b \in Bundles, OneDelete, ~DeleteQueued(b),
           eventq' = eventq \o DeleteEvents(b),
           UNCHANGED <<add_update, to_delete>>, WriteKept
    PROVE  /\ OneDelete'
           /\ b \in in_datastore => RemovalQueued(b)'
           /\ UpdateQueued(b)' <=> UpdateQueued(b)
           /\ \A x : x # b => SameQueues(x)
<1>1. eventq \in Seq(StorageEvents)
  BY DEF Types, BundleTypes
<1>2. CASE DeleteEvents(b) = <<>>
  <2>1. eventq' = eventq /\ b \notin in_datastore
    BY <1>1, <1>2, DeleteEventsType, SMT
  <2> QED
    BY <2>1, QueuesKept DEF SameQueues
<1>3. ASSUME NEW e \in StorageEvents, DeleteEvents(b) = <<e>>, e.type = "delete", e.id = b,
             b \in in_datastore => e.size_and_flag >= 0
      PROVE  /\ OneDelete'
             /\ b \in in_datastore => RemovalQueued(b)'
             /\ UpdateQueued(b)' <=> UpdateQueued(b)
             /\ \A x : x # b => SameQueues(x)
  <2> DEFINE n == Len(eventq) + 1
  <2>1. eventq' = Append(eventq, e)
    BY <1>1, <1>3, SMT
  <2>2. /\ DOMAIN eventq \subseteq DOMAIN eventq'
        /\ \A i \in DOMAIN eventq : eventq'[i] = eventq[i]
        /\ n \in DOMAIN eventq' /\ eventq'[n] = e
        /\ \A i \in DOMAIN eventq' : i \in DOMAIN eventq \/ i = n
    BY <1>1, <2>1, Appended
  <2>3. OneDelete'
    BY <1>3, <2>2, SMT DEF OneDelete, DeleteQueued
  <2>4. b \in in_datastore => RemovalQueued(b)'
    BY <1>3, <2>2 DEF RemovalQueued
  <2>5. \A x : e # [type |-> "update", id |-> x]
    BY <1>3, SMT
  <2>6. \A x : UpdateQueued(x)' <=> UpdateQueued(x)
    BY <2>2, <2>5 DEF UpdateQueued, WriteKept
  <2>7. \A x : x # b => /\ (DeleteQueued(x)' <=> DeleteQueued(x))
                        /\ (RemovalQueued(x)' <=> RemovalQueued(x))
    BY <1>3, <2>2 DEF DeleteQueued, RemovalQueued
  <2> QED
    BY <2>3, <2>4, <2>6, <2>7 DEF SameQueues
<1> QED
  BY <1>2, <1>3, DeleteEventsType

(* Dropping references of a bundle in use keeps StoreInv: when the bundle  *)
(* is freed with a row in the database, the removal of the row is queued.  *)
LEMMA DelRefStore ==
    ASSUME Types, RefInv, RefInv', StoreInv, NEW b \in Bundles, Live(b), NEW hs,
           del_ref(b, hs), "deleting" \notin hs, "all" \in hs => "deleting" \in refs[b],
           WriteKept,
           UNCHANGED <<arrived, add_update, to_delete, db, local_custody, node>>
    PROVE  StoreInv'
<1>1. /\ refs' = [refs EXCEPT ![b] = @ \ hs]
      /\ in_storage_queue' = in_storage_queue /\ in_datastore' = in_datastore
  BY DelRefStep
<1>2. /\ \A x \in Bundles : x # b => refs'[x] = refs[x]
      /\ refs'[b] = refs[b] \ hs
  BY <1>1 DEF Types, BundleTypes
<1>3. CASE /\ freed' = freed /\ eventq' = eventq
           /\ queued_for_datastore' = queued_for_datastore
           /\ ~\E h \in Holders : refs'[b] = {h}
  <2>1. OneDelete' /\ \A x \in Bundles : SameQueues(x)
    BY <1>3, QueuesKept DEF StoreInv
  <2>2. \A x \in Bundles : SameFlags(x)
    BY <1>1, <1>3 DEF SameFlags, node
  <2>3. refs'[b] # {}
    BY <1>2 DEF RefInv, OnAList, Live
  <2>4. \A x \in Bundles : Live(x)' <=> Live(x)
    BY <1>2, <1>3, <2>3 DEF Live
  <2>5. \A x \in Bundles : /\ "deleting" \in refs[x] => "deleting" \in refs'[x]
                           /\ "pending" \in refs'[x] => "pending" \in refs[x]
    BY <1>2
  <2>6. \A x \in Bundles : BundleInv(x)'
    BY <2>1, <2>2, <2>4, <2>5, BundleKept DEF StoreInv
  <2> QED
    BY <2>1, <2>6 DEF StoreInv
<1>4. CASE /\ freed' = freed \union {b}
           /\ queued_for_datastore' = queued_for_datastore \ {b}
           /\ IF b \in queued_for_datastore /\ down = "up"
              THEN eventq' = eventq \o DeleteEvents(b) ELSE eventq' = eventq
  <2>1. BundleInv(b) /\ OneDelete /\ ~DeleteQueued(b)
    BY DEF StoreInv, BundleInv, FlagsRight
  <2>2. /\ OneDelete' /\ \A x : x # b => SameQueues(x)
        /\ b \in queued_for_datastore /\ down = "up" /\ b \in in_datastore => RemovalQueued(b)'
        /\ UpdateQueued(b)' <=> UpdateQueued(b)
    BY <1>4, <2>1, QueuesKept, QueueDelete DEF SameQueues
  <2>3. \A x \in Bundles : x # b => SameFlags(x) /\ (Live(x)' <=> Live(x))
    BY <1>1, <1>2, <1>4 DEF SameFlags, node, Live
  <2>4. \A x \in Bundles : x # b => BundleInv(x)'
    BY <1>2, <2>2, <2>3, BundleKept DEF StoreInv
  <2>5. ~Live(b)' /\ "pending" \notin refs'[b]
    BY <1>4, SMT DEF Live, RefInv, FreedIsUnreferenced
  <2>6. Known(b)'
    BY DEF RefInv, OnAList, Live, Known
  <2>7. RowOwned(b)'
    <3>1. RemovalQueued(b) => DeleteQueued(b)
      BY DEF RemovalQueued, DeleteQueued
    <3> QED
      BY <2>1, <2>2, <3>1 DEF BundleInv, RowOwned, FlagsRight, node
  <2>8. BundleInv(b)'
    BY <2>5, <2>6, <2>7 DEF BundleInv, FlagsRight, Stored, CustodyStored
  <2> QED
    BY <2>2, <2>4, <2>8 DEF StoreInv
<1> QED
  BY <1>3, <1>4, DelRefStep

(* Asking for a write of a bundle in use keeps StoreInv, when the custody  *)
(* flag or the lists of that bundle change with it: on a running daemon a  *)
(* write is now on its way, and after shutting_down_ was set only a bundle *)
(* that is late, or has its row, becomes pending.                          *)
LEMMA AddUpdateStore ==
    ASSUME Types, RefInv, StoreInv, NEW b \in Bundles, Live(b), bundle_add_update(b),
           refs' \in [Bundles -> SUBSET Holders], freed' = freed,
           \A x \in Bundles : x # b => refs'[x] = refs[x],
           refs[b] \subseteq refs'[b],
           b \in reloaded => "pending" \notin refs'[b] \/ "pending" \in refs[b],
           down # "up" => "pending" \notin refs'[b] \/ "pending" \in refs[b] \/ b \in late',
           \A x \in Bundles : x # b => (x \in local_custody' <=> x \in local_custody),
           late \subseteq late',
           UNCHANGED <<arrived, store, down, reloaded>>
    PROVE  StoreInv'
<1>1. in_datastore' = in_datastore /\ WriteKept /\ UNCHANGED <<add_update, to_delete, db>>
  BY AddUpdateStep DEF store, WriteKept
<1>2. BundleInv(b) /\ OneDelete
  BY DEF StoreInv
<1>3. b \in arrived /\ Live(b)'
  BY DEF RefInv, OnAList, Live
<1>4. ASSUME eventq' = eventq, in_storage_queue' = in_storage_queue,
             \A x \in Bundles :
               x # b => (x \in queued_for_datastore' <=> x \in queued_for_datastore)
      PROVE  OneDelete' /\ SameQueues(b) /\ \A x \in Bundles : x # b => BundleInv(x)'
  <2>1. OneDelete' /\ \A x : SameQueues(x)
    BY <1>1, <1>2, <1>4, QueuesKept
  <2>2. \A x \in Bundles : x # b => SameFlags(x) /\ (Live(x)' <=> Live(x))
    BY <1>1, <1>4 DEF SameFlags, Live
  <2> QED
    BY <2>1, <2>2, BundleKept DEF StoreInv
<1>5. CASE /\ down # "up" /\ eventq' = eventq /\ in_storage_queue' = in_storage_queue
           /\ queued_for_datastore' = queued_for_datastore
  <2>1. OneDelete' /\ SameQueues(b) /\ \A x \in Bundles : x # b => BundleInv(x)'
    BY <1>4, <1>5
  <2>2. BundleInv(b)'
    BY <1>1, <1>2, <1>3, <1>5, <2>1
    DEF BundleInv, Known, FlagsRight, RowOwned, Stored, CustodyStored, SameQueues
  <2> QED
    BY <2>1, <2>2 DEF StoreInv
<1>6. CASE /\ down = "up" /\ b \in in_storage_queue /\ eventq' = eventq
           /\ in_storage_queue' = in_storage_queue
           /\ queued_for_datastore' = queued_for_datastore \union {b}
  <2>1. OneDelete' /\ SameQueues(b) /\ \A x \in Bundles : x # b => BundleInv(x)'
    BY <1>4, <1>6
  <2>2. BundleInv(b)'
    BY <1>1, <1>2, <1>3, <1>6, <2>1
    DEF BundleInv, Known, FlagsRight, RowOwned, Stored, CustodyStored, SameQueues
  <2> QED
    BY <2>1, <2>2 DEF StoreInv
<1>7. CASE /\ down = "up" /\ b \notin in_storage_queue
           /\ eventq' = Append(eventq, [type |-> "update", id |-> b])
           /\ in_storage_queue' = in_storage_queue \union {b}
           /\ queued_for_datastore' = queued_for_datastore \union {b}
  <2>1. /\ OneDelete' /\ UpdateQueued(b)'
        /\ (DeleteQueued(b)' <=> DeleteQueued(b)) /\ (RemovalQueued(b)' <=> RemovalQueued(b))
        /\ \A x : x # b => SameQueues(x)
    BY <1>1, <1>2, <1>7, QueueUpdate
  <2>2. \A x \in Bundles : x # b => SameFlags(x) /\ (Live(x)' <=> Live(x))
    BY <1>1, <1>7 DEF SameFlags, Live
  <2>3. \A x \in Bundles : x # b => BundleInv(x)'
    BY <2>1, <2>2, BundleKept DEF StoreInv
  <2>4. BundleInv(b)'
    BY <1>1, <1>2, <1>3, <1>7, <2>1
    DEF BundleInv, Known, FlagsRight, RowOwned, Stored, CustodyStored
  <2> QED
    BY <2>1, <2>3, <2>4 DEF StoreInv
<1> QED
  BY <1>5, <1>6, <1>7, AddUpdateStep

(* The storage thread takes an event off its queue: the maps keep it,      *)
(* since no other removal of the bundle is on its way.                     *)
LEMMA QueuePop ==
    ASSUME Types, OneDelete, StorageEvent
    PROVE  OneDelete' /\ \A x : SameQueues(x)
<1> DEFINE e == eventq[1]
<1>0. writing' = writing
  BY DEF StorageEvent
<1>1. eventq # <<>> /\ eventq' = Tail(eventq)
  BY DEF StorageEvent
<1>2. eventq \in Seq(StorageEvents)
  BY DEF Types, BundleTypes
<1>3. /\ Head(eventq) = e /\ 1 \in DOMAIN eventq /\ e \in StorageEvents
      /\ \A i \in DOMAIN eventq' : /\ i + 1 \in DOMAIN eventq /\ eventq'[i] = eventq[i + 1]
                                   /\ i # 0 /\ i \in Int
      /\ \A i \in DOMAIN eventq : i = 1 \/ (i - 1 \in DOMAIN eventq' /\ eventq'[i - 1] = eventq[i])
  BY <1>1, <1>2, Popped, SMT
<1>4. CASE e.type = "update"
  <2>1. add_update' = add_update \union {e.id} /\ to_delete' = to_delete
    BY <1>3, <1>4 DEF StorageEvent
  <2>2. e = [type |-> "update", id |-> e.id]
    BY <1>3, <1>4 DEF StorageEvents
  <2>3. \A x : e = [type |-> "update", id |-> x] => x = e.id
    BY SMT
  <2>4. OneDelete'
    BY <1>3, <2>1, SMT DEF OneDelete
  <2>5. \A x : UpdateQueued(x)' <=> UpdateQueued(x)
    BY <1>0, <1>3, <2>1, <2>2, <2>3, SMT DEF UpdateQueued
  <2>6. \A x : (DeleteQueued(x)' <=> DeleteQueued(x)) /\ (RemovalQueued(x)' <=> RemovalQueued(x))
    BY <1>3, <1>4, <2>1, SMT DEF DeleteQueued, RemovalQueued
  <2> QED
    BY <2>4, <2>5, <2>6 DEF SameQueues
<1>5. CASE e.type = "delete"
  <2> DEFINE d == [id |-> e.id, size_and_flag |-> e.size_and_flag]
  <2>1. ~\E c \in to_delete : c.id = e.id
    BY <1>3, <1>5 DEF OneDelete
  <2>2. add_update' = add_update /\ to_delete' = to_delete \union {d}
    BY <1>3, <1>5, <2>1 DEF StorageEvent
  <2>3. d.id = e.id /\ d.size_and_flag = e.size_and_flag
    OBVIOUS
  <2>4. \A x : e # [type |-> "update", id |-> x]
    BY <1>5, SMT
  <2> HIDE DEF d
  <2>5. OneDelete'
    <3>1. \A i, j \in DOMAIN eventq' :
            eventq'[i].type = "delete" /\ eventq'[j].type = "delete"
              /\ eventq'[i].id = eventq'[j].id => i = j
      BY <1>3, SMT DEF OneDelete
    <3>2. \A i \in DOMAIN eventq', c \in to_delete' :
            eventq'[i].type = "delete" => eventq'[i].id # c.id
      BY <1>3, <1>5, <2>2, <2>3, SMT DEF OneDelete
    <3>3. \A c, f \in to_delete' : c.id = f.id => c = f
      BY <2>1, <2>2, <2>3 DEF OneDelete
    <3> QED
      BY <3>1, <3>2, <3>3 DEF OneDelete
  <2>6. \A x : UpdateQueued(x)' <=> UpdateQueued(x)
    BY <1>0, <1>3, <2>2, <2>4, SMT DEF UpdateQueued
  <2>7. \A x : (DeleteQueued(x)' <=> DeleteQueued(x)) /\ (RemovalQueued(x)' <=> RemovalQueued(x))
    BY <1>3, <1>5, <2>2, <2>3, SMT DEF DeleteQueued, RemovalQueued
  <2> QED
    BY <2>5, <2>6, <2>7 DEF SameQueues
<1> QED
  BY <1>3, <1>4, <1>5 DEF StorageEvents

(* A step that only changes who holds the bundles in use. *)
LEMMA HoldersStore ==
    ASSUME Types, RefInv', StoreInv, WriteKept,
           UNCHANGED <<arrived, freed, in_storage_queue, in_datastore, queued_for_datastore,
                       local_custody, eventq, add_update, to_delete, db, node>>,
           \A x \in Bundles : /\ refs'[x] # {} <=> refs[x] # {}
                              /\ "deleting" \in refs[x] => "deleting" \in refs'[x]
                              /\ "pending" \in refs'[x] => "pending" \in refs[x]
    PROVE  StoreInv'
<1>1. OneDelete' /\ \A x \in Bundles : SameQueues(x)
  BY QueuesKept DEF StoreInv
<1>2. \A x \in Bundles : SameFlags(x) /\ (Live(x)' <=> Live(x))
  BY DEF SameFlags, Live, node
<1> QED
  BY <1>1, <1>2, BundleKept DEF StoreInv

(* Initially the queues and the table are empty. *)
LEMMA StoreInvInit == Init => StoreInv
<1>1. Init => writing.at = "idle"
  BY SMT DEF Init, Idle
<1> QED
  BY <1>1, SMT DEF Init, StoreInv, OneDelete, BundleInv, Known, FlagsRight, RowOwned, Stored,
       CustodyStored, Live, UpdateQueued, DeleteQueued, RemovalQueued

(* Every step keeps StoreInv. *)
LEMMA StoreInvStep ==
    Types /\ Types' /\ RefInv /\ RefInv' /\ StoreInv /\ [Next]_vars => StoreInv'
<1> SUFFICES ASSUME Types, Types', RefInv, RefInv', StoreInv, [Next]_vars PROVE StoreInv'
  OBVIOUS
<1>0. refs \in [Bundles -> SUBSET Holders]
  BY DEF Types, BundleTypes
<1>1. ASSUME NEW b \in Bundles, StartIncoming(b) PROVE StoreInv'
  <2>1. /\ b \notin arrived /\ arrived' = arrived \union {b} /\ UNCHANGED <<freed, store, node>>
        /\ refs' = [refs EXCEPT ![b] = {"all", "incoming"}]
        /\ UNCHANGED <<in_storage_queue, in_datastore, queued_for_datastore, local_custody, eventq>>
    BY <1>1 DEF StartIncoming
  <2>2. OneDelete' /\ \A x \in Bundles : SameQueues(x)
    BY <2>1, QueuesKept DEF StoreInv, store, WriteKept
  <2>3. \A x \in Bundles : x # b => SameFlags(x) /\ refs'[x] = refs[x] /\ (Live(x)' <=> Live(x))
    BY <1>0, <2>1 DEF SameFlags, Live, node, store
  <2>4. \A x \in Bundles : x # b => BundleInv(x)'
    BY <2>2, <2>3, BundleKept DEF StoreInv
  <2>5. BundleInv(b) /\ refs'[b] = {"all", "incoming"} /\ b \notin DOMAIN db'
    BY <1>0, <2>1 DEF StoreInv, RefInv, store
  <2>6. BundleInv(b)'
    BY <2>1, <2>2, <2>5
    DEF BundleInv, Known, FlagsRight, RowOwned, Stored, CustodyStored, SameQueues, node
  <2> QED
    BY <2>2, <2>4, <2>6 DEF StoreInv
<1>2. ASSUME NEW b \in Bundles,
             PostReceived(b) \/ LinkDone(b) \/ Timeout(b) \/ RequestDelete(b)
      PROVE  StoreInv'
  <2>1. PICK h \in {"incoming", "link", "timer"}, e \in Events :
            /\ h \in refs[b] \/ "all" \in refs[b]
            /\ \/ refs' = [refs EXCEPT ![b] = (@ \ {h}) \union {e}]
               \/ refs' = [refs EXCEPT ![b] = @ \union {e}]
    BY <1>2, Names DEF PostReceived, LinkDone, Timeout, RequestDelete
  <2>2. UNCHANGED <<arrived, freed, flags, local_custody, eventq, store, node>>
    BY <1>2 DEF PostReceived, LinkDone, Timeout, RequestDelete
  <2>3. \A x \in Bundles : /\ refs'[x] # {} <=> refs[x] # {}
                           /\ "deleting" \in refs[x] => "deleting" \in refs'[x]
                           /\ "pending" \in refs'[x] => "pending" \in refs[x]
    BY <1>0, <2>1, EventNames
  <2> QED
    BY <2>2, <2>3, HoldersStore DEF flags, store, WriteKept
<1>3. ASSUME NEW b \in Bundles, AbandonIncoming(b) PROVE StoreInv'
  <2>1. "incoming" \in refs[b] /\ del_ref(b, {"incoming"})
        /\ UNCHANGED <<arrived, local_custody, store, node>>
    BY <1>3 DEF AbandonIncoming
  <2>2. Live(b)
    BY <2>1, HeldIsLive
  <2> QED
    BY <2>1, <2>2, DelRefStore DEF store, WriteKept
<1>4. CASE (\E b \in Bundles : QueryQuota(b)) \/ AcceptOrReject
  <2>1. UNCHANGED <<arrived, refs, freed, in_storage_queue, in_datastore, queued_for_datastore,
                    local_custody, eventq, store, node>>
    BY <1>4 DEF QueryQuota, AcceptOrReject, flags
  <2> QED
    BY <2>1, HoldersStore DEF store, WriteKept
<1>5. CASE add_to_pending
  <2>0. PICK b \in Bundles : b = run["input"].b
    BY <1>5, AtStep, Names DEF add_to_pending
  <2>1. Live(b)
    BY <1>5, <2>0, AtStep, RunningIsLive, Names DEF add_to_pending
  <2>2. /\ refs' = [refs EXCEPT ![b] = @ \union {"pending"}]
        /\ UNCHANGED <<arrived, freed, local_custody, store, down, reloaded>>
        /\ late \subseteq late'
        /\ down # "up" /\ b \notin reloaded => b \in late'
    BY <1>5, <2>0 DEF add_to_pending
  <2>3. /\ \A x \in Bundles : x # b => refs'[x] = refs[x]
        /\ refs'[b] = refs[b] \union {"pending"}
    BY <1>0, <2>1, <2>2
  <2>4. CASE b \in reloaded
    <3>1. /\ UNCHANGED <<in_storage_queue, in_datastore, queued_for_datastore, eventq>>
          /\ late' = late
      BY <1>5, <2>0, <2>4 DEF add_to_pending, flags
    <3>2. OneDelete' /\ \A x \in Bundles : SameQueues(x)
      BY <2>2, <3>1, QueuesKept DEF StoreInv, store, WriteKept
    <3>3. \A x \in Bundles : SameFlags(x) /\ (Live(x)' <=> Live(x))
      BY <2>1, <2>2, <2>3, <3>1 DEF SameFlags, Live, store
    <3>4. \A x \in Bundles : x # b => BundleInv(x)'
      BY <2>3, <3>2, <3>3, BundleKept DEF StoreInv
    <3>5. BundleInv(b)'
      BY <2>1, <2>3, <2>4, <3>2, <3>3, SMT
      DEF StoreInv, BundleInv, Known, FlagsRight, RowOwned, Stored, CustodyStored,
          SameQueues, SameFlags
    <3> QED
      BY <3>2, <3>4, <3>5 DEF StoreInv
  <2>5. CASE b \notin reloaded
    <3>1. bundle_add_update(b)
      BY <1>5, <2>0, <2>5 DEF add_to_pending
    <3>2. refs' \in [Bundles -> SUBSET Holders]
      BY DEF Types, BundleTypes
    <3> QED
      BY <2>1, <2>2, <2>3, <2>5, <3>1, <3>2, AddUpdateStore
  <2> QED
    BY <2>4, <2>5
<1>6. CASE StartExpirationTimer \/ PushCustody
  <2> DEFINE b == run["input"].b
  <2>1. b \in Bundles /\ Live(b)
    BY <1>6, AtStep, RunningIsLive, Names DEF StartExpirationTimer, PushCustody
  <2>2. PICK h \in {"timer", "custody"} : refs' = [refs EXCEPT ![b] = @ \union {h}]
    BY <1>6 DEF StartExpirationTimer, PushCustody
  <2>3. UNCHANGED <<arrived, freed, flags, local_custody, eventq, store, node>>
    BY <1>6 DEF StartExpirationTimer, PushCustody
  <2>4. \A x \in Bundles : /\ refs'[x] # {} <=> refs[x] # {}
                           /\ "deleting" \in refs[x] => "deleting" \in refs'[x]
                           /\ "pending" \in refs'[x] => "pending" \in refs[x]
    BY <1>0, <2>1, <2>2 DEF Live
  <2> QED
    BY <2>3, <2>4, HoldersStore DEF flags, store, WriteKept
<1>7. CASE accept_custody
  <2>0. PICK b \in Bundles : b = run["input"].b
    BY <1>7, AtStep, Names DEF accept_custody
  <2>1. Live(b)
    BY <1>7, <2>0, AtStep, RunningIsLive, Names DEF accept_custody
  <2>2. UNCHANGED <<arrived, refs, freed, store, node>>
    BY <1>7 DEF accept_custody
  <2>3. CASE bundle_add_update(b) /\ local_custody' = local_custody \union {b}
    BY <1>0, <2>1, <2>2, <2>3, AddUpdateStore DEF node
  <2>4. CASE UNCHANGED <<local_custody, flags, total, eventq>>
    BY <2>2, <2>4, HoldersStore DEF flags, store, WriteKept
  <2> QED
    BY <1>7, <2>0, <2>3, <2>4 DEF accept_custody
<1>8. CASE PostToMain
  <2> DEFINE b == run["input"].b
  <2>1. b \in Bundles /\ Live(b)
    BY <1>8, AtStep, RunningIsLive, Names DEF PostToMain
  <2>2. /\ refs' = [refs EXCEPT ![b] = (@ \ {"arriving"}) \union {"received"}]
        /\ UNCHANGED <<arrived, freed, flags, local_custody, eventq, store, node>>
    BY <1>8 DEF PostToMain
  <2>3. \A x \in Bundles : /\ refs'[x] # {} <=> refs[x] # {}
                           /\ "deleting" \in refs[x] => "deleting" \in refs'[x]
                           /\ "pending" \in refs'[x] => "pending" \in refs[x]
    BY <1>0, <2>1, <2>2 DEF Live
  <2> QED
    BY <2>2, <2>3, HoldersStore DEF flags, store, WriteKept
<1>9. ASSUME NEW t \in Threads, release_custody(t) PROVE StoreInv'
  <2>0. PICK b \in Bundles : b = run[t].b
    BY <1>9, AtStep, Names DEF release_custody
  <2>1. Live(b)
    BY <1>9, <2>0, AtStep, RunningIsLive, Names DEF release_custody
  <2>2. UNCHANGED <<arrived, refs, freed, store, node>>
    BY <1>9 DEF release_custody
  <2>3. CASE bundle_add_update(b) /\ local_custody' = local_custody \ {b}
    BY <1>0, <2>1, <2>2, <2>3, AddUpdateStore DEF node
  <2>4. CASE UNCHANGED <<local_custody, flags, total, eventq>>
    BY <2>2, <2>4, HoldersStore DEF flags, store, WriteKept
  <2> QED
    BY <1>9, <2>0, <2>3, <2>4 DEF release_custody
<1>10. ASSUME NEW t \in Threads,
              EraseCustody(t) \/ delete_from_pending(t) \/ EraseAll(t) \/ DropEvent(t)
       PROVE  StoreInv'
  <2>1. run[t] # Idle
    BY <1>10, AtStep, Names DEF EraseCustody, delete_from_pending, EraseAll, DropEvent
  <2>2. PICK b \in Bundles : b = run[t].b /\ Live(b) /\ run[t].ref \in Events
    BY <2>1, RunningIsLive
  <2>3. PICK hs \in {{}, {"custody"}, {"timer", "pending"}, {"all"}, {run[t].ref}} :
            del_ref(b, hs) /\ (hs = {"all"} => At(t, "erase all") \/ run[t].ref = "all")
    BY <1>10, <2>2 DEF EraseCustody, delete_from_pending, EraseAll, DropEvent
  <2>4. UNCHANGED <<arrived, local_custody, store, node>>
    BY <1>10 DEF EraseCustody, delete_from_pending, EraseAll, DropEvent
  <2>5. "deleting" \notin hs /\ ("all" \in hs => At(t, "erase all"))
    BY <2>2, <2>3, EventNames
  <2>6. "all" \in hs => "deleting" \in refs[b]
    BY <2>1, <2>2, <2>5 DEF RefInv, Runs, At
  <2> QED
    BY <2>2, <2>3, <2>4, <2>5, <2>6, DelRefStore DEF store, WriteKept
<1>11. ASSUME NEW t \in Threads, PushDeleting(t) PROVE StoreInv'
  <2> DEFINE b == run[t].b
  <2>1. b \in Bundles /\ Live(b)
    BY <1>11, AtStep, RunningIsLive, Names DEF PushDeleting
  <2>2. /\ refs' = [refs EXCEPT ![b] = @ \union {"deleting"}]
        /\ UNCHANGED <<arrived, freed, flags, local_custody, eventq, store, node>>
    BY <1>11 DEF PushDeleting
  <2>3. \A x \in Bundles : /\ refs'[x] # {} <=> refs[x] # {}
                           /\ "deleting" \in refs[x] => "deleting" \in refs'[x]
                           /\ "pending" \in refs'[x] => "pending" \in refs[x]
    BY <1>0, <2>1, <2>2 DEF Live
  <2> QED
    BY <2>2, <2>3, HoldersStore DEF flags, store, WriteKept
<1>12. ASSUME NEW b \in Bundles, MainEvent(b) \/ handle_custody_signal(b) PROVE StoreInv'
  <2>1. UNCHANGED <<arrived, freed, flags, local_custody, eventq, store, node>>
    BY <1>12, MainEventStep
  <2>2. PICK e \in Events : /\ refs[b] # {}
                            /\ \/ refs' = refs
                               \/ refs' = [refs EXCEPT ![b] = @ \union {"link"}]
                               \/ refs' = [refs EXCEPT ![b] = @ \union {e}]
    BY <1>12, MainEventStep
  <2>3. \A x \in Bundles : /\ refs'[x] # {} <=> refs[x] # {}
                           /\ "deleting" \in refs[x] => "deleting" \in refs'[x]
                           /\ "pending" \in refs'[x] => "pending" \in refs[x]
    BY <1>0, <2>2, EventNames, SMT
  <2> QED
    BY <2>1, <2>3, HoldersStore DEF flags, store, WriteKept
<1>13. ASSUME NEW b \in Bundles, handle_bundle_free(b) PROVE StoreInv'
  <2>1. /\ b \in freed /\ refs' = [refs EXCEPT ![b] = {}] /\ freed' = freed \ {b}
        /\ in_storage_queue' = in_storage_queue \ {b} /\ in_datastore' = in_datastore \ {b}
        /\ queued_for_datastore' = queued_for_datastore \ {b}
        /\ local_custody' = local_custody \ {b}
        /\ UNCHANGED <<arrived, eventq, store, node>>
    BY <1>13 DEF handle_bundle_free
  <2>2. OneDelete' /\ \A x \in Bundles : SameQueues(x)
    BY <2>1, QueuesKept DEF StoreInv, store, WriteKept
  <2>3. /\ \A x \in Bundles : x # b => refs'[x] = refs[x]
        /\ refs'[b] = {}
    BY <1>0, <2>1
  <2>4. \A x \in Bundles : x # b => SameFlags(x) /\ (Live(x)' <=> Live(x))
    BY <2>1, <2>3 DEF SameFlags, Live, node, store
  <2>5. \A x \in Bundles : x # b => BundleInv(x)'
    BY <2>2, <2>3, <2>4, BundleKept DEF StoreInv
  <2>6. BundleInv(b) /\ SameQueues(b) /\ ~Live(b) /\ ~Live(b)' /\ db' = db /\ UNCHANGED node
    BY <2>1, <2>2, <2>3 DEF StoreInv, Live, store
  <2>7. BundleInv(b)'
    BY <2>1, <2>3, <2>6
    DEF BundleInv, Known, FlagsRight, RowOwned, Stored, CustodyStored, SameQueues, node
  <2> QED
    BY <2>2, <2>5, <2>7 DEF StoreInv
<1>14. CASE StartPass \/ StartAdds \/ EndPass
  <2>1. UNCHANGED <<arrived, refs, freed, flags, local_custody, eventq, add_update, to_delete,
                    db, node>>
    BY <1>14 DEF StartPass, StartAdds, EndPass
  <2>2. WriteKept
    BY <1>14, SMT DEF StartPass, StartAdds, EndPass, WriteKept, Idle
  <2> QED
    BY <2>1, <2>2, HoldersStore DEF flags
<1>15. CASE StorageEvent
  <2>1. OneDelete' /\ \A x : SameQueues(x)
    BY <1>15, QueuePop DEF StoreInv
  <2>2. \A x \in Bundles : SameFlags(x) /\ refs'[x] = refs[x] /\ (Live(x)' <=> Live(x))
    BY <1>15 DEF StorageEvent, SameFlags, Live, flags, node
  <2> QED
    BY <2>1, <2>2, BundleKept DEF StoreInv
<1>16. ASSUME NEW d \in to_delete, StorageDelete(d) PROVE StoreInv'
  <2>0. PICK b \in Bundles : b = d.id
    BY DEF Types, StoreTypes
  <2>1. /\ add_update' = add_update \ {b} /\ to_delete' = to_delete \ {d}
        /\ UNCHANGED <<arrived, refs, freed, flags, local_custody, eventq, writing, node>>
        /\ IF d.size_and_flag < 0 THEN db' = db
           ELSE db' = [x \in DOMAIN db \ {b} |-> db[x]]
    BY <1>16, <2>0 DEF StorageDelete
  <2>2. /\ writing'.at # "found" /\ writing.at # "found"
        /\ \A x \in Bundles : Live(x)' <=> Live(x)
    BY <1>16, <2>1 DEF StorageDelete, Live
  <2>3. /\ \A x \in Bundles : x # b => SameQueues(x)
        /\ UpdateQueued(b)' => UpdateQueued(b) /\ (DeleteQueued(b)' => DeleteQueued(b))
    BY <2>0, <2>1, <2>2 DEF SameQueues, UpdateQueued, DeleteQueued, RemovalQueued
  <2>4. OneDelete'
    BY <2>1 DEF StoreInv, OneDelete
  <2>5. \A x \in Bundles : x # b => SameFlags(x)
    BY <2>1 DEF SameFlags, flags, node
  <2>6. \A x \in Bundles : x # b => BundleInv(x)'
    BY <2>1, <2>2, <2>3, <2>5, BundleKept DEF StoreInv
  <2>7. DeleteQueued(b) /\ BundleInv(b)
    BY <2>0 DEF DeleteQueued, StoreInv
  <2>8. ~Live(b) /\ ~Live(b)' /\ "pending" \notin refs'[b]
    BY <2>1, <2>2, <2>7, HeldIsLive DEF BundleInv, FlagsRight
  <2>9. down = "up" => b \notin DOMAIN db'
    <3>1. CASE d.size_and_flag < 0
      <4>1. ~RemovalQueued(b)
        BY <2>0, <3>1, SMT DEF RemovalQueued, StoreInv, OneDelete, Types, StoreTypes
      <4> QED
        BY <2>1, <2>7, <2>8, <3>1, <4>1 DEF BundleInv, RowOwned
    <3>2. CASE ~(d.size_and_flag < 0)
      BY <2>1, <3>2
    <3> QED
      BY <3>1, <3>2
  <2>10. Known(b)' /\ FlagsRight(b)' /\ RowOwned(b)' /\ Stored(b)' /\ CustodyStored(b)'
    BY <2>1, <2>3, <2>7, <2>8, <2>9
    DEF BundleInv, Known, FlagsRight, RowOwned, Stored, CustodyStored, flags, node
  <2> QED
    BY <2>4, <2>6, <2>10 DEF StoreInv, BundleInv
<1>17. ASSUME NEW b \in Bundles, find_for_storage(b) PROVE StoreInv'
  <2>1. /\ writing.at = "adds" /\ b \in add_update /\ add_update' = add_update \ {b}
        /\ UNCHANGED <<arrived, freed, flags, local_custody, eventq, to_delete, db, node>>
    BY <1>17 DEF find_for_storage
  <2>2. OneDelete'
    BY <2>1 DEF StoreInv, OneDelete
  <2>3. \A x \in Bundles : SameFlags(x)
    BY <2>1 DEF SameFlags, flags, node
  <2>4. CASE /\ "all" \in refs[b] /\ b \notin freed
             /\ refs' = [refs EXCEPT ![b] = @ \union {"storage"}]
             /\ writing' = [at |-> "found", b |-> b]
    <3>1. writing'.at = "found" /\ writing'.b = b
      BY <2>4
    <3>2. \A x \in Bundles : SameQueues(x)
      BY <2>1, <3>1 DEF SameQueues, UpdateQueued, DeleteQueued, RemovalQueued
    <3>3. \A x \in Bundles : /\ Live(x)' <=> Live(x)
                             /\ "deleting" \in refs[x] => "deleting" \in refs'[x]
                             /\ "pending" \in refs'[x] => "pending" \in refs[x]
      BY <1>0, <2>1, <2>4 DEF Live
    <3> QED
      BY <2>2, <2>3, <3>2, <3>3, BundleKept DEF StoreInv
  <2>5. CASE ~("all" \in refs[b] /\ b \notin freed) /\ UNCHANGED <<refs, writing>>
    <3>1. /\ \A x \in Bundles : x # b => SameQueues(x)
          /\ DeleteQueued(b)' <=> DeleteQueued(b)
          /\ RemovalQueued(b)' <=> RemovalQueued(b)
          /\ UpdateQueued(b)' => UpdateQueued(b)
      BY <2>1, <2>5 DEF SameQueues, UpdateQueued, DeleteQueued, RemovalQueued
    <3>2. \A x \in Bundles : Live(x)' <=> Live(x)
      BY <2>1, <2>5 DEF Live
    <3>3. \A x \in Bundles : x # b => BundleInv(x)'
      BY <2>3, <2>5, <3>1, <3>2, BundleKept DEF StoreInv
    <3>4. Live(b) => "deleting" \in refs[b]
      BY <2>5 DEF Live, RefInv, OnAList
    <3>5. "pending" \in refs[b] => Live(b)
      BY HeldIsLive
    <3>6. BundleInv(b) /\ SameFlags(b) /\ refs'[b] = refs[b] /\ (Live(b)' <=> Live(b))
      BY <2>3, <2>5, <3>2 DEF StoreInv
    <3>7. BundleInv(b)'
      BY <3>1, <3>4, <3>5, <3>6
      DEF BundleInv, Known, FlagsRight, RowOwned, Stored, CustodyStored, SameFlags
    <3> QED
      BY <2>2, <3>3, <3>7 DEF StoreInv
  <2> QED
    BY <1>17, <2>4, <2>5 DEF find_for_storage
<1>18. CASE StorageWrite
  <2>0. PICK b \in Bundles : b = writing.b
    BY <1>18 DEF StorageWrite, Types, StoreTypes
  <2>1. /\ writing.at = "found" /\ in_storage_queue' = in_storage_queue \ {b}
        /\ in_datastore' = in_datastore \union {b}
        /\ db' = [x \in DOMAIN db \union {b} |->
                    IF x = b THEN [custody |-> b \in local_custody] ELSE db[x]]
        /\ UNCHANGED <<arrived, refs, freed, queued_for_datastore, local_custody, eventq,
                       add_update, to_delete, node>>
    BY <1>18, <2>0 DEF StorageWrite
  <2>2. writing'.at = "written"
    BY <1>18 DEF StorageWrite, Types, StoreTypes
  <2>3. OneDelete'
    BY <2>1 DEF StoreInv, OneDelete
  <2>4. /\ \A x \in Bundles : x # b => SameQueues(x)
        /\ UpdateQueued(b) /\ (DeleteQueued(b)' <=> DeleteQueued(b))
    BY <2>0, <2>1, <2>2 DEF SameQueues, UpdateQueued, DeleteQueued, RemovalQueued
  <2>5. \A x \in Bundles : x # b => SameFlags(x)
    BY <2>1 DEF SameFlags, node
  <2>6. \A x \in Bundles : Live(x)' <=> Live(x)
    BY <2>1 DEF Live
  <2>7. \A x \in Bundles : x # b => BundleInv(x)'
    BY <2>1, <2>4, <2>5, <2>6, BundleKept DEF StoreInv
  <2>8. Live(b) /\ Live(b)' /\ b \in arrived' /\ BundleInv(b)
    <3>1. "storage" \in refs[b]
      BY <2>0, <2>1 DEF RefInv, StorageHolds
    <3>2. Live(b)
      BY <3>1, HeldIsLive
    <3> QED
      BY <2>1, <2>6, <3>2 DEF Live, RefInv, OnAList, StoreInv
  <2>9. b \in DOMAIN db' /\ db'[b].custody = (b \in local_custody')
    BY <2>1
  <2>10. Known(b)' /\ FlagsRight(b)' /\ RowOwned(b)' /\ Stored(b)'
    BY <2>1, <2>4, <2>8, <2>9 DEF BundleInv, Known, FlagsRight, RowOwned, Stored, node
  <2>11. CustodyStored(b)'
    BY <2>9 DEF CustodyStored
  <2> QED
    BY <2>3, <2>7, <2>10, <2>11 DEF StoreInv, BundleInv
<1>19. CASE StorageRelease
  <2>0. PICK b \in Bundles : b = writing.b
    BY <1>19 DEF StorageRelease, Types, StoreTypes
  <2>1. /\ writing.at = "written" /\ del_ref(b, {"storage"}) /\ writing' = [at |-> "adds"]
        /\ UNCHANGED <<arrived, local_custody, add_update, to_delete, db, node>>
    BY <1>19, <2>0 DEF StorageRelease
  <2>2. Live(b)
    BY <2>0, <2>1, HeldIsLive DEF RefInv, StorageHolds
  <2>3. WriteKept
    BY <2>1 DEF WriteKept
  <2> QED
    BY <2>1, <2>2, <2>3, DelRefStore
<1>20. CASE handle_shutdown_request \/ commit_all_updates
  <2>1. UNCHANGED <<arrived, refs, freed, flags, local_custody, eventq, store, late, reloaded>>
    BY <1>20 DEF handle_shutdown_request, commit_all_updates
  <2>2. down' # "up"
    BY <1>20 DEF handle_shutdown_request, commit_all_updates
  <2>3. OneDelete' /\ \A x \in Bundles : SameQueues(x)
    BY <2>1, QueuesKept DEF StoreInv, store, WriteKept
  <2>4. \A x \in Bundles : BundleInv(x)'
    BY <2>1, <2>2, <2>3
    DEF StoreInv, BundleInv, Known, FlagsRight, RowOwned, Stored, CustodyStored, Live,
        SameQueues, flags, store
  <2> QED
    BY <2>3, <2>4 DEF StoreInv
<1>21. CASE UNCHANGED vars
  <2>1. UNCHANGED <<arrived, refs, freed, flags, local_custody, eventq, store, node>>
    BY <1>21 DEF vars
  <2> QED
    BY <2>1, HoldersStore DEF flags, store, WriteKept
<1>22. CASE Restart
  <2> DEFINE good == DOMAIN db \intersect files
             doa  == DOMAIN db \ files
  <2>0. PICK n \in 0..Cardinality(doa) : \E order \in Bijection(1..n, doa) :
            eventq' = [i \in 1..n |-> [type |-> "delete", id |-> order[i],
                                       size_and_flag |-> durable_size(order[i])]]
    BY <1>22 DEF Restart
  <2>1. PICK order \in Bijection(1..n, doa) :
            eventq' = [i \in 1..n |-> [type |-> "delete", id |-> order[i],
                                       size_and_flag |-> durable_size(order[i])]]
    BY <2>0
  <2>2. /\ refs' = [b \in Bundles |-> IF b \in good THEN {"all", "arriving"} ELSE {}]
        /\ in_datastore' = good /\ queued_for_datastore' = good /\ reloaded' = good
        /\ local_custody' = {b \in good : db[b].custody}
        /\ freed' = {} /\ in_storage_queue' = {} /\ add_update' = {} /\ to_delete' = {}
        /\ UNCHANGED <<arrived, db, late>>
    BY <1>22 DEF Restart
  <2>3. writing'.at = "idle"
    BY <1>22 DEF Restart, Idle
  <2>4. /\ \A i \in 1..n : order[i] \in doa
        /\ \A i, j \in 1..n : order[i] = order[j] => i = j
        /\ \A b \in doa : \E i \in 1..n : order[i] = b
    BY <2>1 DEF Bijection, Injection, Surjection, IsInjective
  <2>5. /\ DOMAIN eventq' = 1..n
        /\ \A i \in 1..n : /\ eventq'[i].type = "delete" /\ eventq'[i].id = order[i]
                           /\ eventq'[i].size_and_flag = durable_size(order[i])
    BY <2>1
  <2>6. OneDelete'
    BY <2>2, <2>4, <2>5, SMT DEF OneDelete
  <2>7. \A b : ~UpdateQueued(b)'
    BY <2>2, <2>3, <2>5, SMT DEF UpdateQueued
  <2>8. \A b : DeleteQueued(b)' => b \in doa
    BY <2>2, <2>4, <2>5, SMT DEF DeleteQueued
  <2>9. \A b \in doa : RemovalQueued(b)'
    <3> SUFFICES ASSUME NEW b \in doa PROVE RemovalQueued(b)'
      OBVIOUS
    <3>1. durable_size(b) >= 0
      BY DurableSizeType, SMT DEF Types, StoreTypes
    <3> QED
      BY <2>4, <2>5, <3>1, SMT DEF RemovalQueued
  <2>10. ASSUME NEW b \in Bundles PROVE BundleInv(b)'
    <3>1. Live(b)' => b \in good
      BY <2>2 DEF Live
    <3>2. b \in good => Live(b)'
      BY <2>2 DEF Live
    <3>3. Known(b)'
      BY <2>2, <2>7, <2>8 DEF Known, RefInv
    <3>4. FlagsRight(b)'
      BY <2>2, <2>7, <2>8, <3>1 DEF FlagsRight
    <3>5. RowOwned(b)'
      BY <2>2, <2>9, <3>2 DEF RowOwned
    <3>6. Stored(b)'
      BY <2>2 DEF Stored
    <3>7. b \in good => db'[b].custody = (b \in local_custody')
      <4>1. b \in good => db[b].custody \in BOOLEAN
        BY DEF Types, StoreTypes, Row
      <4> QED
        BY <2>2, <4>1, SMT
    <3>8. CustodyStored(b)'
      BY <3>1, <3>7 DEF CustodyStored
    <3> QED
      BY <3>3, <3>4, <3>5, <3>6, <3>8 DEF BundleInv
  <2> QED
    BY <2>6, <2>10 DEF StoreInv
<1> QED
  BY <1>1, <1>2, <1>3, <1>4, <1>5, <1>6, <1>7, <1>8, <1>9, <1>10, <1>11, <1>12, <1>13,
     <1>14, <1>15, <1>16, <1>17, <1>18, <1>19, <1>20, <1>21, <1>22, Names
  DEF Next, Input, Storage, delete_bundle

(* The three layers together are an inductive invariant. *)
LEMMA StoreInvariant == Spec => [](Types /\ StoreInv)
<1>1. Init => Types /\ RefInv /\ StoreInv
  BY TypesInit, RefInvInit, StoreInvInit
<1>2. Types /\ RefInv /\ StoreInv /\ [Next]_vars => (Types /\ RefInv /\ StoreInv)'
  BY TypesStep, RefInvStep, StoreInvStep
<1> QED
  BY <1>1, <1>2, PTL DEF Spec

(* A row of the bundle table belongs to a bundle in use that knows it has  *)
(* a row, or its removal is queued, however del_ref, the batched writes of *)
(* the storage thread and a crash interleave.                              *)
THEOREM NoRowOrphaned == Spec => []NoOrphanRow
<1>1. Types /\ StoreInv => NoOrphanRow
  BY DEF NoOrphanRow, StoreInv, BundleInv, RowOwned, Types, StoreTypes
<1> QED
  BY <1>1, StoreInvariant, PTL

(* A pending bundle has its row or a write on its way, and so has a change *)
(* of its custody: the in_storage_queue flag, which merges the updates of  *)
(* a bundle into one event, swallows none of them.                         *)
THEOREM StorageCurrent == Spec => []StorageIsCurrent
<1>1. Types /\ StoreInv => StorageIsCurrent
  BY DEF StorageIsCurrent, StoreInv, BundleInv, Stored, CustodyStored, Types, StoreTypes
<1> QED
  BY <1>1, StoreInvariant, PTL
=============================================================================
