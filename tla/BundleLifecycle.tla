--------------------------- MODULE BundleLifecycle ---------------------------
(***************************************************************************)
(* The life of the bundles of one node, from reception to the removal of   *)
(* their database row: reference counts and lists (Bundle, BundleList),    *)
(* the threads that receive, delete and free bundles (BundleDaemonInput,   *)
(* BundleDaemon, BundleDaemonCleanup, the expiration timers), the storage  *)
(* thread with its batched database updates (BundleDaemonStorage), the     *)
(* payload space account (BundleStore), orderly shutdown, crash and        *)
(* reload.                                                                 *)
(*                                                                         *)
(* A reference count is the set of its holders, so that "one reference     *)
(* left" is "the set is a singleton".  A thread that works through         *)
(* BundleDaemon::delete_bundle or through the receive handler stands at a  *)
(* named step; every lock region is one step, and the other threads run    *)
(* between them.                                                           *)
(***************************************************************************)
EXTENDS Integers, Sequences, FiniteSets, FiniteSetsExt

CONSTANTS
    Bundles,        \* bundle ids; an id is used for one reception only
    payload_length, \* [Bundles -> Nat], the payload length of each
    block_size,     \* DTNStorageConfig::block_size_
    payload_quota,  \* DTNStorageConfig::payload_quota_, 0 for no quota
    bard_quota_strict, \* BundleDaemon::params_.bard_quota_strict_
    MaxArrivals,    \* bound on the bundles received
    MaxRestarts     \* bound on crashes and restarts

ASSUME LifecycleAssumption ==
    /\ payload_length \in [Bundles -> Nat]
    /\ block_size \in Nat \ {0}
    /\ payload_quota \in Nat
    /\ bard_quota_strict \in BOOLEAN
    /\ MaxArrivals \in Nat
    /\ MaxRestarts \in Nat

VARIABLES
    arrived,    \* ids received so far
    refs,       \* holders of a reference to each bundle ({}: no object)
    freed,      \* Bundle::freed_
    in_storage_queue, in_datastore, queued_for_datastore, deleting,
    payload_space_reserved, \* the flags of Bundle, as sets of ids
    local_custody,          \* Bundle::local_custody
    run,        \* where the input and the main thread stand
    eventq,     \* BundleDaemonStorage::me_eventq_
    add_update, \* add_update_bundles_
    to_delete,  \* delete_bundles_
    writing,    \* the update pass of the storage thread
    db,         \* the bundle table: ids -> row
    files,      \* payload files on disk
    total,      \* BundleStore::total_size_ and total_disk_size_
    down,       \* progress of an orderly shutdown
    late,       \* ids added to the pending list while shutting down
    reloaded,   \* ids whose reception event has source EVENTSRC_STORE
    restarts    \* restarts so far (bounded)

flags == <<in_storage_queue, in_datastore, queued_for_datastore, deleting,
           payload_space_reserved>>
store == <<add_update, to_delete, writing, db>>
node  == <<down, late, reloaded, restarts>>
vars  == <<arrived, refs, freed, flags, local_custody, run, eventq, store,
           files, total, node>>

\* Who can hold a reference: the lists of BundleDaemon (the pending list
\* stands for itself and for dupefinder_bundles_, which follows it), the
\* expiration timer, the events that carry a bundle (a reception is
\* "arriving" on the input thread and "received" on the main thread), the
\* receiving convergence layer, the queues of links and registrations, and
\* the temporary reference of the storage thread.
Lists   == {"all", "deleting", "pending", "custody"}
Events  == {"arriving", "received", "expired", "transmitted", "request", "signal"}
Holders == Lists \union Events \union {"incoming", "timer", "link", "storage"}

Threads     == {"input", "main"}
InputSteps  == {"quota", "accept", "add", "timer", "custody", "listed", "post"}
DeleteSteps == {"release", "erase custody", "push deleting", "erase pending",
                "erase all", "drop event"}
Idle        == [at |-> "idle"]

\* One row of the bundle table: the custody flag it was written with.
Row == [custody : BOOLEAN]

\* The flag of a delete event: size_and_flag_ is the durable size, negated
\* when the row was not written yet.
StorageEvents ==
    [type : {"update"}, id : Bundles] \union
    [type : {"delete"}, id : Bundles, size_and_flag : Int]

TypeOK ==
    /\ arrived \subseteq Bundles
    /\ refs \in [Bundles -> SUBSET Holders]
    /\ freed \subseteq Bundles
    /\ in_storage_queue \subseteq Bundles
    /\ in_datastore \subseteq Bundles
    /\ queued_for_datastore \subseteq Bundles
    /\ deleting \subseteq Bundles
    /\ payload_space_reserved \subseteq Bundles
    /\ local_custody \subseteq Bundles
    /\ run \in [Threads -> {Idle} \union
                   [at : InputSteps \union DeleteSteps, b : Bundles, ref : Events]]
    /\ eventq \in Seq(StorageEvents)
    /\ add_update \subseteq Bundles
    /\ to_delete \subseteq [id : Bundles, size_and_flag : Int]
    /\ writing \in [at : {"idle", "deletes", "adds"}] \union
                   [at : {"found", "written"}, b : Bundles]
    /\ DOMAIN db \subseteq Bundles
    /\ \A b \in DOMAIN db : db[b] \in Row
    /\ files \subseteq Bundles
    /\ total \in [size : Int, disk : Int]
    /\ down \in {"up", "draining", "stopped"}
    /\ late \subseteq Bundles
    /\ reloaded \subseteq Bundles
    /\ restarts \in 0..MaxRestarts

-----------------------------------------------------------------------------
(***************************************************************************)
(* BundleStore: the payload space account.                                 *)
(***************************************************************************)

durable_size(b) == payload_length[b]

\* Disk space is counted in blocks, one more than the full ones.
DiskSize(n) == block_size * ((n + block_size) \div block_size)

Plus(t, n)  == [size |-> t.size + n, disk |-> t.disk + DiskSize(n)]
Minus(t, n) == [size |-> t.size - n, disk |-> t.disk - DiskSize(n)]

\* Mutant of reserve_payload_space: it does not look at the flag.
reserve_payload_space_Twice(b) ==
    /\ total' = Plus(total, durable_size(b))
    /\ payload_space_reserved' = payload_space_reserved \union {b}

reserve_payload_space(b) ==
    /\ total' = IF b \in payload_space_reserved THEN total
                ELSE Plus(total, durable_size(b))
    /\ payload_space_reserved' = payload_space_reserved \union {b}

Fits(b) == \/ payload_quota = 0
           \/ total.disk + DiskSize(durable_size(b)) <= payload_quota

-----------------------------------------------------------------------------
(***************************************************************************)
(* BundleDaemonStorage: the calls other threads make.                      *)
(***************************************************************************)

\* bundle_add_update, under the bundle lock: the first update since the last
\* write reserves space and posts an event, the others join it.  While the
\* daemon shuts down BundleDaemon::bundle_add_update_in_storage drops it.
bundle_add_update(b) ==
    IF down = "up"
    THEN /\ queued_for_datastore' = queued_for_datastore \union {b}
         /\ IF b \in in_storage_queue
            THEN UNCHANGED <<total, payload_space_reserved, in_storage_queue, eventq>>
            ELSE /\ reserve_payload_space(b)
                 /\ in_storage_queue' = in_storage_queue \union {b}
                 /\ eventq' = Append(eventq, [type |-> "update", id |-> b])
         /\ UNCHANGED <<in_datastore, deleting>>
    ELSE UNCHANGED <<flags, total, eventq>>

\* The event bundle_delete posts: none for a bundle that never reached the
\* storage queue.
DeleteEvents(b) ==
    LET size_and_flag == IF b \in in_datastore THEN durable_size(b)
                         ELSE -durable_size(b)
    IN  IF b \in in_storage_queue \union in_datastore
        THEN <<[type |-> "delete", id |-> b, size_and_flag |-> size_and_flag]>>
        ELSE <<>>

bundle_delete(b) ==
    IF down = "up"
    THEN /\ deleting' = deleting \union {b}
         /\ eventq' = eventq \o DeleteEvents(b)
    ELSE UNCHANGED <<deleting, eventq>>

-----------------------------------------------------------------------------
(***************************************************************************)
(* Bundle::del_ref.  The thread that leaves one reference, the one of the  *)
(* list the bundle is on, asks for the removal of the row or gives the     *)
(* payload space back, marks the bundle freed, removes its payload file    *)
(* and posts the free event.                                               *)
(***************************************************************************)

Free(b) ==
    /\ freed' = freed \union {b}
    /\ IF b \in queued_for_datastore
       THEN /\ bundle_delete(b)
            /\ UNCHANGED <<total, payload_space_reserved>>
       ELSE /\ total' = IF b \in payload_space_reserved
                        THEN Minus(total, durable_size(b)) ELSE total
            /\ payload_space_reserved' = payload_space_reserved \ {b}
            /\ UNCHANGED <<deleting, eventq>>
    /\ queued_for_datastore' = queued_for_datastore \ {b}
    /\ files' = IF down = "up" THEN files \ {b} ELSE files
    /\ UNCHANGED <<in_storage_queue, in_datastore>>

del_ref(b, hs) ==
    /\ refs' = [refs EXCEPT ![b] = @ \ hs]
    /\ IF \E h \in Holders : refs[b] \ hs = {h}
       THEN Free(b)
       ELSE UNCHANGED <<freed, flags, total, eventq, files>>

-----------------------------------------------------------------------------
(***************************************************************************)
(* Reception: the convergence layers, then                                 *)
(* BundleDaemonInput::handle_bundle_received.                              *)
(***************************************************************************)

Goto(t, step) == run' = [run EXCEPT ![t].at = step]
At(t, step)   == run[t].at = step

\* A convergence layer starts a bundle: its first reference puts it on
\* all_bundles_.  Space is reserved at once where it fits
\* (try_reserve_payload_space), or left to the input thread.
StartIncoming(b) ==
    /\ down = "up"
    /\ b \notin arrived
    /\ Cardinality(arrived) < MaxArrivals
    /\ arrived' = arrived \union {b}
    /\ refs' = [refs EXCEPT ![b] = {"all", "incoming"}]
    /\ files' = files \union {b}
    /\ \/ Fits(b) /\ reserve_payload_space(b)
       \/ UNCHANGED <<total, payload_space_reserved>>
    /\ UNCHANGED <<freed, in_storage_queue, in_datastore, queued_for_datastore,
                   deleting, local_custody, run, eventq, store, node>>

\* The payload is complete: BundleReceivedEvent to the input thread.
PostReceived(b) ==
    /\ "incoming" \in refs[b]
    /\ refs' = [refs EXCEPT ![b] = (@ \ {"incoming"}) \union {"arriving"}]
    /\ UNCHANGED <<arrived, freed, flags, local_custody, run, eventq, store,
                   files, total, node>>

\* The connection breaks first and the convergence layer drops its reference.
AbandonIncoming(b) ==
    /\ "incoming" \in refs[b]
    /\ del_ref(b, {"incoming"})
    /\ UNCHANGED <<arrived, local_custody, run, store, node>>

\* query_accept_bundle_based_on_quotas.  A bundle that does not fit is
\* deleted when quotas are strict and it does not come from the store, and
\* goes on without reservation otherwise.
QueryQuota(b) ==
    /\ run["input"] = Idle
    /\ "arriving" \in refs[b]
    /\ LET accepted == b \in payload_space_reserved \/ Fits(b)
           step == IF ~accepted /\ bard_quota_strict /\ b \notin reloaded
                   THEN "release" ELSE "accept"
       IN /\ IF accepted THEN reserve_payload_space(b)
             ELSE UNCHANGED <<total, payload_space_reserved>>
          /\ run' = [run EXCEPT !["input"] = [at |-> step, b |-> b, ref |-> "arriving"]]
    /\ UNCHANGED <<arrived, refs, freed, in_storage_queue, in_datastore,
                   queued_for_datastore, deleting, local_custody, eventq,
                   store, files, node>>

\* Validation, BundleRouter::accept_bundle and the duplicate check: a bundle
\* they refuse is deleted at once.
AcceptOrReject ==
    /\ At("input", "accept")
    /\ \/ Goto("input", "add")
       \/ Goto("input", "release")
    /\ UNCHANGED <<arrived, refs, freed, flags, local_custody, eventq, store,
                   files, total, node>>

\* add_to_pending: the pending list, then store_add unless it is reloaded.
add_to_pending ==
    /\ At("input", "add")
    /\ LET b == run["input"].b IN
       /\ refs' = [refs EXCEPT ![b] = @ \union {"pending"}]
       /\ late' = IF down = "up" \/ b \in reloaded THEN late
                  ELSE late \union {b}
       /\ IF b \in reloaded THEN UNCHANGED <<flags, total, eventq>>
          ELSE bundle_add_update(b)
    /\ Goto("input", "timer")
    /\ UNCHANGED <<arrived, freed, local_custody, store, files, down,
                   reloaded, restarts>>

StartExpirationTimer ==
    /\ At("input", "timer")
    /\ refs' = [refs EXCEPT ![run["input"].b] = @ \union {"timer"}]
    /\ Goto("input", "custody")
    /\ UNCHANGED <<arrived, freed, flags, local_custody, eventq, store, files,
                   total, node>>

\* accept_custody, up to store_update: the signal to the previous custodian
\* and the flag come before the bundle is queued for the database.  A bundle
\* reloaded in custody goes on the list again; one not in custody passes by.
accept_custody ==
    /\ At("input", "custody")
    /\ LET b == run["input"].b IN
       \/ /\ b \notin reloaded
          /\ local_custody' = local_custody \union {b}
          /\ bundle_add_update(b)
          /\ Goto("input", "listed")
       \/ /\ Goto("input", IF b \in local_custody THEN "listed" ELSE "post")
          /\ UNCHANGED <<local_custody, flags, total, eventq>>
    /\ UNCHANGED <<arrived, refs, freed, store, files, node>>

\* custody_bundles_->push_back.
PushCustody ==
    /\ At("input", "listed")
    /\ refs' = [refs EXCEPT ![run["input"].b] = @ \union {"custody"}]
    /\ Goto("input", "post")
    /\ UNCHANGED <<arrived, freed, flags, local_custody, eventq, store, files,
                   total, node>>

\* Mutant of PostToMain: the reference is dropped before the new event
\* takes its own.
PostToMain_NewEvent ==
    /\ At("input", "post")
    /\ LET b == run["input"].b IN
       /\ refs' = [refs EXCEPT ![b] = (@ \ {"arriving"}) \union {"received"}]
       /\ IF \E h \in Holders : refs[b] \ {"arriving"} = {h} THEN Free(b)
          ELSE UNCHANGED <<freed, flags, total, eventq, files>>
    /\ run' = [run EXCEPT !["input"] = Idle]
    /\ UNCHANGED <<arrived, local_custody, store, node>>

\* The same event, with its reference, goes on to the main thread.
PostToMain ==
    /\ At("input", "post")
    /\ refs' = [refs EXCEPT ![run["input"].b] = (@ \ {"arriving"}) \union {"received"}]
    /\ run' = [run EXCEPT !["input"] = Idle]
    /\ UNCHANGED <<arrived, freed, flags, local_custody, eventq, store, files,
                   total, node>>

-----------------------------------------------------------------------------
(***************************************************************************)
(* BundleDaemon::delete_bundle, by the input or the main thread t.         *)
(***************************************************************************)

\* release_custody, up to store_update.
release_custody(t) ==
    /\ At(t, "release")
    /\ LET b == run[t].b IN
       IF b \in local_custody
       THEN /\ local_custody' = local_custody \ {b}
            /\ bundle_add_update(b)
            /\ Goto(t, "erase custody")
       ELSE /\ Goto(t, "push deleting")
            /\ UNCHANGED <<local_custody, flags, total, eventq>>
    /\ UNCHANGED <<arrived, refs, freed, store, files, node>>

\* custody_bundles_->erase.  A custody signal ends in try_to_delete, which
\* leaves the bundle when it is not pending or the router wants to keep it.
EraseCustody(t) ==
    /\ At(t, "erase custody")
    /\ del_ref(run[t].b, {"custody"})
    /\ \/ Goto(t, "push deleting")
       \/ run[t].ref = "signal" /\ Goto(t, "drop event")
    /\ UNCHANGED <<arrived, local_custody, store, node>>

PushDeleting(t) ==
    /\ At(t, "push deleting")
    /\ refs' = [refs EXCEPT ![run[t].b] = @ \union {"deleting"}]
    /\ Goto(t, "erase pending")
    /\ UNCHANGED <<arrived, freed, flags, local_custody, eventq, store, files,
                   total, node>>

\* delete_from_pending: cancels the timer, when the bundle is pending.
delete_from_pending(t) ==
    /\ At(t, "erase pending")
    /\ LET b == run[t].b IN
       del_ref(b, IF "pending" \in refs[b] THEN {"timer", "pending"} ELSE {})
    /\ Goto(t, "erase all")
    /\ UNCHANGED <<arrived, local_custody, store, node>>

\* Mutant of EraseAll: the bundle stays on all_bundles_.
EraseAll_Kept(t) ==
    /\ At(t, "erase all")
    /\ Goto(t, "drop event")
    /\ UNCHANGED <<arrived, refs, freed, flags, local_custody, eventq, store,
                   files, total, node>>

EraseAll(t) ==
    /\ At(t, "erase all")
    /\ del_ref(run[t].b, {"all"})
    /\ Goto(t, "drop event")
    /\ UNCHANGED <<arrived, local_custody, store, node>>

\* The handler returns and the event goes with its reference.
DropEvent(t) ==
    /\ At(t, "drop event")
    /\ del_ref(run[t].b, {run[t].ref})
    /\ run' = [run EXCEPT ![t] = Idle]
    /\ UNCHANGED <<arrived, local_custody, store, node>>

delete_bundle(t) ==
    \/ release_custody(t) \/ EraseCustody(t) \/ PushDeleting(t)
    \/ delete_from_pending(t) \/ EraseAll(t) \/ DropEvent(t)

-----------------------------------------------------------------------------
(***************************************************************************)
(* The main thread, the timers, the links and the console.                 *)
(***************************************************************************)

MainTakes(b, e, step) ==
    /\ down = "up"
    /\ run["main"] = Idle
    /\ e \in refs[b]
    /\ run' = [run EXCEPT !["main"] = [at |-> step, b |-> b, ref |-> e]]
    /\ UNCHANGED <<arrived, freed, flags, local_custody, eventq, store, files,
                   total, node>>

\* handle_bundle_received: the router sends or delivers the bundle, or keeps
\* it for later, or it is deleted (hop limit, try_to_delete).
handle_bundle_received(b) ==
    \/ /\ MainTakes(b, "received", "drop event")
       /\ refs' = [refs EXCEPT ![b] = @ \union {"link"}]
    \/ /\ \E step \in {"drop event", "release"} : MainTakes(b, "received", step)
       /\ UNCHANGED refs

\* handle_bundle_transmitted, _delivered: try_to_delete.
handle_bundle_transmitted(b) ==
    /\ \/ MainTakes(b, "transmitted", "drop event")
       \/ "pending" \in refs[b] /\ MainTakes(b, "transmitted", "release")
    /\ UNCHANGED refs

handle_bundle_expired(b) == MainTakes(b, "expired", "release") /\ UNCHANGED refs
handle_bundle_delete(b)  == MainTakes(b, "request", "release") /\ UNCHANGED refs

\* handle_custody_signal: looks the bundle up on custody_bundles_.
handle_custody_signal(b) ==
    /\ "custody" \in refs[b]
    /\ b \notin freed
    /\ down = "up"
    /\ run["main"] = Idle
    /\ refs' = [refs EXCEPT ![b] = @ \union {"signal"}]
    /\ run' = [run EXCEPT !["main"] = [at |-> "release", b |-> b, ref |-> "signal"]]
    /\ UNCHANGED <<arrived, freed, flags, local_custody, eventq, store, files,
                   total, node>>

\* The link or the registration is done with the bundle.
LinkDone(b) ==
    /\ "link" \in refs[b]
    /\ refs' = [refs EXCEPT ![b] = (@ \ {"link"}) \union {"transmitted"}]
    /\ UNCHANGED <<arrived, freed, flags, local_custody, run, eventq, store,
                   files, total, node>>

\* ExpirationTimer::timeout; timers pause when the shutdown starts.
Timeout(b) ==
    /\ down = "up"
    /\ "timer" \in refs[b]
    /\ refs' = [refs EXCEPT ![b] = (@ \ {"timer"}) \union {"expired"}]
    /\ UNCHANGED <<arrived, freed, flags, local_custody, run, eventq, store,
                   files, total, node>>

\* A console or router request names a bundle on all_bundles_.  A look up
\* of a bundle already freed stops the daemon in add_ref (see Restart).
RequestDelete(b) ==
    /\ down = "up"
    /\ "all" \in refs[b]
    /\ b \notin freed
    /\ refs' = [refs EXCEPT ![b] = @ \union {"request"}]
    /\ UNCHANGED <<arrived, freed, flags, local_custody, run, eventq, store,
                   files, total, node>>

\* BundleDaemon::handle_bundle_free, on the cleanup thread: the object goes.
handle_bundle_free(b) ==
    /\ b \in freed
    /\ refs' = [refs EXCEPT ![b] = {}]
    /\ freed' = freed \ {b}
    /\ in_storage_queue' = in_storage_queue \ {b}
    /\ in_datastore' = in_datastore \ {b}
    /\ queued_for_datastore' = queued_for_datastore \ {b}
    /\ deleting' = deleting \ {b}
    /\ payload_space_reserved' = payload_space_reserved \ {b}
    /\ local_custody' = local_custody \ {b}
    /\ files' = files \ {b}
    /\ UNCHANGED <<arrived, run, eventq, store, total, node>>

-----------------------------------------------------------------------------
(***************************************************************************)
(* BundleDaemonStorage: the thread.                                        *)
(***************************************************************************)

\* handle_store_bundle_update, handle_store_bundle_delete: the maps keep the
\* first entry of an id.
StorageEvent ==
    /\ writing = Idle
    /\ eventq # <<>>
    /\ LET e == Head(eventq) IN
       IF e.type = "update"
       THEN add_update' = add_update \union {e.id} /\ UNCHANGED to_delete
       ELSE /\ to_delete' = to_delete \union
                  (IF \E d \in to_delete : d.id = e.id THEN {}
                   ELSE {[id |-> e.id, size_and_flag |-> e.size_and_flag]})
            /\ UNCHANGED add_update
    /\ eventq' = Tail(eventq)
    /\ UNCHANGED <<arrived, refs, freed, flags, local_custody, run, writing,
                   db, files, total, node>>

\* update_database, when the interval has elapsed.
StartPass ==
    /\ writing = Idle
    /\ add_update # {} \/ to_delete # {}
    /\ writing' = [at |-> "deletes"]
    /\ UNCHANGED <<arrived, refs, freed, flags, local_custody, run, eventq,
                   add_update, to_delete, db, files, total, node>>

\* One delete.  A bundle that was never written only gives its space back;
\* BundleStore::del gives the space back when it found the row.
StorageDelete(d) ==
    /\ writing.at = "deletes"
    /\ d \in to_delete
    /\ IF d.size_and_flag < 0
       THEN total' = Minus(total, -d.size_and_flag) /\ UNCHANGED db
       ELSE /\ total' = IF d.id \in DOMAIN db THEN Minus(total, d.size_and_flag)
                        ELSE total
            /\ db' = [b \in DOMAIN db \ {d.id} |-> db[b]]
    /\ add_update' = add_update \ {d.id}
    /\ to_delete' = to_delete \ {d}
    /\ UNCHANGED <<arrived, refs, freed, flags, local_custody, run, eventq,
                   writing, files, node>>

StartAdds ==
    /\ writing.at = "deletes"
    /\ to_delete = {}
    /\ writing' = [at |-> "adds"]
    /\ UNCHANGED <<arrived, refs, freed, flags, local_custody, run, eventq,
                   add_update, to_delete, db, files, total, node>>

\* Mutant of find_for_storage: the storage thread takes no reference.
find_for_storage_NoRef(b) ==
    /\ writing.at = "adds"
    /\ b \in add_update
    /\ add_update' = add_update \ {b}
    /\ writing' = IF "all" \in refs[b] /\ b \notin freed
                  THEN [at |-> "found", b |-> b] ELSE writing
    /\ UNCHANGED <<arrived, refs, freed, flags, local_custody, run, eventq,
                   to_delete, db, files, total, node>>

\* BundleListIntMap::find_for_storage: no bundle when it has left
\* all_bundles_ or is freed.
find_for_storage(b) ==
    /\ writing.at = "adds"
    /\ b \in add_update
    /\ add_update' = add_update \ {b}
    /\ IF "all" \in refs[b] /\ b \notin freed
       THEN /\ refs' = [refs EXCEPT ![b] = @ \union {"storage"}]
            /\ writing' = [at |-> "found", b |-> b]
       ELSE UNCHANGED <<refs, writing>>
    /\ UNCHANGED <<arrived, freed, flags, local_custody, run, eventq,
                   to_delete, db, files, total, node>>

\* Mutant of StorageWrite: in_storage_queue is not cleared.
StorageWrite_StillQueued ==
    /\ writing.at = "found"
    /\ LET b == writing.b IN
       /\ in_datastore' = in_datastore \union {b}
       /\ db' = [x \in DOMAIN db \union {b} |->
                    IF x = b THEN [custody |-> b \in local_custody] ELSE db[x]]
    /\ writing' = [writing EXCEPT !.at = "written"]
    /\ UNCHANGED <<arrived, refs, freed, in_storage_queue, queued_for_datastore,
                   deleting, payload_space_reserved, local_custody, run, eventq,
                   add_update, to_delete, files, total, node>>

\* The add or the update, under the bundle lock: BundleStore::add, update.
StorageWrite ==
    /\ writing.at = "found"
    /\ LET b == writing.b IN
       /\ in_storage_queue' = in_storage_queue \ {b}
       /\ in_datastore' = in_datastore \union {b}
       /\ db' = [x \in DOMAIN db \union {b} |->
                    IF x = b THEN [custody |-> b \in local_custody] ELSE db[x]]
    /\ writing' = [writing EXCEPT !.at = "written"]
    /\ UNCHANGED <<arrived, refs, freed, queued_for_datastore, deleting,
                   payload_space_reserved, local_custody, run, eventq,
                   add_update, to_delete, files, total, node>>

StorageRelease ==
    /\ writing.at = "written"
    /\ del_ref(writing.b, {"storage"})
    /\ writing' = [at |-> "adds"]
    /\ UNCHANGED <<arrived, local_custody, run, add_update, to_delete, db, node>>

EndPass ==
    /\ writing.at = "adds"
    /\ add_update = {}
    /\ writing' = Idle
    /\ UNCHANGED <<arrived, refs, freed, flags, local_custody, run, eventq,
                   add_update, to_delete, db, files, total, node>>

Storage ==
    \/ StorageEvent \/ StartPass \/ StartAdds \/ StorageWrite
    \/ StorageRelease \/ EndPass
    \/ \E d \in to_delete : StorageDelete(d)
    \/ \E b \in Bundles : find_for_storage(b)

-----------------------------------------------------------------------------
(***************************************************************************)
(* Shutdown, crash and reload.                                             *)
(***************************************************************************)

\* handle_shutdown_request: shutting_down_ is set first ...
handle_shutdown_request ==
    /\ down = "up"
    /\ run["main"] = Idle
    /\ down' = "draining"
    /\ UNCHANGED <<arrived, refs, freed, flags, local_custody, run, eventq,
                   store, files, total, late, reloaded, restarts>>

\* ... the input queue runs dry, and commit_all_updates ends the storage.
commit_all_updates ==
    /\ down = "draining"
    /\ run["input"] = Idle
    /\ \A b \in Bundles : refs[b] \intersect {"incoming", "arriving"} = {}
    /\ eventq = <<>> /\ add_update = {} /\ to_delete = {} /\ writing = Idle
    /\ down' = "stopped"
    /\ UNCHANGED <<arrived, refs, freed, flags, local_custody, run, eventq,
                   store, files, total, late, reloaded, restarts>>

Space(B) == [size |-> MapThenSumSet(durable_size, B),
             disk |-> MapThenSumSet(LAMBDA b : DiskSize(durable_size(b)), B)]

\* The process stops, at any point or at the end of a shutdown, and starts
\* again with load_bundles: every row becomes a bundle with reserved space
\* and a reception event, unless its payload file is missing, in which case
\* its row is deleted (doa, in the order the table lists them).
Restart ==
    /\ restarts < MaxRestarts
    /\ restarts' = restarts + 1
    /\ LET rows == DOMAIN db
           good == rows \intersect files
           doa  == rows \ files
       IN /\ refs' = [b \in Bundles |-> IF b \in good THEN {"all", "arriving"} ELSE {}]
          /\ in_datastore' = good
          /\ queued_for_datastore' = good
          /\ payload_space_reserved' = good
          /\ local_custody' = {b \in good : db[b].custody}
          /\ reloaded' = good
          /\ total' = Space(rows)
          /\ \E n \in 0..Cardinality(doa) : \E order \in Bijection(1..n, doa) :
                eventq' = [i \in 1..n |-> [type |-> "delete", id |-> order[i],
                                           size_and_flag |-> durable_size(order[i])]]
    /\ freed' = {} /\ in_storage_queue' = {} /\ deleting' = {}
    /\ run' = [t \in Threads |-> Idle]
    /\ add_update' = {} /\ to_delete' = {} /\ writing' = Idle
    /\ down' = "up"
    /\ UNCHANGED <<arrived, db, files, late>>

Init ==
    /\ arrived = {} /\ refs = [b \in Bundles |-> {}] /\ freed = {}
    /\ in_storage_queue = {} /\ in_datastore = {} /\ queued_for_datastore = {}
    /\ deleting = {} /\ payload_space_reserved = {} /\ local_custody = {}
    /\ run = [t \in Threads |-> Idle]
    /\ eventq = <<>> /\ add_update = {} /\ to_delete = {} /\ writing = Idle
    /\ db = <<>> /\ files = {} /\ total = [size |-> 0, disk |-> 0]
    /\ down = "up" /\ late = {} /\ reloaded = {} /\ restarts = 0

\* What each thread does when it is given the processor.
Input == \/ \E b \in Bundles : QueryQuota(b)
         \/ AcceptOrReject \/ add_to_pending \/ StartExpirationTimer
         \/ accept_custody \/ PushCustody \/ PostToMain
         \/ delete_bundle("input")

MainEvent(b) == \/ handle_bundle_received(b) \/ handle_bundle_transmitted(b)
                \/ handle_bundle_expired(b) \/ handle_bundle_delete(b)

Next ==
    \/ Input \/ delete_bundle("main") \/ Storage
    \/ handle_shutdown_request \/ commit_all_updates \/ Restart
    \/ \E b \in Bundles :
          \/ StartIncoming(b) \/ PostReceived(b) \/ AbandonIncoming(b)
          \/ MainEvent(b) \/ handle_custody_signal(b) \/ LinkDone(b)
          \/ Timeout(b) \/ RequestDelete(b) \/ handle_bundle_free(b)

\* Every thread keeps running, every queued event is taken in the end, links
\* and registrations finish with a bundle or give it up, lifetimes expire.
Fairness ==
    /\ WF_vars(Input) /\ WF_vars(delete_bundle("main")) /\ WF_vars(Storage)
    /\ WF_vars(commit_all_updates)
    /\ \A b \in Bundles :
          /\ SF_vars(MainEvent(b))
          /\ WF_vars(PostReceived(b) \/ AbandonIncoming(b)) /\ WF_vars(LinkDone(b))
          /\ WF_vars(Timeout(b)) /\ WF_vars(handle_bundle_free(b))

Spec == Init /\ [][Next]_vars
FairSpec == Spec /\ Fairness

-----------------------------------------------------------------------------
(***************************************************************************)
(* Properties                                                              *)
(***************************************************************************)

Live(b) == refs[b] # {} /\ b \notin freed

UpdateQueued(b) == \/ \E i \in DOMAIN eventq : eventq[i] = [type |-> "update", id |-> b]
                   \/ b \in add_update
                   \/ writing.at = "found" /\ writing.b = b
DeleteQueued(b) == \/ \E i \in DOMAIN eventq : eventq[i].type = "delete" /\ eventq[i].id = b
                   \/ \E d \in to_delete : d.id = b

\* Once del_ref has marked a bundle freed nobody but the list it is on holds
\* it, so handle_bundle_free destroys no object in use
\* (ASSERT(bundle->refcount() == 1)).
FreedIsUnreferenced ==
    \A b \in freed : refs[b] \in {{"all"}, {"deleting"}}

RemovalQueued(b) ==
    \/ \E i \in DOMAIN eventq : /\ eventq[i].type = "delete" /\ eventq[i].id = b
                                /\ eventq[i].size_and_flag >= 0
    \/ \E d \in to_delete : d.id = b /\ d.size_and_flag >= 0

\* A row of the database belongs to a bundle the daemon knows or its removal
\* is on its way: whatever the interleaving of deletion and of a write, no
\* row outlives its bundle (until a shutdown stops the removals).
NoOrphanRow ==
    down = "up" => \A b \in DOMAIN db :
        (Live(b) /\ b \in in_datastore) \/ RemovalQueued(b)

\* What the datastore should hold it holds, or a write that will bring it up to
\* date is queued: the in_storage_queue flag never swallows an update.  A bundle
\* that is pending and not being deleted has its row (bundles taken in after
\* shutting_down_ was set are not stored), and the custody flag of a row is the
\* one of its bundle.
StorageIsCurrent ==
    /\ \A b \in Bundles :
          "pending" \in refs[b] /\ "deleting" \notin refs[b] /\ b \notin late
            => b \in DOMAIN db \/ (b \notin in_datastore /\ UpdateQueued(b))
    /\ \A b \in DOMAIN db :
          Live(b) /\ "deleting" \notin refs[b] /\ down = "up"
            => db[b].custody = (b \in local_custody) \/ UpdateQueued(b)

\* The space account holds exactly the payloads of live bundles and of
\* deletions still queued, in bytes; in blocks it may keep one block for each
\* empty bundle deleted before its first write.
SpaceAccounted ==
    LET held   == {b \in Bundles : \/ b \in payload_space_reserved /\ Live(b)
                                   \/ DeleteQueued(b)}
        emptied == {b \in arrived \ held : payload_length[b] = 0}
    IN  down = "up" =>
          /\ total.size = Space(held).size
          /\ \E B \in SUBSET emptied : total.disk = Space(held \union B).disk

\* A bundle stays on deleting_bundles_ for ever only when custody of it was
\* taken while it was being deleted and it is still on custody_bundles_.
DeletedIsFreed ==
    \A b \in Bundles :
        <>[]("deleting" \in refs[b] /\ down = "up") => <>[]("custody" \in refs[b])

=============================================================================
