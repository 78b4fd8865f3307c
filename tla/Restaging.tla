----------------------------- MODULE Restaging -----------------------------
(***************************************************************************)
(* The Bundle Architectural Restaging Daemon (BARD) and the restage        *)
(* convergence layers: bundles that do not fit the quota of their          *)
(* destination or source go to files of an external store and come back    *)
(* when there is room.  BundleArchitecturalRestagingDaemon.cc,             *)
(* RestageConvergenceLayer.cc and the parts of BundleDaemonInput,          *)
(* BundleDaemonOutput and BundleDaemon that move a bundle between them.    *)
(*                                                                         *)
(* Every bundle counts as one block; quotas are numbers of bundles.  The   *)
(* steps of a thread are separate wherever it gives up the BARD's lock and *)
(* another thread can tell: the input thread between the query and the     *)
(* acceptance, a restager between writing, telling the BARD and telling    *)
(* the controller, a reloader between taking a bundle out of its file and  *)
(* taking the file off the list.                                           *)
(***************************************************************************)
EXTENDS Integers, FiniteSets, FiniteSetsExt, TLC

CONSTANTS
    NNames,         \* bundles are 1..NNames, ordered by their file names
    Dest, Source,   \* the nodes of each
    Objects,        \* Bundle objects that can be in memory at a time
    NLinks,         \* restage links 1..NLinks, ordered by name
    Registered,     \* those that exist; a quota may name one that does not
    Pooled,         \* part_of_pool()
    disk_quota,     \* files per link
    Quotas,         \* the values a quota record may take
    Setups,         \* the quota maps, and strictness, the daemon starts with
    MaxCommands, MaxFaults, Budget      \* bounds of the exploration

Names == 1..NNames
Links == 1..NLinks
NoLink == 0
By == {"dst", "src"}
Key(n, by) == <<by, IF by = "dst" THEN Dest[n] ELSE Source[n]>>
Keys == {Key(n, by) : n \in Names, by \in By}
Dirs == Links \X Keys

NoRecord == [internal |-> 0, external |-> 0, refuse |-> FALSE,
             auto_reload |-> FALSE, link |-> NoLink, record |-> FALSE]

VARIABLES
    strict,         \* params_.bard_quota_strict_
    quota,          \* quota_map_, NoRecord where there is no entry
    usage,          \* usage_map_: the counters of every key
    obj,            \* the Bundle objects and where they are
    disk,           \* files: <<link, key, name>>
    restage_dir_map,\* of every link's controller: directory -> listed files
    cl_state,       \* of every restage link
    reloadq,        \* of every reloader: the events it has been posted
    reloader,       \* what every reloader is doing
    leaked,         \* history: reservations whose bundle was deleted without release
    forced,         \* history: names an operator forced to external storage
    restarted,      \* history: the daemon has been started again
    arrivals, commands, faults

history == <<leaked, forced, restarted>>
bard == <<strict, quota, history>>
bounds == <<arrivals, commands, faults>>
vars == <<bard, usage, obj, disk, restage_dir_map, cl_state, reloadq, reloader, bounds>>

-----------------------------------------------------------------------------
(* Bundle objects.                                                         *)

Blank == [name |-> 0, at |-> "none", to |-> NoLink, pending |-> FALSE,
          reserved |-> {}, extreserved |-> {}, in_use |-> {}, by |-> "dst",
          link |-> NoLink, last_failed |-> FALSE, all_failed |-> FALSE, tried |-> {},
          stored |-> FALSE]

NewBundle(n) == [Blank EXCEPT !.name = n, !.at = "received"]
InMemory == {o \in Objects : obj[o].at # "none"}

\* A new bundle takes a free object; which one makes no difference.
Unused == Objects \ InMemory
Fresh == CHOOSE o \in Unused : TRUE

Idle == [kind |-> "idle", key |-> CHOOSE k \in Keys : TRUE, at |-> 0, done |-> 0]

-----------------------------------------------------------------------------
(* The BARD's account.  An operator takes and returns s = [u, b], the      *)
(* counters and the bundle asked about.                                    *)

has_quota(k) == quota[k].record /\ quota[k].internal > 0
committed_internal(u, k) == u[k].inuse + u[k].reserved
committed_external(u, k) == u[k].extinuse + u[k].extreserved
Own(S, by) == IF by \in S THEN 1 ELSE 0
Answer(ok, s) == [ok |-> ok, s |-> s]

FitsInternal(s, by) ==
    LET k == Key(s.b.name, by) IN
    has_quota(k) =>
        committed_internal(s.u, k) - Own(s.b.reserved, by) + 1 <= quota[k].internal

Reserve(s, by) ==
    IF by \in s.b.reserved THEN s
    ELSE [u |-> [s.u EXCEPT ![Key(s.b.name, by)].reserved = @ + 1],
          b |-> [s.b EXCEPT !.reserved = @ \union {by}]]

\* Mutant: a key without a quota record reserves at every query.
query_accept_bundle_into_internal_storage_Again(s, by, reserve_space) ==
    LET ok == FitsInternal(s, by) IN
    Answer(ok, IF (ok /\ reserve_space) \/ ~quota[Key(s.b.name, by)].record
               THEN [u |-> [s.u EXCEPT ![Key(s.b.name, by)].reserved = @ + 1],
                     b |-> [s.b EXCEPT !.reserved = @ \union {by}]]
               ELSE s)

query_accept_bundle_into_internal_storage(s, by, reserve_space) ==
    LET ok == FitsInternal(s, by) IN
    Answer(ok, IF (ok /\ reserve_space) \/ ~quota[Key(s.b.name, by)].record
               THEN Reserve(s, by) ELSE s)

\* register_restage_cl: a link is known to the BARD once it has been scanned.
Known == {l \in Registered : cl_state[l] # "STARTING"}
Online(L) == {l \in L : l \in Registered /\ cl_state[l] = "ONLINE"}

\* The preferred link or, if it is pooled or unknown, the first of the pool.
find_restage_link_in_good_state(preferred) ==
    IF preferred \in Online(Links) THEN preferred
    ELSE IF (preferred \in Known => preferred \in Pooled) /\ Online(Pooled) # {}
         THEN Min(Online(Pooled)) ELSE NoLink

query_accept_bundle_into_external_storage(s, by) ==
    LET k == Key(s.b.name, by)
        fits == \/ quota[k].external = 0
                \/ committed_external(s.u, k) - Own(s.b.extreserved, by) + 1
                     <= quota[k].external
        to == find_restage_link_in_good_state(quota[k].link)
        ok == has_quota(k) /\ ~quota[k].refuse /\ fits /\ to # NoLink
    IN Answer(ok,
        IF ok THEN [u |-> IF by \in s.b.extreserved THEN s.u
                          ELSE [s.u EXCEPT ![k].extreserved = @ + 1],
                    b |-> [s.b EXCEPT !.extreserved = @ \union {by}, !.by = by, !.link = to]]
        ELSE s)

\* The code asks twice before it says yes, both times without reserving.
query_accept_bundle(s) ==
    LET d == query_accept_bundle_into_internal_storage(s, "dst", FALSE)
        r == query_accept_bundle_into_internal_storage(d.s, "src", FALSE)
    IN IF ~d.ok THEN query_accept_bundle_into_external_storage(r.s, "dst")
       ELSE IF ~r.ok THEN query_accept_bundle_into_external_storage(r.s, "src")
       ELSE Answer(TRUE, r.s)

query_accept_bundle_internal_storage_only(s) ==
    LET d == query_accept_bundle_into_internal_storage(s, "dst", TRUE)
        r == query_accept_bundle_into_internal_storage(d.s, "src", TRUE)
    IN Answer(d.ok /\ r.ok, r.s)

\* Only the directory's own quota is asked before a file is opened.
query_accept_reload_bundle(k) ==
    has_quota(k) => committed_internal(usage, k) + 1 <= quota[k].internal

\* What a bundle holds of key k under the set S of its reservations.
Held(b, S, k) == Cardinality({by \in S : Key(b.name, by) = k})

bundle_accepted(s) ==
    [u |-> [k \in Keys |-> [s.u[k] EXCEPT
                !.reserved = @ - Held(s.b, s.b.reserved, k),
                !.extreserved = @ - Held(s.b, s.b.extreserved, k),
                !.inuse = @ + Held(s.b, By, k)]],
     b |-> [s.b EXCEPT !.reserved = {}, !.extreserved = {}, !.link = NoLink,
                       !.in_use = By]]

\* Mutant: the file counts for both of the bundle's keys.
bundle_restaged_Twice(s) ==
    [u |-> [k \in Keys |-> [s.u[k] EXCEPT
                !.extreserved = @ - Held(s.b, s.b.extreserved, k),
                !.extinuse = @ + Held(s.b, By, k)]],
     b |-> [s.b EXCEPT !.extreserved = {}, !.link = NoLink]]

bundle_restaged(s) ==
    [u |-> [k \in Keys |-> [s.u[k] EXCEPT
                !.extreserved = @ - Held(s.b, s.b.extreserved, k),
                !.extinuse = @ + Held(s.b, {s.b.by}, k)]],
     b |-> [s.b EXCEPT !.extreserved = {}, !.link = NoLink]]

bundle_deleted(s) ==
    [k \in Keys |-> [s.u[k] EXCEPT
        !.reserved = @ - Held(s.b, s.b.reserved, k),
        !.extreserved = @ - Held(s.b, s.b.extreserved, k),
        !.inuse = @ - Held(s.b, s.b.in_use, k)]]

restaged_bundle_deleted(u, k) == [u EXCEPT ![k].extinuse = IF @ >= 1 THEN @ - 1 ELSE @]

max_internal_committed_quota_percent(u, k) ==
    IF has_quota(k) THEN (100 * committed_internal(u, k)) \div quota[k].internal ELSE 0

\* Mutant: an auto-reload is considered only for the destination.
AutoReload_DstOnly(u, b, due) ==
    {k \in {Key(b.name, "dst")} :
        /\ u[k].extinuse > 0 /\ quota[k].auto_reload
        /\ \/ u[k].inuse = 0
           \/ max_internal_committed_quota_percent(u, k) <= 20 /\ due}

\* The keys whose files the deletion of b has reloaded; due: the last reload
\* of the key is more than five seconds back.
AutoReload(u, b, due) ==
    {k \in {Key(b.name, by) : by \in By} :
        /\ u[k].extinuse > 0 /\ quota[k].auto_reload
        /\ \/ u[k].inuse = 0
           \/ max_internal_committed_quota_percent(u, k) <= 20 /\ due}

\* bardcmd_reload and bardcmd_del_restaged: every controller that has the
\* directory posts an event to its reloader.
Post(q, kind, K) ==
    [l \in Links |-> q[l] \union
        {<<kind, k>> : k \in {j \in K : j \in DOMAIN restage_dir_map[l]}}]

\* bundle_deleted for s, with the reloads it starts.
ReleaseAll(s) ==
    LET u == bundle_deleted(s) IN
    /\ usage' = u
    /\ \E due \in BOOLEAN : reloadq' = Post(reloadq, "reload", AutoReload(u, s.b, due))

State(o) == [u |-> usage, b |-> obj[o]]
Put(o, s) == usage' = s.u /\ obj' = [obj EXCEPT ![o] = s.b]
Move(o, at) == obj' = [obj EXCEPT ![o].at = at]

\* The last but one reference is dropped: bard_bundle_deleted.
Freed(n) == [Blank EXCEPT !.name = n, !.at = "freed"]
Free(o, s) == ReleaseAll(s) /\ obj' = [obj EXCEPT ![o] = Freed(s.b.name)]

-----------------------------------------------------------------------------
(* Reception.                                                              *)

\* An arrival costs two, a command or a fault one.
Afford(cost) == 2 * arrivals + commands + faults + cost <= Budget
CanArrive == Afford(2) /\ Unused # {}
Store == <<disk, restage_dir_map, cl_state, reloader>>
Counters == <<commands, faults>>

\* From an application: the event is posted without a query.
ApplicationSends(n) ==
    /\ CanArrive
    /\ obj' = [obj EXCEPT ![Fresh] = NewBundle(n)]
    /\ arrivals' = arrivals + 1
    /\ UNCHANGED <<bard, usage, Store, reloadq, Counters>>

\* UDPConvergenceLayer::Receiver::process_data.
process_data(n) ==
    /\ CanArrive
    /\ LET a == query_accept_bundle([u |-> usage, b |-> NewBundle(n)]) IN
       IF a.ok THEN Put(Fresh, a.s) /\ UNCHANGED reloadq
       ELSE ReleaseAll(a.s) /\ UNCHANGED obj
    /\ arrivals' = arrivals + 1
    /\ UNCHANGED <<bard, Store, Counters>>

\* LTP's extraction of bundles from a block: a refused bundle with custody is
\* deleted, without release; any other is posted all the same.
extract_bundles_from_data(n, custody) ==
    /\ CanArrive
    /\ LET a == query_accept_bundle([u |-> usage, b |-> NewBundle(n)]) IN
       IF ~a.ok /\ custody
       THEN /\ usage' = a.s.u
            /\ leaked' = [k \in Keys |-> leaked[k] + Held(a.s.b, a.s.b.reserved, k)]
            /\ UNCHANGED obj
       ELSE Put(Fresh, a.s) /\ UNCHANGED leaked
    /\ arrivals' = arrivals + 1
    /\ UNCHANGED <<strict, quota, forced, restarted, Store, reloadq, Counters>>

\* BundleDaemonInput::handle_bundle_received, up to the BARD's answer.
Checking == {o \in Objects : obj[o].at = "checked"}

Refused(o) == ~query_accept_bundle(State(o)).ok

InputRefuse(o) ==
    /\ Checking = {} /\ obj[o].at = "received" /\ strict
    /\ \/ obj[o].all_failed
       \/ ~obj[o].last_failed /\ ~obj[o].stored /\ Refused(o)
    /\ LET s == IF obj[o].all_failed THEN State(o) ELSE query_accept_bundle(State(o)).s
       IN Free(o, s)
    /\ UNCHANGED <<bard, Store, bounds>>

InputQuery(o) ==
    /\ Checking = {} /\ obj[o].at = "received"
    /\ IF obj[o].all_failed \/ obj[o].last_failed
       THEN /\ obj[o].all_failed => ~strict
            /\ Move(o, "checked") /\ UNCHANGED usage
       ELSE LET a == query_accept_bundle(State(o)) IN
            /\ a.ok \/ ~strict \/ obj[o].stored
            /\ Put(o, [a.s EXCEPT !.b.at = "checked"])
    /\ UNCHANGED <<bard, Store, reloadq, bounds>>

\* find_duplicate finds the bundle itself if it is pending.
find_duplicate(o) == \E p \in Objects : obj[p].pending /\ obj[p].name = obj[o].name

\* The rest of the handler.  A link name of an earlier query is not cleared
\* by a later one that finds room.
InputAccept(o) ==
    /\ obj[o].at = "checked"
    /\ IF find_duplicate(o) THEN Free(o, State(o))
       ELSE IF obj[o].link # NoLink
       THEN /\ obj' = [obj EXCEPT ![o].at = "send", ![o].to = obj[o].link]
            /\ UNCHANGED <<usage, reloadq>>
       ELSE /\ Put(o, [bundle_accepted(State(o)) EXCEPT !.b.at = "idle", !.b.pending = TRUE])
            /\ UNCHANGED reloadq
    /\ UNCHANGED <<bard, Store, bounds>>

\* The main thread deletes a pending bundle: it was sent, delivered or has
\* expired.  A restage link does not cancel what it is given.
delete_bundle(o) ==
    /\ obj[o].pending
    /\ IF obj[o].at = "idle" THEN Free(o, State(o))
       ELSE obj' = [obj EXCEPT ![o].pending = FALSE] /\ UNCHANGED <<usage, reloadq>>
    /\ UNCHANGED <<bard, Store, bounds>>

\* The last reference: bundle_deleted once more.
handle_bundle_free(o) ==
    /\ obj[o].at = "freed"
    /\ ReleaseAll(State(o))
    /\ obj' = [obj EXCEPT ![o] = Blank]
    /\ UNCHANGED <<bard, Store, bounds>>

-----------------------------------------------------------------------------
(* Output: to the restage link, and its outcome.                           *)

handle_bundle_send(o) ==
    /\ obj[o].at = "send"
    /\ IF obj[o].to \in Registered THEN Move(o, "queued")
       ELSE obj' = [obj EXCEPT ![o].at = "received", ![o].link = NoLink, ![o].stored = FALSE]
    /\ UNCHANGED <<bard, usage, Store, reloadq, bounds>>

query_accept_bundle_after_failed_restage(b) ==
    LET pooled == b.link \in Known => b.link \in Pooled
        left == IF pooled THEN Online(Pooled) \ (b.tried \union {b.link}) ELSE {}
    IN IF b.all_failed THEN b
       ELSE [b EXCEPT !.last_failed = TRUE, !.tried = @ \union {b.link},
                      !.link = IF left = {} THEN NoLink ELSE Min(left),
                      !.all_failed = (left = {})]

\* Mutant: a failed bundle is released like a restaged one.
handle_bundle_restaged_Drops(o) ==
    /\ obj[o].at \in {"failed", "restaged"}
    /\ Free(o, State(o))
    /\ UNCHANGED <<bard, Store, bounds>>

\* handle_bundle_restaged of the output thread and, for a success, of the
\* main thread: a pending bundle is deleted unless the router keeps it.
handle_bundle_restaged(o) ==
    /\ \/ /\ obj[o].at = "failed"
          /\ obj' = [obj EXCEPT ![o] =
                [query_accept_bundle_after_failed_restage(@) EXCEPT !.at = "received",
                                                                      !.stored = FALSE]]
          /\ UNCHANGED <<usage, reloadq>>
       \/ obj[o].at = "restaged" /\ Free(o, State(o))
       \/ /\ obj[o].at = "restaged" /\ obj[o].pending
          /\ Move(o, "idle") /\ UNCHANGED <<usage, reloadq>>
    /\ UNCHANGED <<bard, Store, bounds>>

-----------------------------------------------------------------------------
(* A restage link: its controller, restager and reloader.                  *)

Listed(m, l) == UNION {{<<k, n>> : n \in m[l][k]} : k \in DOMAIN m[l]}

\* The controller's totals are those of the listed files.
update_volume_online_state(l, m) ==
    IF cl_state[l] = "ERROR" THEN cl_state
    ELSE [cl_state EXCEPT ![l] =
            IF disk_quota > 0 /\ Cardinality(Listed(m, l)) >= disk_quota
            THEN "FULL_QUOTA" ELSE "ONLINE"]

disk_quota_is_available(l) ==
    disk_quota > 0 => Cardinality(Listed(restage_dir_map, l)) + 1 <= disk_quota

Restaging(l) == {o \in Objects : obj[o].to = l /\ obj[o].at \in {"written", "informed"}}
FileOf(o) == <<obj[o].to, Key(obj[o].name, obj[o].by), obj[o].name>>

\* Open with O_EXCL, check the disk quota, write.
WriteFile(o) ==
    IF FileOf(o) \in disk THEN Move(o, "restaged") /\ UNCHANGED <<disk, cl_state, faults>>
    ELSE IF ~disk_quota_is_available(obj[o].to)
    THEN Move(o, "failed") /\ UNCHANGED <<disk, cl_state, faults>>
    ELSE \/ /\ Move(o, "written")
            /\ disk' = disk \union {FileOf(o)} /\ UNCHANGED <<cl_state, faults>>
         \/ /\ faults < MaxFaults /\ Afford(1) /\ faults' = faults + 1
            /\ Move(o, "failed")
            /\ \E st \in {"ERROR", "FULL_DISK", cl_state[obj[o].to]} :
                  cl_state' = [cl_state EXCEPT ![obj[o].to] = st]
            /\ UNCHANGED disk

process_bundle(o) ==
    /\ obj[o].at = "queued" /\ Restaging(obj[o].to) = {} /\ obj[o].to \in Known
    /\ WriteFile(o)
    /\ UNCHANGED <<bard, usage, restage_dir_map, reloadq, reloader, arrivals, commands>>

\* bard_bundle_restaged
TellBard(o) ==
    /\ obj[o].at = "written"
    /\ Put(o, [bundle_restaged(State(o)) EXCEPT !.b.at = "informed"])
    /\ UNCHANGED <<bard, Store, reloadq, bounds>>

\* ExternalStorageController::bundle_restaged; a listed file is left alone.
TellController(o) ==
    /\ obj[o].at = "informed"
    /\ LET l == obj[o].to
           k == Key(obj[o].name, obj[o].by)
           dir == restage_dir_map[l]
           m == [restage_dir_map EXCEPT ![l] = (k :> {obj[o].name}) @@ dir]
           n == [restage_dir_map EXCEPT ![l][k] = @ \union {obj[o].name}]
           new == IF k \in DOMAIN dir THEN n ELSE m
       IN /\ restage_dir_map' = new
          /\ cl_state' = IF new = restage_dir_map THEN cl_state
                         ELSE update_volume_online_state(l, new)
    /\ Move(o, "restaged")
    /\ UNCHANGED <<bard, usage, disk, reloadq, reloader, bounds>>

Files(l, k) == restage_dir_map[l][k]
After(l, k, n) == LET later == {x \in Files(l, k) : x > n} IN IF later = {} THEN 0 ELSE Min(later)

ReloadStart(l) ==
    /\ reloader[l].kind = "idle"
    /\ \E ev \in reloadq[l] :
        /\ reloadq' = [reloadq EXCEPT ![l] = @ \ {ev}]
        /\ reloader' = [reloader EXCEPT ![l] =
              IF After(l, ev[2], 0) = 0 THEN Idle
              ELSE [kind |-> ev[1], key |-> ev[2], at |-> After(l, ev[2], 0), done |-> 0]]
    /\ UNCHANGED <<bard, usage, obj, disk, restage_dir_map, cl_state, bounds>>

\* The file is unlinked and the iterator moves on; the list still has it.
TakeFile(l) ==
    LET r == reloader[l] IN
    /\ disk' = disk \ {<<l, r.key, r.at>>}
    /\ reloader' = [reloader EXCEPT ![l].done = r.at, ![l].at = After(l, r.key, r.at)]

\* One round of process_reload.
process_reload(l) ==
    /\ reloader[l].kind = "reload" /\ reloader[l].done = 0
    /\ LET k == reloader[l].key
           a == query_accept_bundle_internal_storage_only(
                    [u |-> usage, b |-> NewBundle(reloader[l].at)])
       IN IF ~query_accept_reload_bundle(k)
          THEN reloader' = [reloader EXCEPT ![l] = Idle] /\ UNCHANGED <<usage, obj, disk, reloadq>>
          ELSE IF <<l, k, reloader[l].at>> \notin disk      \* ENOENT: someone else removed it
          THEN TakeFile(l) /\ UNCHANGED <<usage, obj, reloadq>>
          ELSE IF ~a.ok
          THEN /\ ReleaseAll(a.s)
               /\ reloader' = [reloader EXCEPT ![l] = Idle] /\ UNCHANGED <<obj, disk>>
          ELSE /\ Unused # {}
               /\ Put(Fresh, [a.s EXCEPT !.u = restaged_bundle_deleted(@, k)])
               /\ TakeFile(l) /\ UNCHANGED reloadq
    /\ UNCHANGED <<bard, restage_dir_map, cl_state, bounds>>

\* One round of process_delete_bundles.
process_delete_bundles(l) ==
    /\ reloader[l].kind = "delete" /\ reloader[l].done = 0
    /\ TakeFile(l)
    /\ usage' = restaged_bundle_deleted(usage, reloader[l].key)
    /\ UNCHANGED <<bard, obj, restage_dir_map, cl_state, reloadq, bounds>>

\* ExternalStorageController::bundle_reloaded and bundle_deleted.
ForgetFile(l) ==
    /\ reloader[l].done # 0
    /\ LET m == [restage_dir_map EXCEPT ![l][reloader[l].key] = @ \ {reloader[l].done}] IN
       restage_dir_map' = m /\ cl_state' = update_volume_online_state(l, m)
    /\ reloader' = [reloader EXCEPT ![l] =
            IF @.at = 0 THEN Idle ELSE [@ EXCEPT !.done = 0]]
    /\ UNCHANGED <<bard, usage, obj, disk, reloadq, bounds>>

Found(l, k) == {n \in Names : <<l, k, n>> \in disk}

\* The directories are scanned for files that are not listed: when the link is
\* opened, which also tells the BARD, and in state ERROR, which remains.
validate_external_storage(l) ==
    LET dir == restage_dir_map[l]
        m == [restage_dir_map EXCEPT ![l] =
                [k \in DOMAIN dir \union {j \in Keys : Found(l, j) # {}} |->
                    Found(l, k) \union (IF k \in DOMAIN dir THEN dir[k] ELSE {})]]
    IN /\ cl_state[l] \in {"STARTING", "ERROR"}
       /\ restage_dir_map' = m
       /\ IF cl_state[l] = "ERROR" THEN UNCHANGED <<usage, cl_state>>
          ELSE /\ usage' = [k \in Keys |->
                    [usage[k] EXCEPT !.extinuse = @ + Cardinality(Found(l, k))]]
               /\ cl_state' = update_volume_online_state(l, m)
       /\ UNCHANGED <<bard, obj, disk, reloadq, reloader, bounds>>

update_volume_usage_statistics(l) ==
    /\ cl_state[l] = "FULL_DISK"
    /\ cl_state' = update_volume_online_state(l, restage_dir_map)
    /\ UNCHANGED <<bard, usage, obj, disk, restage_dir_map, reloadq, reloader, bounds>>

-----------------------------------------------------------------------------
(* The operator.                                                           *)

Command == commands < MaxCommands /\ Afford(1) /\ commands' = commands + 1

bardcmd_reload(k) ==
    /\ Command /\ reloadq' = Post(reloadq, "reload", {k})
    /\ UNCHANGED <<bard, usage, obj, Store, arrivals, faults>>

bardcmd_del_restaged(k) ==
    /\ Command /\ reloadq' = Post(reloadq, "delete", {k})
    /\ UNCHANGED <<bard, usage, obj, Store, arrivals, faults>>

\* bardcmd_reload_all and bardcmd_del_all_restaged_bundles; the controllers do
\* the first by themselves every auto_reload_interval, if one is set.
AllFiles(kind) ==
    /\ Command /\ reloadq' = Post(reloadq, kind, Keys)
    /\ UNCHANGED <<bard, usage, obj, Store, arrivals, faults>>

bardcmd_add_quota(k, q) ==
    /\ Command /\ quota[k] # q
    /\ quota' = [quota EXCEPT ![k] = q]
    /\ UNCHANGED <<strict, history, usage, obj, Store, reloadq, arrivals, faults>>

bardcmd_delete_quota(k) ==
    /\ Command /\ quota[k].record
    /\ quota' = [quota EXCEPT ![k] = NoRecord]
    /\ UNCHANGED <<strict, history, usage, obj, Store, reloadq, arrivals, faults>>

bardcmd_unlimited_quota(k) ==
    /\ Command
    /\ quota' = [quota EXCEPT ![k] = [NoRecord EXCEPT !.record = TRUE]]
    /\ UNCHANGED <<strict, history, usage, obj, Store, reloadq, arrivals, faults>>

\* BARDForceRestageThread sends pending bundles over the quota to its link.
bardcmd_force_restage(o, by) ==
    LET k == Key(obj[o].name, by) IN
    /\ obj[o].pending /\ obj[o].at = "idle"
    /\ quota[k].record /\ ~quota[k].refuse
    /\ has_quota(k) /\ usage[k].inuse > quota[k].internal
    /\ Command
    /\ obj' = [obj EXCEPT ![o].by = by, ![o].link = quota[k].link,
                          ![o].at = "send", ![o].to = quota[k].link]
    /\ forced' = forced \union {obj[o].name}
    /\ UNCHANGED <<strict, quota, leaked, restarted, usage, Store, reloadq, arrivals, faults>>

-----------------------------------------------------------------------------
(* The process dies and is started again: files and quotas are there, and  *)
(* of the pending bundles those that had been written to the datastore.    *)

NoUsage == [reserved |-> 0, inuse |-> 0, extreserved |-> 0, extinuse |-> 0]

Restart ==
    /\ faults < MaxFaults /\ Afford(1) /\ faults' = faults + 1
    /\ \E S \in SUBSET {o \in Objects : obj[o].pending} :
          obj' = [o \in Objects |->
                    IF o \in S THEN [NewBundle(obj[o].name) EXCEPT !.stored = TRUE] ELSE Blank]
    /\ usage' = [k \in Keys |-> NoUsage]
    /\ restage_dir_map' = [l \in Links |-> <<>>]
    /\ cl_state' = [l \in Links |-> IF l \in Registered THEN "STARTING" ELSE "ONLINE"]
    /\ reloadq' = [l \in Links |-> {}]
    /\ reloader' = [l \in Links |-> Idle]
    /\ leaked' = [k \in Keys |-> 0] /\ forced' = {} /\ restarted' = TRUE
    /\ UNCHANGED <<strict, quota, disk, arrivals, commands>>

-----------------------------------------------------------------------------
Init ==
    /\ \E setup \in Setups : strict = setup.strict /\ quota = setup.quota
    /\ usage = [k \in Keys |-> NoUsage]
    /\ obj = [o \in Objects |-> Blank]
    /\ disk = {}
    /\ restage_dir_map = [l \in Links |-> <<>>]
    /\ cl_state = [l \in Links |-> "ONLINE"]
    /\ reloadq = [l \in Links |-> {}]
    /\ reloader = [l \in Links |-> Idle]
    /\ leaked = [k \in Keys |-> 0]
    /\ forced = {}
    /\ restarted = FALSE
    /\ arrivals = 0 /\ commands = 0 /\ faults = 0

InputThread == \E o \in Objects : InputRefuse(o) \/ InputQuery(o) \/ InputAccept(o)
OutputThread == \E o \in Objects : handle_bundle_send(o) \/ handle_bundle_restaged(o)
MainThread == \E o \in Objects : delete_bundle(o) \/ handle_bundle_free(o)
Restager(l) == \E o \in Objects :
    obj[o].to = l /\ (process_bundle(o) \/ TellBard(o) \/ TellController(o))
Reloader(l) ==
    ReloadStart(l) \/ process_reload(l) \/ process_delete_bundles(l) \/ ForgetFile(l)
Controller(l) == validate_external_storage(l) \/ update_volume_usage_statistics(l)

Arrivals ==
    \E n \in Names :
        \/ ApplicationSends(n) \/ process_data(n)
        \/ \E custody \in BOOLEAN : extract_bundles_from_data(n, custody)
Commands ==
    \/ \E k \in Keys :
          \/ bardcmd_reload(k) \/ bardcmd_del_restaged(k) \/ bardcmd_delete_quota(k)
          \/ bardcmd_unlimited_quota(k)
          \/ \E q \in Quotas : bardcmd_add_quota(k, q)
          \/ \E o \in Objects, by \in By : obj[o].name # 0 /\ Key(obj[o].name, by) = k
                /\ bardcmd_force_restage(o, by)
    \/ \E kind \in {"reload", "delete"} : AllFiles(kind)

Next ==
    \/ Arrivals \/ Commands \/ Restart \/ InputThread \/ OutputThread \/ MainThread
    \/ \E l \in Links : Restager(l) \/ Reloader(l) \/ Controller(l)

Spec == Init /\ [][Next]_vars

\* While some thread can go on, one does; every pending bundle is sent,
\* delivered or expires some day.
Fairness ==
    WF_vars(InputThread \/ OutputThread \/ MainThread
              \/ \E l \in Links : Restager(l) \/ Reloader(l))
FairSpec == Spec /\ Fairness

-----------------------------------------------------------------------------
\* The BARD's internal counters are the bundles they stand for: in use are the
\* pending bundles of the key, reserved what bundles on their way in hold, and
\* a bundle on its way to a file holds at most its external reservation.  No
\* path of a bundle takes or gives back twice, apart from the reservations that
\* LTP's refusal of a custody bundle leaves behind and from forced restaging.
UsageMatches ==
    forced = {} =>
        \A k \in Keys :
            /\ usage[k].inuse = MapThenSumSet(
                  LAMBDA o : IF obj[o].pending THEN Held(obj[o], By, k) ELSE 0, InMemory)
            /\ usage[k].reserved = leaked[k] + MapThenSumSet(
                  LAMBDA o : Held(obj[o], obj[o].reserved, k), InMemory)
            /\ usage[k].extreserved = MapThenSumSet(
                  LAMBDA o : Held(obj[o], obj[o].extreserved, k), InMemory)
            /\ \A o \in InMemory : obj[o].pending =>
                  obj[o].reserved = {} /\ obj[o].extreserved = {}

\* The external counter of a key is the number of its files, except for those
\* written and not yet reported, as long as no link is in state ERROR (whose
\* scan may list, and reload, a file before its restager has reported it).
ExternalAccounted ==
    (\A l \in Links : cl_state[l] # "ERROR") =>
        \A k \in Keys :
            Cardinality({f \in disk : f[2] = k /\ f[1] \in Known})
              = usage[k].extinuse + Cardinality({o \in InMemory :
                    obj[o].at = "written" /\ Key(obj[o].name, obj[o].by) = k})

\* A copy is a file, or an object whose contents are not in a file already.
InSystem(n) ==
    \/ \E o \in InMemory :
          /\ obj[o].name = n
          /\ obj[o].pending \/ obj[o].at \notin {"written", "informed", "restaged", "freed"}
    \/ \E f \in disk : f[3] = n

\* Moving between memory and files loses no bundle: the last copy of one that
\* was not forced out goes only when the main thread deletes it, the operator
\* deletes the files, or a strict quota refuses it.
KeptUntilDropped ==
    [][\A n \in Names \ forced : InSystem(n) /\ ~InSystem(n)' =>
          \/ \E o \in Objects : delete_bundle(o) \/ InputRefuse(o)
          \/ \E l \in Links : process_delete_bundles(l)
          \/ Restart]_vars

\* Nothing that could start a reload is left: no bundle in memory whose
\* deletion would, and no event at a reloader.
Quiet == InMemory = {} /\ \A l \in Links : reloadq[l] = {} /\ reloader[l].kind = "idle"

\* No file is left without a reload to come, if every quota reloads by itself
\* and the operator does nothing: the deletion of the last bundle in use starts
\* the reload, also when a file is then being written and not listed yet, when
\* the two keys of a bundle have a quota each, and when a reload has stopped
\* half way because the room was gone.
NoStrandedFiles ==
    Quiet /\ commands = 0 /\ ~restarted /\ (\A k \in Keys : quota[k].record => quota[k].auto_reload) =>
        \A l \in Links : Listed(restage_dir_map, l) = {}

\* The same as a promise under fairness: what is listed at a restage link is
\* reloaded in the end.
ExternalDrains ==
    (\A k \in Keys : quota[k].record => quota[k].auto_reload) =>
        <>[](commands > 0 \/ restarted \/ \A l \in Links : Listed(restage_dir_map, l) = {})
=============================================================================
