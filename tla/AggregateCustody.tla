-------------------------- MODULE AggregateCustody --------------------------
(***************************************************************************)
(* BundleDaemonACS, the thread that aggregates custody signals, for one key *)
(* (custodian, disposition, reason) with ACS enabled.  Other threads post   *)
(* custody ids to its event queue; it keeps them run-length coded in a      *)
(* PendingAcs, saves that in the datastore, and posts the coded signal when *)
(* its timer expires, when the next id would make it too long, or when the  *)
(* operator has lowered the delay.                                          *)
(***************************************************************************)
EXTENDS Integers, Sequences, FiniteSets, FiniteSetsExt, Functions,
        SequencesExt, TLC

CONSTANTS
    MaxId,               \* custody ids are 1..MaxId; 0 is never issued
    SdnvRadix,           \* 128: an SDNV octet carries seven bits
    Modulus,             \* 2^64: the width of uint64_t
    Params,              \* the <<acs_delay_, acs_size_>> an operator may set
    StartParams,         \* the ones the configuration file sets
    MaxInputs,           \* bound on ids posted, commands and restarts together
    MaxQueue             \* bound on the event queue when an id is posted

ASSUME ConstantsAssumption ==
    /\ MaxId \in Nat \ {0}
    /\ SdnvRadix \in Nat \ {0, 1}
    /\ Modulus \in Nat
    /\ Modulus > MaxId
    /\ Params \subseteq Nat \X Nat
    /\ StartParams \in Params

VARIABLES
    eventq,              \* me_eventq_
    pacs,                \* the PendingAcs of the key, NoPacs before the first id
    store,               \* its acs_entry_map_ in the PendingAcsStore
    timer,               \* pacs_id_ of the scheduled AcsExpirationTimer, or 0
    dirty,               \* the handler has yet to call update_pending_acs_store
    params,              \* the endpoint's parameters and acs_params_revision_
    last_pacsid,         \* GlobalStore's counter, which is persistent
    acked,               \* ids a custodian reads out of the signals posted
    inputs               \* counter for the bound MaxInputs

thread == <<pacs, store, dirty, last_pacsid, acked>>
vars == <<eventq, thread, timer, params, inputs>>

Ids == 1..MaxId
NoPacs == [pacs_id |-> 0]
NoEntries == [l \in {} |-> 0]

-----------------------------------------------------------------------------
(***************************************************************************)
(* Words, SDNVs and entries.  The map of entries is a function on the left  *)
(* edges.                                                                   *)
(***************************************************************************)
WORD(n) == n % Modulus

encoding_len(val) ==
    CHOOSE n \in 1..val + 1 :
        /\ val < SdnvRadix ^ n
        /\ n = 1 \/ val >= SdnvRadix ^ (n - 1)

Entry(diff, fill) ==
    [diff_to_prev_right_edge |-> diff,
     length_of_fill |-> fill,
     sdnv_length |-> encoding_len(diff) + encoding_len(fill)]

RightEdge(em, l) == WORD(l + em[l].length_of_fill - 1)

Before(em, l) == {k \in DOMAIN em : k < l}

PrevRightEdge(em, l) ==
    IF Before(em, l) = {} THEN 0 ELSE RightEdge(em, Max(Before(em, l)))

lower_bound(em, id) == {l \in DOMAIN em : l >= id}

Covered(em) ==
    UNION {l .. l + em[l].length_of_fill - 1 : l \in DOMAIN em}

-----------------------------------------------------------------------------
(***************************************************************************)
(* determine_acs_changes: where an id goes.  A change holds the Pending ACS *)
(* as the function leaves it, whether there is an operation left to apply,  *)
(* the bytes this adds, and the map once it has been applied.               *)
(***************************************************************************)
Change(p, delta, em) ==
    [pacs |-> p, noop |-> FALSE, delta |-> delta, entries |-> em]

NoChange(p) ==
    [pacs |-> p, noop |-> TRUE, delta |-> 0, entries |-> p.acs_entry_map]

InsertFirstEntry(p, id) ==
    LET e == Entry(id, 1) IN Change(p, e.sdnv_length, id :> e)

InsertEntryAtEnd(p, id, last) ==
    LET em == p.acs_entry_map
        e == Entry(WORD(id - RightEdge(em, last)), 1)
    IN  Change(p, e.sdnv_length, (id :> e) @@ em)

ExtendLastEntry(p, last) ==
    LET em == p.acs_entry_map
        e == Entry(em[last].diff_to_prev_right_edge,
                   em[last].length_of_fill + 1)
    IN  Change(p, e.sdnv_length - em[last].sdnv_length, (last :> e) @@ em)

\* Mutant of FillGap: the id in the gap is not counted.
FillGap_OffByOne(p, found) ==
    LET em == p.acs_entry_map
        prev == Max(Before(em, found))
        e == Entry(em[prev].diff_to_prev_right_edge,
                   em[prev].length_of_fill + em[found].length_of_fill)
        old_size == em[found].sdnv_length + em[prev].sdnv_length
    IN  NoChange([p EXCEPT
            !.acs_entry_map =
                (prev :> e) @@ Restrict(em, DOMAIN em \ {found}),
            !.acs_payload_length = @ + e.sdnv_length - old_size])

FillGap(p, found) ==
    LET em == p.acs_entry_map
        prev == Max(Before(em, found))
        e == Entry(em[prev].diff_to_prev_right_edge,
                   em[prev].length_of_fill + em[found].length_of_fill + 1)
        old_size == em[found].sdnv_length + em[prev].sdnv_length
    IN  NoChange([p EXCEPT
            !.acs_entry_map =
                (prev :> e) @@ Restrict(em, DOMAIN em \ {found}),
            !.acs_payload_length = @ + e.sdnv_length - old_size])

PrependEntry(p, id, found) ==
    LET em == p.acs_entry_map
        e == Entry(WORD(em[found].diff_to_prev_right_edge - 1),
                   em[found].length_of_fill + 1)
    IN  Change(p, e.sdnv_length - em[found].sdnv_length,
               (id :> e) @@ Restrict(em, DOMAIN em \ {found}))

\* Mutant of ExtendPreviousEntry: the next entry keeps its difference.
ExtendPreviousEntry_NextKept(p, found) ==
    LET em == p.acs_entry_map
        prev == Max(Before(em, found))
        e == Entry(em[prev].diff_to_prev_right_edge,
                   em[prev].length_of_fill + 1)
    IN  Change(p, e.sdnv_length - em[prev].sdnv_length, (prev :> e) @@ em)

ExtendPreviousEntry(p, found) ==
    LET em == p.acs_entry_map
        prev == Max(Before(em, found))
        e == Entry(em[prev].diff_to_prev_right_edge,
                   em[prev].length_of_fill + 1)
        n == Entry(WORD(em[found].diff_to_prev_right_edge - 1),
                   em[found].length_of_fill)
    IN  Change(p, e.sdnv_length + n.sdnv_length
                  - (em[prev].sdnv_length + em[found].sdnv_length),
               (prev :> e) @@ (found :> n) @@ em)

InsertEntry(p, id, found) ==
    LET em == p.acs_entry_map
        e == Entry(WORD(em[found].diff_to_prev_right_edge - (found - id)), 1)
        n == Entry(found - id, em[found].length_of_fill)
    IN  Change(p, e.sdnv_length + n.sdnv_length - em[found].sdnv_length,
               (id :> e) @@ (found :> n) @@ em)

FillsGap(em, id, found) ==
    /\ id = found - 1
    /\ em[found].diff_to_prev_right_edge = 2
    /\ found # 2

ExtendsPrevious(em, id, found) ==
    /\ id \notin {found - 1, found}
    /\ id > 1
    /\ id = WORD(found - em[found].diff_to_prev_right_edge + 1)

determine_acs_changes(p, id) ==
    LET em == p.acs_entry_map
        found == Min(lower_bound(em, id))
        last == Max(DOMAIN em)
    IN  CASE em = NoEntries -> InsertFirstEntry(p, id)
          [] em # NoEntries /\ lower_bound(em, id) = {} ->
                IF id = last + em[last].length_of_fill
                THEN ExtendLastEntry(p, last)
                ELSE InsertEntryAtEnd(p, id, last)
          [] OTHER ->
                CASE id = found -> NoChange(p)
                  [] FillsGap(em, id, found) -> FillGap(p, found)
                  [] id = found - 1 /\ ~FillsGap(em, id, found) ->
                        PrependEntry(p, id, found)
                  [] ExtendsPrevious(em, id, found) ->
                        ExtendPreviousEntry(p, found)
                  [] OTHER -> InsertEntry(p, id, found)

-----------------------------------------------------------------------------
(***************************************************************************)
(* The signal on the wire: one <<difference, fill>> pair per entry, in the  *)
(* order of the left edges; and the ids the custodian's parser reads in it. *)
(* The parser rejects a signal whose left edge is 0 or whose fill overflows *)
(* a word, and keeps the first of two entries with one left edge.           *)
(***************************************************************************)
create_aggregate_custody_signal(em) ==
    [i \in 1..Cardinality(DOMAIN em) |->
        LET l == CHOOSE l \in DOMAIN em : Cardinality(Before(em, l)) = i - 1
        IN  <<WORD(l - PrevRightEdge(em, l)), em[l].length_of_fill>>]

parse_aggregate_custody_signal(signal) ==
    LET Read(read, fill) ==
            LET l == WORD(read.right + fill[1])
            IN  [valid |-> /\ read.valid
                           /\ l # 0
                           /\ fill[2] <= Modulus - l,
                 right |-> WORD(l + fill[2] - 1),
                 lefts |-> read.lefts \cup {l},
                 ids |-> IF l \in read.lefts THEN read.ids
                         ELSE read.ids \cup l .. l + fill[2] - 1]
        data == FoldLeft(Read,
                    [valid |-> TRUE, right |-> 0, lefts |-> {}, ids |-> {}],
                    signal)
    IN  IF data.valid THEN data.ids ELSE {}

SignalledIds(em) ==
    parse_aggregate_custody_signal(create_aggregate_custody_signal(em))

(***************************************************************************)
(* generate_acs leaves the Pending ACS cleared and with a new id, unless it *)
(* was empty.                                                               *)
(***************************************************************************)
generate_acs(p, id) ==
    IF p.acs_payload_length = 0 THEN p
    ELSE [p EXCEPT !.pacs_id = id,
                   !.acs_payload_length = 0,
                   !.acs_entry_map = NoEntries]

get_acs_params_for_endpoint(p) ==
    IF p.params_revision = params.revision THEN p
    ELSE [p EXCEPT !.params_revision = params.revision,
                   !.acs_delay = params.delay,
                   !.acs_size = params.size]

\* Mutant of SendFirst: the bytes the id adds are not counted.
SendFirst_NoDelta(p, change, q) ==
    \/ /\ q.acs_size > 0
       /\ q.acs_payload_length > 0
       /\ q.acs_payload_length > q.acs_size
    \/ /\ p.params_revision # params.revision
       /\ q.acs_delay < p.acs_delay

SendFirst(p, change, q) ==
    \/ /\ q.acs_size > 0
       /\ q.acs_payload_length > 0
       /\ q.acs_payload_length + change.delta > q.acs_size
    \/ /\ p.params_revision # params.revision
       /\ q.acs_delay < p.acs_delay

apply_acs_changes(p, change, id) ==
    CASE change.noop -> p
      [] ~change.noop /\ p.acs_payload_length = 0 ->
            LET e == Entry(id, 1)
            IN  [p EXCEPT !.acs_entry_map = id :> e,
                          !.acs_payload_length = e.sdnv_length]
      [] OTHER ->
            [p EXCEPT !.acs_entry_map = change.entries,
                      !.acs_payload_length = @ + change.delta]

-----------------------------------------------------------------------------
(***************************************************************************)
(* Actions of the other threads.                                            *)
(***************************************************************************)
Init ==
    /\ eventq = <<>>
    /\ pacs = NoPacs
    /\ store = NoEntries
    /\ timer = 0
    /\ dirty = FALSE
    /\ params = [revision |-> 1, delay |-> StartParams[1],
                 size |-> StartParams[2]]
    /\ last_pacsid = 0
    /\ acked = {}
    /\ inputs = 0

Input == inputs < MaxInputs /\ inputs' = inputs + 1

(***************************************************************************)
(* BundleDaemon decides to signal custody of a bundle: the id is pushed at  *)
(* the FRONT of the queue.  Duplicates of a bundle post their id again.     *)
(***************************************************************************)
generate_custody_signal(id) ==
    /\ Len(eventq) < MaxQueue
    /\ Input
    /\ eventq' = <<[type |-> "add", id |-> id]>> \o eventq
    /\ UNCHANGED <<thread, timer, params>>

AcsExpirationTimer_timeout ==
    /\ timer # 0
    /\ eventq' = <<[type |-> "expired", id |-> timer]>> \o eventq
    /\ timer' = 0
    /\ UNCHANGED <<thread, params, inputs>>

set_route_acs_params(delay, size) ==
    /\ Input
    /\ params' = [revision |-> params.revision + 1,
                  delay |-> delay, size |-> size]
    /\ UNCHANGED <<eventq, thread, timer>>

-----------------------------------------------------------------------------
(***************************************************************************)
(* Actions of the ACS thread.  A handler works on the Pending ACS in memory *)
(* and then saves it; the daemon may stop between the two.                  *)
(***************************************************************************)
Handles(type) ==
    /\ ~dirty
    /\ eventq # <<>>
    /\ Head(eventq).type = type
    /\ eventq' = Tail(eventq)

\* Mutant of TimerAfter: the timer is cancelled after the new one is set.
TimerAfter_CancelLast(change, send, r) ==
    CASE send -> 0
      [] ~send /\ ~change.noop /\ r.acs_payload_length = 0 -> r.pacs_id
      [] OTHER -> timer

(***************************************************************************)
(* Sending early cancels the timer; the first entry starts a new one.       *)
(***************************************************************************)
TimerAfter(change, send, r) ==
    CASE ~change.noop /\ r.acs_payload_length = 0 -> r.pacs_id
      [] change.noop /\ send -> 0
      [] OTHER -> timer

PendingAcs ==
    IF pacs # NoPacs THEN pacs
    ELSE [pacs_id |-> last_pacsid + 1, acs_entry_map |-> NoEntries,
          acs_payload_length |-> 0, params_revision |-> 0,
          acs_delay |-> 0, acs_size |-> 0]

handle_add_bundle_to_acs ==
    /\ Handles("add")
    /\ \E change \in {determine_acs_changes(PendingAcs, Head(eventq).id)} :
       \E q \in {get_acs_params_for_endpoint(change.pacs)} :
       \E send \in {SendFirst(PendingAcs, change, q)} :
       \E r \in {IF send THEN generate_acs(q, Max({last_pacsid, q.pacs_id}) + 1)
                 ELSE q} :
           /\ pacs' = apply_acs_changes(r, change, Head(eventq).id)
           /\ last_pacsid' = Max({last_pacsid, r.pacs_id})
           /\ acked' = IF send THEN acked \cup SignalledIds(q.acs_entry_map)
                       ELSE acked
           /\ timer' = TimerAfter(change, send, r)
    /\ dirty' = TRUE
    /\ UNCHANGED <<store, params, inputs>>

handle_acs_expired ==
    /\ Handles("expired")
    /\ IF pacs # NoPacs /\ pacs.pacs_id = Head(eventq).id
       THEN /\ pacs' = generate_acs(pacs, last_pacsid + 1)
            /\ last_pacsid' = Max({last_pacsid, pacs'.pacs_id})
            /\ acked' = acked \cup SignalledIds(pacs.acs_entry_map)
            /\ dirty' = TRUE
       ELSE UNCHANGED <<pacs, last_pacsid, acked, dirty>>
    /\ UNCHANGED <<store, timer, params, inputs>>

update_pending_acs_store ==
    /\ dirty
    /\ store' = pacs.acs_entry_map
    /\ dirty' = FALSE
    /\ UNCHANGED <<eventq, pacs, timer, params, last_pacsid, acked, inputs>>

(***************************************************************************)
(* The daemon stops at any point and starts again.  load_pendingacs sends   *)
(* what was saved and deletes it from the datastore.                        *)
(***************************************************************************)
load_pendingacs ==
    /\ Input
    /\ acked' = acked \cup SignalledIds(store)
    /\ last_pacsid' = IF store = NoEntries THEN last_pacsid ELSE last_pacsid + 1
    /\ store' = NoEntries
    /\ pacs' = NoPacs
    /\ eventq' = <<>>
    /\ timer' = 0
    /\ dirty' = FALSE
    /\ params' = [revision |-> 1, delay |-> StartParams[1],
                  size |-> StartParams[2]]

AcsThread ==
    \/ handle_add_bundle_to_acs
    \/ handle_acs_expired
    \/ update_pending_acs_store

(***************************************************************************)
(* Once the bounds are used up and nothing is pending, the thread just      *)
(* waits for events.                                                        *)
(***************************************************************************)
Waits ==
    /\ inputs = MaxInputs
    /\ eventq = <<>>
    /\ timer = 0
    /\ ~dirty
    /\ UNCHANGED vars

Next ==
    \/ \E id \in Ids : generate_custody_signal(id)
    \/ \E ps \in Params : set_route_acs_params(ps[1], ps[2])
    \/ AcsExpirationTimer_timeout
    \/ AcsThread
    \/ load_pendingacs
    \/ Waits

Spec == Init /\ [][Next]_vars

(***************************************************************************)
(* The ACS thread never blocks for good: run() waits at most 100 ms for an  *)
(* event.  A scheduled timer fires unless it is cancelled.                  *)
(***************************************************************************)
FairSpec == Spec /\ WF_vars(AcsThread) /\ WF_vars(AcsExpirationTimer_timeout)

-----------------------------------------------------------------------------
Entries == IF pacs = NoPacs THEN NoEntries ELSE pacs.acs_entry_map

IsEntryMap(em) ==
    /\ DOMAIN em \subseteq Ids
    /\ em \in [DOMAIN em -> [diff_to_prev_right_edge : 0..Modulus - 1,
                             length_of_fill : Nat, sdnv_length : Nat]]

(***************************************************************************)
(* The types of the variables.                                              *)
(***************************************************************************)
TypeOK ==
    /\ eventq \in Seq([type : {"add"}, id : Ids]
                       \cup [type : {"expired"}, id : 1..last_pacsid])
    /\ pacs # NoPacs =>
           /\ pacs \in [pacs_id : 1..last_pacsid,
                        acs_entry_map : {Entries},
                        acs_payload_length : Nat,
                        params_revision : 1..params.revision,
                        acs_delay : Nat, acs_size : Nat]
           /\ IsEntryMap(Entries)
    /\ IsEntryMap(store)
    /\ timer \in 0..last_pacsid
    /\ dirty \in BOOLEAN
    /\ params \in [revision : 1..MaxInputs + 1, delay : Nat, size : Nat]
    /\ last_pacsid \in Nat
    /\ acked \subseteq Ids
    /\ inputs \in 0..MaxInputs

(***************************************************************************)
(* The assertions of the code hold whatever ids came before, duplicates of  *)
(* ids already inside a fill included: apply_acs_changes finds an empty map *)
(* exactly when the payload length is 0; create_aggregate_custody_signal    *)
(* recomputes every difference and SDNV length and needs the payload length *)
(* for its buffer; and the two branches of determine_acs_changes that step  *)
(* back in the map find a previous entry that ends just before the id.      *)
(***************************************************************************)
AssertsHold ==
    pacs # NoPacs =>
        LET em == pacs.acs_entry_map
            EndsBefore(id, found) ==
                /\ Before(em, found) # {}
                /\ LET prev == Max(Before(em, found))
                   IN  id = prev + em[prev].length_of_fill
        IN  /\ \A l \in DOMAIN em :
                    em[l] = Entry(WORD(l - PrevRightEdge(em, l)),
                                  em[l].length_of_fill)
            /\ pacs.acs_payload_length =
                    MapThenSumSet(LAMBDA l : em[l].sdnv_length, DOMAIN em)
            /\ \A id \in Ids :
                    lower_bound(em, id) # {} =>
                        LET found == Min(lower_bound(em, id))
                        IN  FillsGap(em, id, found)
                                \/ ExtendsPrevious(em, id, found)
                            => EndsBefore(id, found)

(***************************************************************************)
(* The size limit that was in force when the last id was handled holds for  *)
(* the payload that is pending, unless that is a single fill of one id: the *)
(* handler sends the old signal before it would let it grow too long.       *)
(***************************************************************************)
WithinAcsSize ==
    pacs # NoPacs =>
        \/ pacs.acs_size = 0
        \/ pacs.acs_payload_length <= pacs.acs_size
        \/ Cardinality(Covered(pacs.acs_entry_map)) = 1

(***************************************************************************)
(* A signal that is pending has its own timer running, or the expiry that   *)
(* carries its pacs_id is in the queue.  Expiries of signals that the size  *)
(* limit sent earlier may be queued too, and handle_acs_expired ignores     *)
(* them.                                                                    *)
(***************************************************************************)
PendingIsTimed ==
    Entries # NoEntries =>
        \/ timer = pacs.pacs_id
        \/ [type |-> "expired", id |-> pacs.pacs_id] \in Range(eventq)

(***************************************************************************)
(* The thread implements CustodySignals: taken as the set of ids they       *)
(* cover, the coded map and the datastore gain exactly the id that arrives, *)
(* and a signal, as its receiver parses it, acknowledges exactly what was   *)
(* collected, neither more nor less.                                        *)
(***************************************************************************)
Signals == INSTANCE CustodySignals
               WITH pending <- Covered(Entries), saved <- Covered(store)

ImplementsCustodySignals == Signals!Spec

(***************************************************************************)
(* No id that update_pending_acs_store has saved stays there unacknowledged *)
(* for ever: its timer, the size limit or the reload after a restart sends  *)
(* it.  With SavedUntilAcked, every id saved is therefore acknowledged.     *)
(***************************************************************************)
SavedIsSignalled ==
    \A id \in Ids : []<>(id \in Covered(store) => id \in acked)
=============================================================================
