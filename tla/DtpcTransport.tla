--------------------------- MODULE DtpcTransport ---------------------------
(***************************************************************************)
(* The DTPC transport service between one sender and one receiver, for one *)
(* destination, profile and topic: DtpcPayloadAggregator and the sending   *)
(* half of DtpcDaemon, DtpcDataPduCollector and the receiving half.        *)
(*                                                                         *)
(* The application's data items are aggregated into a payload, which is    *)
(* sent as a numbered data PDU when it is larger than                      *)
(* aggregation_size_limit or when the aggregation timer expires.  The      *)
(* daemon keeps the PDU on unacked_pdu_list_ and retransmits it until it   *)
(* is acknowledged or its lifetime is over.  The collector delivers PDUs   *)
(* in the order of their numbers, holds back those that came early, and    *)
(* gives up on a missing one a second before the first held one expires.   *)
(*                                                                         *)
(* A retransmission limit of 0 means no transport service: PDUs carry the  *)
(* number 0, are not acknowledged and are delivered as they come.          *)
(*                                                                         *)
(* PDUs travel as bundles, which may be lost, delayed and reordered: the   *)
(* network is the set of data PDUs sent and not yet received, any of which *)
(* may be the next to be received, or never be, and the set of ACKs sent.  *)
(***************************************************************************)
EXTENDS Integers, FiniteSets, Sequences, FiniteSetsExt

CONSTANTS aggregation_size_limit,   \* in items
          expiration,               \* lifetime of a PDU, in seconds
          Limits,                   \* retransmission limits of the profile
          Bounds                    \* the bounds to explore, each with the number
                                    \* of items the application sends, the end of
                                    \* the clock and the number of restarts

ASSUME DtpcAssumption ==
  /\ aggregation_size_limit \in Nat /\ expiration \in Nat \ {0}
  /\ Bounds \subseteq [items : Nat, time : Nat, restarts : Nat]
  /\ Limits \subseteq Nat /\ Limits # {}

VARIABLES
  bound,                 \* the bounds in use
  now,                   \* the clock of both nodes, in seconds
  retransmission_limit,  \* of the profile in use
  \* the aggregator and its thread
  sent,              \* how many items the application has sent
  me_eventq_,        \* items waiting for the aggregator's thread
  agg,               \* seq_ctr_, items of the payload, timer_ (set or not)
  agg_timers,        \* numbers of the aggregation timers that tick
  agg_events,        \* numbers of those that expired, not handled yet
  agg_row,           \* the aggregator as the data store holds it
  \* the sender's daemon
  unacked_pdu_list_,
  retransmit_timers, \* timers that tick: number of the PDU, when due
  retransmit_events, \* numbers of the PDUs whose timer expired
  transmitted,       \* PDUs with a DtpcPduTransmittedEvent in the queue
  delete_requests,   \* PDUs with a DtpcPduDeleteRequest in the queue
  \* the network
  data,              \* data PDUs sent and not received
  acks,              \* the number of every ACK sent
  \* the collector and the receiver's daemon
  col,               \* seq_ctr_, pdu_map_, timer_
  deliver_timers,    \* delivery timers that tick
  deliver_events,    \* numbers of the PDUs whose delivery timer expired
  handling,          \* where the receiver's daemon is in pdu_received
  col_row,           \* the collector as the data store holds it
  \* history
  delivered,         \* the PDUs whose items went to the topic, in order
  skipped,           \* numbers the collector gave up on
  resent,            \* how often each PDU was retransmitted
  restarts,          \* restarts so far
  torn               \* what went wrong in a restart: the node that stopped between
                     \* an effect and its update; "reload" when the collector
                     \* came back expecting a PDU that it holds

sender == <<sent, me_eventq_, agg, agg_timers, agg_events, agg_row>>
daemon == <<unacked_pdu_list_, retransmit_timers, retransmit_events,
            transmitted, delete_requests, resent>>
receiver == <<col, deliver_timers, deliver_events, handling, col_row,
              delivered, skipped>>
faults == <<restarts, torn>>
profile == <<bound, retransmission_limit>>
vars == <<now, profile, sender, daemon, data, acks, receiver, faults>>

Items == 1..bound.items
Numbers == 0..(bound.items + 1)
PDU == [seq_ctr : Numbers, items : SUBSET Items, creation_ts : 0..bound.time]
Timer == [seq_ctr : Numbers, due : -1..(bound.time + expiration)]
NoTimer == [seq_ctr |-> 0, due |-> 0]
Idle == [at |-> "idle"]

(***************************************************************************)
(* The sender's aggregator.                                                *)
(***************************************************************************)
\* send_payload() and transmit_pdu(): the payload leaves as a PDU, a timer
\* for the next one starts.  An empty payload is not sent and keeps its number.
send_payload(items) ==
  LET pdu == [seq_ctr |-> IF retransmission_limit > 0 THEN agg.seq_ctr_ ELSE 0,
              items |-> items, creation_ts |-> now]
      next == agg.seq_ctr_ + (IF items # {} THEN 1 ELSE 0)
  IN /\ IF items # {}
        THEN /\ data' = data \cup {pdu}
             /\ transmitted' = IF retransmission_limit > 0
                               THEN transmitted \cup {pdu} ELSE transmitted
        ELSE UNCHANGED <<data, transmitted>>
     /\ agg' = [seq_ctr_ |-> next, items |-> {}, timer_ |-> TRUE]
     /\ agg_timers' = (agg_timers \ {agg.seq_ctr_}) \cup {next}

\* The row is behind the aggregator: its thread is between the effects of an
\* event and DtpcPayloadAggregatorStore::update().
AggBehind == agg_row # [seq_ctr_ |-> agg.seq_ctr_, items |-> agg.items]

\* The application's dtpc_send, through the API server and the daemon.
handle_dtpc_send_data_item ==
  /\ sent < bound.items
  /\ sent' = sent + 1
  /\ me_eventq_' = Append(me_eventq_, sent + 1)
  /\ UNCHANGED <<now, profile, agg, agg_timers, agg_events,
                 agg_row, daemon, data, acks, receiver, faults>>

\* send_data_item(), up to the update of the store.
send_data_item_NoTimer ==
  /\ ~AggBehind /\ me_eventq_ # <<>>
  /\ LET items == agg.items \cup {Head(me_eventq_)} IN
       IF Cardinality(items) > aggregation_size_limit
       THEN send_payload(items)
       ELSE /\ agg' = [agg EXCEPT !.items = items]
            /\ UNCHANGED <<agg_timers, data, transmitted>>
  /\ me_eventq_' = Tail(me_eventq_)
  /\ UNCHANGED <<now, profile, sent, agg_events, agg_row,
                 unacked_pdu_list_, retransmit_timers, retransmit_events,
                 delete_requests, resent, acks, receiver, faults>>

send_data_item ==
  /\ ~AggBehind /\ me_eventq_ # <<>>
  /\ LET items == agg.items \cup {Head(me_eventq_)} IN
       IF Cardinality(items) > aggregation_size_limit
       THEN send_payload(items)
       ELSE /\ agg' = [agg EXCEPT !.items = items, !.timer_ = TRUE]
            /\ agg_timers' = IF agg.timer_ THEN agg_timers
                             ELSE agg_timers \cup {agg.seq_ctr_}
            /\ UNCHANGED <<data, transmitted>>
  /\ me_eventq_' = Tail(me_eventq_)
  /\ UNCHANGED <<now, profile, sent, agg_events, agg_row,
                 unacked_pdu_list_, retransmit_timers, retransmit_events,
                 delete_requests, resent, acks, receiver, faults>>

\* DtpcPayloadAggregationTimer::timeout().  How long it ticks is left open.
AggregationTimeout(n) ==
  /\ n \in agg_timers
  /\ agg_timers' = agg_timers \ {n}
  /\ agg_events' = agg_events \cup {n}
  /\ UNCHANGED <<now, profile, sent, me_eventq_, agg, agg_row,
                 daemon, data, acks, receiver, faults>>

\* timer_expired(): an event with the number of an earlier payload is ignored.
agg_timer_expired(n) ==
  /\ ~AggBehind /\ n \in agg_events
  /\ agg_events' = agg_events \ {n}
  /\ IF n = agg.seq_ctr_
     THEN send_payload(agg.items)
     ELSE UNCHANGED <<agg, agg_timers, data, transmitted>>
  /\ UNCHANGED <<now, profile, sent, me_eventq_, agg_row,
                 unacked_pdu_list_, retransmit_timers, retransmit_events,
                 delete_requests, resent, acks, receiver, faults>>

\* DtpcPayloadAggregatorStore::update() at the end of either handler.
UpdateAggregator ==
  /\ AggBehind
  /\ agg_row' = [seq_ctr_ |-> agg.seq_ctr_, items |-> agg.items]
  /\ UNCHANGED <<now, profile, sent, me_eventq_, agg, agg_timers,
                 agg_events, daemon, data, acks, receiver, faults>>

(***************************************************************************)
(* The sender's daemon.  Timers and ACKs are posted at the head of its     *)
(* queue, the other events at the back, so one of each kind can be handled *)
(* in either order.                                                        *)
(***************************************************************************)
\* DtpcProfile::calc_retransmit_time().
calc_retransmit_time == now + expiration \div (retransmission_limit + 1)

\* The event holds a pointer to the PDU.  If an ACK deleted the PDU while the
\* event was queued, the daemon works on freed memory: as if the PDU were
\* there, which is this step, or it crashes, which is RestartSender.
handle_dtpc_transmitted_event(pdu) ==
  /\ pdu \in transmitted
  /\ transmitted' = transmitted \ {pdu}
  /\ unacked_pdu_list_' =
       IF \E p \in unacked_pdu_list_ : p.seq_ctr = pdu.seq_ctr
       THEN unacked_pdu_list_ ELSE unacked_pdu_list_ \cup {pdu}
  /\ retransmit_timers' = retransmit_timers \cup
       {[seq_ctr |-> pdu.seq_ctr, due |-> calc_retransmit_time]}
  /\ UNCHANGED <<now, profile, sender, retransmit_events,
                 delete_requests, resent, data, acks, receiver, faults>>

\* DtpcRetransmitTimer::timeout().
RetransmitTimeout(t) ==
  /\ t \in retransmit_timers /\ t.due <= now
  /\ retransmit_timers' = retransmit_timers \ {t}
  /\ retransmit_events' = retransmit_events \cup {t.seq_ctr}
  /\ UNCHANGED <<now, profile, sender, unacked_pdu_list_,
                 transmitted, delete_requests, resent, data, acks, receiver,
                 faults>>

\* DtpcProtocolDataUnit::retransmit_count(), which starts at 0 and which
\* nothing increments.
retransmit_count(pdu) == 0

\* What is left of the lifetime: unsigned arithmetic, so that it is very large
\* once the lifetime is over.
expiration_remaining(pdu) ==
  (pdu.creation_ts + expiration - now) % 2^16

\* handle_dtpc_retransmit_timer_expired() and retransmit_pdu().  An event of a
\* PDU that is not on the list is ignored.
retransmit_pdu_Once(n) ==
  /\ n \in retransmit_events
  /\ retransmit_events' = retransmit_events \ {n}
  /\ \/ /\ \A p \in unacked_pdu_list_ : p.seq_ctr # n
        /\ UNCHANGED <<transmitted, delete_requests, data, resent>>
     \/ \E pdu \in unacked_pdu_list_ :
          /\ pdu.seq_ctr = n
          /\ UNCHANGED <<delete_requests, transmitted>>
          /\ data' = data \cup {pdu}
          /\ resent' = [resent EXCEPT ![n] = @ + 1]
  /\ UNCHANGED <<now, profile, sender, unacked_pdu_list_,
                 retransmit_timers, acks, receiver, faults>>

retransmit_pdu(n) ==
  /\ n \in retransmit_events
  /\ retransmit_events' = retransmit_events \ {n}
  /\ \/ /\ \A p \in unacked_pdu_list_ : p.seq_ctr # n
        /\ UNCHANGED <<transmitted, delete_requests, data, resent>>
     \/ \E pdu \in unacked_pdu_list_ :
          /\ pdu.seq_ctr = n
          /\ IF \/ retransmit_count(pdu) >= retransmission_limit
                \/ expiration_remaining(pdu) >= expiration
             THEN /\ delete_requests' = delete_requests \cup {pdu}
                  /\ UNCHANGED <<transmitted, data, resent>>
             ELSE /\ data' = data \cup {pdu}
                  /\ transmitted' = transmitted \cup {pdu}
                  /\ resent' = [resent EXCEPT ![n] = @ + 1]
                  /\ UNCHANGED delete_requests
  /\ UNCHANGED <<now, profile, sender, unacked_pdu_list_,
                 retransmit_timers, acks, receiver, faults>>

\* Drop PDU number n and cancel its timer.
Drop(n) ==
  /\ unacked_pdu_list_' = {p \in unacked_pdu_list_ : p.seq_ctr # n}
  /\ retransmit_timers' = {t \in retransmit_timers : t.seq_ctr # n}

handle_dtpc_delete_request(pdu) ==
  /\ pdu \in delete_requests
  /\ delete_requests' = delete_requests \ {pdu}
  /\ Drop(pdu.seq_ctr)
  /\ UNCHANGED <<now, profile, sender, retransmit_events,
                 transmitted, resent, data, acks, receiver, faults>>

handle_dtpc_ack_received_event(n) ==
  /\ n \in acks
  /\ \E p \in unacked_pdu_list_ : p.seq_ctr = n
  /\ Drop(n)
  /\ UNCHANGED <<now, profile, sender, retransmit_events,
                 transmitted, delete_requests, resent, data, acks, receiver,
                 faults>>

(***************************************************************************)
(* The receiver's collector.                                               *)
(***************************************************************************)
expiration_ts(pdu) == pdu.creation_ts + expiration

First(map) == CHOOSE p \in map : \A q \in map : p.seq_ctr <= q.seq_ctr

\* Wait until a second before the PDU expires for the ones before it.
TimerFor(pdu) == [seq_ctr |-> pdu.seq_ctr, due |-> expiration_ts(pdu) - 1]

\* The held PDUs from number n on without a gap: those that
\* check_for_deliverable_pdu() and deliver_pdu(), calling each other, deliver.
\* They look at the first one held only: behind an earlier number none is found.
InSequence(n, map) ==
  {p \in map : /\ \A q \in map : q.seq_ctr >= n
               /\ \A k \in n..p.seq_ctr : \E q \in map : q.seq_ctr = k}

\* deliver_pdu() when the collector expects number n: the PDU and those that
\* follow it are delivered; the timer that stays is for the first one held.
deliver_pdu(pdu, n, map, timer) ==
  LET run == InSequence(n + 1, map)
      rest == map \ run
      kept == IF run = {} THEN timer ELSE NoTimer
      new == IF rest # {} /\ kept = NoTimer THEN TimerFor(First(rest)) ELSE kept
  IN /\ delivered' = delivered \o <<pdu>> \o
          [i \in 1..Cardinality(run) |->
             CHOOSE p \in run : p.seq_ctr = n + i]
     /\ col' = [seq_ctr_ |-> n + 1 + Cardinality(run), pdu_map_ |-> rest,
                timer_ |-> new]
     /\ deliver_timers' =
          (IF run = {} THEN deliver_timers ELSE deliver_timers \ {timer})
            \cup (IF new = kept THEN {} ELSE {new})

\* queue_pdu(): a PDU that is already held is not replaced.  The timer is the
\* one of the first PDU held.
queue_pdu(pdu) ==
  LET held == \E p \in col.pdu_map_ : p.seq_ctr = pdu.seq_ctr
      map == IF held THEN col.pdu_map_ ELSE col.pdu_map_ \cup {pdu}
      first == First(map).seq_ctr = pdu.seq_ctr
  IN /\ col' = [col EXCEPT !.pdu_map_ = map,
                           !.timer_ = IF first THEN TimerFor(pdu) ELSE @]
     /\ deliver_timers' = IF first
                          THEN (deliver_timers \ {col.timer_}) \cup {TimerFor(pdu)}
                          ELSE deliver_timers
     /\ UNCHANGED delivered

\* handle_dtpc_data_received_event() and pdu_received(), first effect: send_ack().
\* Expired delivery timers are at the head of the queue and come first.
receive_data(pdu) ==
  /\ handling = Idle /\ deliver_events = {}
  /\ pdu \in data
  /\ acks' = IF pdu.seq_ctr > 0 THEN acks \cup {pdu.seq_ctr} ELSE acks
  /\ data' = data \ {pdu}
  /\ handling' = [at |-> "received", pdu |-> pdu]
  /\ UNCHANGED <<now, profile, sender, daemon, col,
                 deliver_timers, deliver_events, col_row, delivered, skipped,
                 faults>>

\* pdu_received(), second effect: the PDU is delivered, discarded or held.
pdu_received_OffByOne ==
  /\ handling.at = "received"
  /\ LET pdu == handling.pdu IN
       IF pdu.seq_ctr = 0
       THEN deliver_pdu(pdu, col.seq_ctr_, col.pdu_map_, col.timer_)
       ELSE IF pdu.seq_ctr <= col.seq_ctr_
       THEN UNCHANGED <<delivered, col, deliver_timers>>
       ELSE queue_pdu(pdu)
  /\ handling' = [at |-> "updating"]
  /\ UNCHANGED <<now, profile, sender, daemon, data, acks,
                 deliver_events, col_row, skipped, faults>>

pdu_received ==
  /\ handling.at = "received"
  /\ LET pdu == handling.pdu IN
       IF pdu.seq_ctr = 0 \/ pdu.seq_ctr = col.seq_ctr_
       THEN deliver_pdu(pdu, col.seq_ctr_, col.pdu_map_, col.timer_)
       ELSE IF pdu.seq_ctr < col.seq_ctr_
       THEN UNCHANGED <<delivered, col, deliver_timers>>
       ELSE queue_pdu(pdu)
  /\ handling' = [at |-> "updating"]
  /\ UNCHANGED <<now, profile, sender, daemon, data, acks,
                 deliver_events, col_row, skipped, faults>>

\* DtpcDeliverPduTimer::timeout().  The end of the modelled time stands for all
\* later times: a timer due after it expires then.
DeliverTimeout(t) ==
  /\ t \in deliver_timers /\ (t.due <= now \/ now = bound.time)
  /\ deliver_timers' = deliver_timers \ {t}
  /\ deliver_events' = deliver_events \cup {t.seq_ctr}
  /\ UNCHANGED <<now, profile, sender, daemon, data, acks, col,
                 handling, col_row, delivered, skipped, faults>>

\* timer_expired(): when the PDU is still the first one held, stop waiting for
\* the ones before it.
timer_expired_KeepsCounter(n) ==
  /\ handling = Idle /\ n \in deliver_events
  /\ deliver_events' = deliver_events \ {n}
  /\ LET first == First(col.pdu_map_) IN
       IF col.pdu_map_ # {} /\ first.seq_ctr = n
       THEN /\ deliver_pdu(first, col.seq_ctr_, col.pdu_map_ \ {first}, NoTimer)
            /\ skipped' = skipped \cup col.seq_ctr_..(n - 1)
       ELSE UNCHANGED <<delivered, col, deliver_timers, skipped>>
  /\ handling' = IF col.pdu_map_ # {} THEN [at |-> "updating"] ELSE Idle
  /\ UNCHANGED <<now, profile, sender, daemon, data, acks, col_row,
                 faults>>

timer_expired(n) ==
  /\ handling = Idle /\ n \in deliver_events
  /\ deliver_events' = deliver_events \ {n}
  /\ LET first == First(col.pdu_map_) IN
       IF col.pdu_map_ # {} /\ first.seq_ctr = n
       THEN /\ deliver_pdu(first, n, col.pdu_map_ \ {first}, NoTimer)
            /\ skipped' = skipped \cup col.seq_ctr_..(n - 1)
       ELSE UNCHANGED <<delivered, col, deliver_timers, skipped>>
  /\ handling' = IF col.pdu_map_ # {} THEN [at |-> "updating"] ELSE Idle
  /\ UNCHANGED <<now, profile, sender, daemon, data, acks, col_row,
                 faults>>

\* DtpcDataPduCollectorStore::update() at the end of either handler.
UpdateCollector ==
  /\ handling.at = "updating"
  /\ handling' = Idle
  /\ col_row' = [seq_ctr_ |-> col.seq_ctr_, pdu_map_ |-> col.pdu_map_]
  /\ UNCHANGED <<now, profile, sender, daemon, data, acks, col,
                 deliver_timers, deliver_events, delivered, skipped, faults>>

(***************************************************************************)
(* Restarts.  Queues, timers and the unacknowledged PDUs are in memory.    *)
(***************************************************************************)
\* load_payload_aggregators(): the aggregator comes back as its row was, and
\* no timer is started for it.
RestartSender ==
  /\ restarts < bound.restarts
  /\ restarts' = restarts + 1
  /\ torn' = IF AggBehind THEN torn \cup {"sender"} ELSE torn
  /\ agg' = [seq_ctr_ |-> agg_row.seq_ctr_, items |-> agg_row.items,
             timer_ |-> FALSE]
  /\ me_eventq_' = <<>> /\ agg_timers' = {} /\ agg_events' = {}
  /\ unacked_pdu_list_' = {} /\ retransmit_timers' = {}
  /\ retransmit_events' = {} /\ transmitted' = {} /\ delete_requests' = {}
  /\ UNCHANGED <<now, profile, sent, agg_row, resent, data, acks,
                 receiver>>

\* load_data_pdu_collectors() and ds_reload_post_processing(): held PDUs that
\* expired are discarded from the front, the next one gets a timer.
RestartReceiver_NoTimer ==
  /\ restarts < bound.restarts
  /\ restarts' = restarts + 1
  /\ torn' = IF handling # Idle THEN torn \cup {"receiver"} ELSE torn
  /\ col' = [seq_ctr_ |-> col_row.seq_ctr_, pdu_map_ |-> col_row.pdu_map_,
             timer_ |-> NoTimer]
  /\ deliver_timers' = {} /\ deliver_events' = {} /\ handling' = Idle
  /\ UNCHANGED <<now, profile, sender, daemon, data, acks, col_row,
                 delivered, skipped>>

RestartReceiver ==
  LET fresh(p) == now <= expiration_ts(p)
      map == {p \in col_row.pdu_map_ :
                \E q \in col_row.pdu_map_ : q.seq_ctr <= p.seq_ctr /\ fresh(q)}
      gone == col_row.pdu_map_ \ map
      next == IF gone = {} THEN col_row.seq_ctr_
              ELSE Max({p.seq_ctr : p \in gone}) + 1
      timer == IF map = {} THEN NoTimer ELSE TimerFor(First(map))
  IN /\ restarts < bound.restarts
     /\ restarts' = restarts + 1
     /\ torn' = torn \cup (IF handling # Idle THEN {"receiver"} ELSE {})
                     \cup (IF \E p \in map : p.seq_ctr = next THEN {"reload"} ELSE {})
     /\ col' = [seq_ctr_ |-> next, pdu_map_ |-> map, timer_ |-> timer]
     /\ deliver_timers' = {timer} \ {NoTimer}
     /\ deliver_events' = {} /\ handling' = Idle
     /\ skipped' = skipped \cup col_row.seq_ctr_..(next - 1)
     /\ UNCHANGED <<now, profile, sender, daemon, data, acks,
                    col_row, delivered>>

Tick ==
  /\ now < bound.time
  /\ now' = now + 1
  /\ UNCHANGED <<profile, sender, daemon, data, acks, receiver,
                 faults>>

Init ==
  /\ bound \in Bounds /\ now = 0 /\ retransmission_limit \in Limits
  /\ sent = 0 /\ me_eventq_ = <<>>
  /\ agg = [seq_ctr_ |-> 1, items |-> {}, timer_ |-> FALSE]
  /\ agg_timers = {} /\ agg_events = {}
  /\ agg_row = [seq_ctr_ |-> 1, items |-> {}]
  /\ unacked_pdu_list_ = {} /\ retransmit_timers = {}
  /\ retransmit_events = {} /\ transmitted = {} /\ delete_requests = {}
  /\ data = {} /\ acks = {}
  /\ col = [seq_ctr_ |-> 1, pdu_map_ |-> {}, timer_ |-> NoTimer]
  /\ deliver_timers = {} /\ deliver_events = {} /\ handling = Idle
  /\ col_row = [seq_ctr_ |-> 1, pdu_map_ |-> {}]
  /\ delivered = <<>> /\ skipped = {} /\ resent = [n \in Numbers |-> 0]
  /\ restarts = 0 /\ torn = {}

\* The steps of the aggregator's thread, of the timer threads and of the two
\* daemons' threads.
Aggregator ==
  send_data_item \/ UpdateAggregator \/ \E n \in agg_events : agg_timer_expired(n)

Timeouts ==
  \/ \E n \in agg_timers : AggregationTimeout(n)
  \/ \E t \in retransmit_timers : RetransmitTimeout(t)
  \/ \E t \in deliver_timers : DeliverTimeout(t)

SenderDaemon ==
  \/ \E pdu \in transmitted : handle_dtpc_transmitted_event(pdu)
  \/ \E n \in retransmit_events : retransmit_pdu(n)
  \/ \E pdu \in delete_requests : handle_dtpc_delete_request(pdu)
  \/ \E n \in acks : handle_dtpc_ack_received_event(n)

ReceiverDaemon ==
  pdu_received \/ UpdateCollector \/ \E n \in deliver_events : timer_expired(n)

Next ==
  \/ handle_dtpc_send_data_item
  \/ Aggregator
  \/ Timeouts
  \/ SenderDaemon
  \/ \E pdu \in data : receive_data(pdu)
  \/ ReceiverDaemon
  \/ RestartSender
  \/ RestartReceiver
  \/ Tick

Spec == Init /\ [][Next]_vars

\* Every thread runs and the clock goes on.  Nothing makes the network deliver.
\* The aggregation timer takes a second at least, time for the aggregator to
\* empty its queue and for the other timers to expire: it starves neither.
FairSpec ==
  /\ Spec
  /\ WF_vars(send_data_item)
  /\ WF_vars(UpdateAggregator \/ \E n \in agg_events : agg_timer_expired(n))
  /\ WF_vars(\E n \in agg_timers : AggregationTimeout(n))
  /\ WF_vars(\E t \in deliver_timers : DeliverTimeout(t))
  /\ WF_vars(ReceiverDaemon)
  /\ WF_vars(Tick)

-----------------------------------------------------------------------------
TypeOK ==
  /\ bound \in Bounds /\ now \in 0..bound.time /\ retransmission_limit \in Limits
  /\ sent \in 0..bound.items
  /\ agg \in [seq_ctr_ : Numbers \ {0}, items : SUBSET Items, timer_ : BOOLEAN]
  /\ agg_row \in [seq_ctr_ : Numbers \ {0}, items : SUBSET Items]
  /\ agg_timers \subseteq Numbers /\ agg_events \subseteq Numbers
  /\ unacked_pdu_list_ \cup transmitted \cup delete_requests \subseteq PDU
  /\ retransmit_timers \cup deliver_timers \subseteq Timer
  /\ retransmit_events \cup deliver_events \subseteq Numbers
  /\ data \subseteq PDU /\ acks \subseteq Numbers \ {0}
  /\ col \in [seq_ctr_ : Nat \ {0}, pdu_map_ : SUBSET PDU, timer_ : Timer]
  /\ col_row \in [seq_ctr_ : Nat \ {0}, pdu_map_ : SUBSET PDU]
  /\ handling \in {Idle} \cup [at : {"updating"}] \cup [at : {"received"}, pdu : PDU]
  /\ torn \subseteq {"sender", "receiver", "reload"} /\ restarts \in 0..bound.restarts

\* With the transport service, the items reach the topic in the order in which
\* the application sent them and none twice: a PDU delivered later carries only
\* later items, whatever was lost, repeated, held or given up, and through
\* restarts of both nodes.  There are two exceptions.  A receiver that stopped
\* after it delivered a PDU and before it updated the collector's row delivers
\* the PDU again.  And ds_reload_post_processing() that discards an expired PDU
\* and keeps the one right after it leaves a PDU held that it also expects:
\* another copy is delivered when it comes, the held one when its timer expires.
InOrderOnce ==
  (retransmission_limit > 0 /\ torn \cap {"receiver", "reload"} = {}) =>
    \A i, j \in DOMAIN delivered : i < j =>
      \A x \in delivered[i].items, y \in delivered[j].items : x < y

\* "duplicate suppression - discard PDU" (DtpcDataPduCollector.cc:224): the same
\* without the second exception, which is what the code aims at.
InOrderOnceReloaded ==
  (retransmission_limit > 0 /\ "receiver" \notin torn) =>
    \A i, j \in DOMAIN delivered : i < j =>
      \A x \in delivered[i].items, y \in delivered[j].items : x < y

\* A PDU that was acknowledged was delivered, is held, is being handled, or was
\* given up by the delivery timer before it came.  The ACK leaves first, so a
\* receiver that stopped in the middle of pdu_received() is the exception.
AckedIsKept ==
  "receiver" \notin torn =>
    \A n \in acks :
      \/ \E i \in DOMAIN delivered : delivered[i].seq_ctr = n
      \/ \E p \in col.pdu_map_ : p.seq_ctr = n
      \/ n \in skipped
      \/ handling.at = "received" /\ handling.pdu.seq_ctr = n

\* Every PDU on unacked_pdu_list_ has a retransmit timer that ticks, or an event
\* in the daemon's queue that will start one or take the PDU off the list: none
\* stays there for ever because nothing looks at it again.
UnackedIsTimed ==
  \A p \in unacked_pdu_list_ :
    \/ \E t \in retransmit_timers : t.seq_ctr = p.seq_ctr
    \/ p.seq_ctr \in retransmit_events
    \/ \E q \in transmitted \cup delete_requests : q.seq_ctr = p.seq_ctr

\* As long as the collector holds PDUs, the delivery timer of the first one
\* ticks or has just expired, so a PDU that never comes cannot hold back the
\* ones after it past their lifetime.
HeldIsTimed ==
  col.pdu_map_ # {} =>
    LET n == First(col.pdu_map_).seq_ctr IN
      (\E t \in deliver_timers : t.seq_ctr = n) \/ n \in deliver_events

\* "start a timer ticking for this payload if reloaded from datastore"
\* (DtpcPayloadAggregator.cc:200): items of a payload that is not yet sent have
\* an aggregation timer that ticks or has just expired.
AggregatedIsTimed ==
  agg.items # {} => agg.seq_ctr_ \in agg_timers \cup agg_events

\* The same while the sender has not restarted.
AggregatedIsTimedUntilRestart == restarts = 0 => AggregatedIsTimed

\* "Max number of times a data PDU may be retransmitted" (DtpcProfile.h).
RetransmissionLimit == \A n \in Numbers \ {0} : resent[n] <= retransmission_limit

\* Unless the sender restarts, every item the application sent leaves in a PDU:
\* again and again there is none waiting.
ItemsAreSent ==
  []<>(restarts > 0 \/ (me_eventq_ = <<>> /\ agg.items = {}))

\* The collector does not hold PDUs for ever: they are delivered, or discarded
\* after a restart, although the ones before them never come.
HeldIsReleased == []<>(col.pdu_map_ = {})
=============================================================================
