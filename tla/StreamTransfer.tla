--------------------------- MODULE StreamTransfer ---------------------------
(***************************************************************************)
(* Bundles travelling both ways over one stream contact between two nodes: *)
(* the stream convergence layer used by TCPCL version 3                    *)
(* (conv_layers/StreamConvergenceLayer.cc and TCPConvergenceLayerV3.cc),   *)
(* the link's queue and in-flight list, what close_contact does with       *)
(* half-sent and half-received bundles (ConnectionConvergenceLayer.cc),    *)
(* and what BundleDaemonOutput does with the outcome, reactive             *)
(* fragmentation included (FragmentManager.cc).                            *)
(*                                                                         *)
(* A bundle is <<b, lo, hi>>: the bytes lo .. hi-1 of the payload of the   *)
(* bundle b that its source created; a whole bundle is <<b, 0, size[b]>>.  *)
(* On the wire a bundle is a header of one byte followed by its payload,   *)
(* in segments of segment_length bytes.  Acknowledgements carry a length   *)
(* only: the sender credits them to the oldest bundle in flight.           *)
(***************************************************************************)
EXTENDS Naturals, Sequences, SequencesExt, FiniteSets

CONSTANTS Nodes, Bundles,
          source,            \* [Bundles -> Nodes]; the other node is the destination
          size,              \* payload length of each bundle
          segment_length, max_inflight_bundles_,
          quota,             \* bundles each node's payload store has room for
          Acks, Reactive,    \* the values the negotiated options may have
          MaxFaults          \* contacts that may break and transmissions that may be cancelled

ASSUME StreamAssumption ==
    /\ Cardinality(Nodes) = 2
    /\ source \in [Bundles -> Nodes] /\ size \in [Bundles -> Nat \ {0}]
    /\ segment_length \in Nat \ {0} /\ max_inflight_bundles_ \in Nat \ {0}
    /\ quota \in [Nodes -> Nat]
    /\ Acks \subseteq BOOLEAN /\ Reactive \subseteq BOOLEAN
    /\ MaxFaults \in Nat

VARIABLES segment_ack_enabled_, reactive_frag_enabled_,   \* negotiated
          held,        \* bundles in each node's store
          fwdlog,      \* latest entry for the link: bundle -> state
          queue_, inflight_,  \* the link's two lists
          blocks,      \* bundles with transmit blocks for the link
          conn,        \* the connection object of each node
          wire,        \* what each node has sent and its peer has not read
          outputq,     \* BundleTransmitted events of each node
          cancelled,   \* BundleSendCancelled events of each node
          received,    \* bundles accepted by each node, ever
          copies,      \* how often each whole bundle was accepted
          errors,      \* protocol errors that broke a contact
          breaks, cancels

store == <<held, received, copies>>
links == <<fwdlog, queue_, inflight_, blocks>>
events == <<outputq, cancelled>>
counters == <<errors, breaks, cancels>>
options == <<segment_ack_enabled_, reactive_frag_enabled_>>
vars == <<options, store, links, conn, wire, events, counters>>

payload_offset == 1
Peer(n) == CHOOSE m \in Nodes : m # n
Whole(b) == <<b, 0, size[b]>>
Fragments == UNION { {<<b, lo, hi>> : lo \in 0 .. size[b], hi \in 0 .. size[b]} : b \in Bundles }
total_length(f) == payload_offset + f[3] - f[2]
Bytes(f) == {<<f[1], i>> : i \in f[2] .. f[3] - 1}
AtSource(n, f) == source[f[1]] = n

Down == [state |-> "down", inflight |-> <<>>, current |-> FALSE, incoming |-> <<>>,
         recvbuf |-> <<>>, reading |-> FALSE, delay_reads |-> FALSE,
         admin_msg_list |-> <<>>, cmdqueue |-> {}]
InFlight(f) == [f |-> f, sent |-> 0, acked |-> 0, posted |-> FALSE]
Transmitted(f, sent, acked, deleted) ==
    [f |-> f, sent |-> sent, acked |-> acked, blocks_deleted |-> deleted]

Up(n) == conn[n].state = "up"
Without(s, f) == SelectSeq(s, LAMBDA g : g # f)

-----------------------------------------------------------------------------
(* Routing, cancelling and deleting at the node *)

\* The router queues a bundle that is not queued, sent or in flight on the link.
queue_bundle(n, f) ==
    /\ f \in held[n] /\ AtSource(n, f)
    /\ fwdlog[n][f] \in {"NONE", "CANCELLED"}
    /\ f \notin inflight_[n] /\ ~Contains(queue_[n], f)
    /\ blocks' = [blocks EXCEPT ![n] = @ \cup {f}]
    /\ fwdlog' = [fwdlog EXCEPT ![n][f] = "QUEUED"]
    /\ queue_' = [queue_ EXCEPT ![n] = Append(@, f)]
    /\ UNCHANGED <<options, store, inflight_, conn, wire, events, counters>>

\* BundleActions::cancel_bundle and ConnectionConvergenceLayer::cancel_bundle:
\* off the queue, or a command to the connection if the link is open.
cancel_bundle(n, f) ==
    IF Contains(queue_[n], f)
    THEN /\ queue_' = [queue_ EXCEPT ![n] = Without(@, f)]
         /\ cancelled' = [cancelled EXCEPT ![n] = @ \cup {f}]
         /\ UNCHANGED conn
    ELSE /\ f \in inflight_[n]
         /\ IF conn[n].state = "down"
            THEN cancelled' = [cancelled EXCEPT ![n] = @ \cup {f}] /\ UNCHANGED conn
            ELSE conn' = [conn EXCEPT ![n].cmdqueue = @ \cup {f}] /\ UNCHANGED cancelled
         /\ UNCHANGED queue_

\* The operator or the router's reroute timer cancels a transmission.
RequestCancel(n, f) ==
    /\ breaks + cancels < MaxFaults
    /\ cancels' = cancels + 1
    /\ cancel_bundle(n, f)
    /\ UNCHANGED <<options, store, fwdlog, inflight_, blocks, wire, outputq, errors, breaks>>

\* BUNDLE_CANCELLED: ignored when the transmit blocks are gone already.
handle_bundle_cancelled(n, f) ==
    /\ f \in cancelled[n]
    /\ cancelled' = [cancelled EXCEPT ![n] = @ \ {f}]
    /\ IF f \in blocks[n]
       THEN /\ blocks' = [blocks EXCEPT ![n] = @ \ {f}]
            /\ fwdlog' = [fwdlog EXCEPT ![n][f] = "CANCELLED"]
       ELSE UNCHANGED <<blocks, fwdlog>>
    /\ UNCHANGED <<options, store, queue_, inflight_, conn, wire, outputq, counters>>

\* Main deletes a bundle that was transmitted (try_to_delete, delete_bundle).
try_to_delete(n, f) ==
    /\ f \in held[n] /\ fwdlog[n][f] = "TRANSMITTED"
    /\ held' = [held EXCEPT ![n] = @ \ {f}]
    /\ IF Contains(queue_[n], f) \/ f \in inflight_[n] THEN cancel_bundle(n, f)
       ELSE UNCHANGED <<queue_, cancelled, conn>>
    /\ UNCHANGED <<options, received, copies, fwdlog, inflight_, blocks, wire, outputq,
                   counters>>

\* A bundle that reached its destination is delivered and leaves the store.
Deliver(n, f) ==
    /\ f \in held[n] /\ ~AtSource(n, f)
    /\ held' = [held EXCEPT ![n] = @ \ {f}]
    /\ UNCHANGED <<options, received, copies, links, conn, wire, events, counters>>

-----------------------------------------------------------------------------
(* Output: what became of a transmission *)

\* try_to_reactively_fragment: the tail that remains after n bytes of f.
reactive_tail(f, n) ==
    IF n > payload_offset /\ n < total_length(f) /\ f[3] - f[2] > 1
    THEN {<<f[1], f[2] + n - payload_offset, f[3]>>}
    ELSE {}

\* BUNDLE_TRANSMITTED.  An event that does not say its blocks were deleted is
\* taken for a redundant one when there are none.
handle_bundle_transmitted(n) ==
    /\ outputq[n] # <<>>
    /\ LET e == Head(outputq[n]) IN
         /\ outputq' = [outputq EXCEPT ![n] = Tail(@)]
         /\ IF ~e.blocks_deleted /\ e.f \notin blocks[n]
            THEN UNCHANGED <<held, links>>
            ELSE LET tail == IF e.blocks_deleted THEN {}
                             ELSE reactive_tail(e.f, IF segment_ack_enabled_ THEN e.acked ELSE e.sent)
                 IN  /\ inflight_' = [inflight_ EXCEPT ![n] = @ \ {e.f}]
                     /\ queue_' = [queue_ EXCEPT ![n] = Without(@, e.f)]
                     /\ blocks' = [blocks EXCEPT ![n] = @ \ {e.f}]
                     /\ fwdlog' = [fwdlog EXCEPT ![n][e.f] = "TRANSMITTED"]
                     /\ held' = [held EXCEPT ![n] = @ \cup tail]
    /\ UNCHANGED <<options, received, copies, conn, wire, cancelled, counters>>

-----------------------------------------------------------------------------
(* The sending half of a connection *)

Post(n, e) == outputq' = [outputq EXCEPT ![n] = Append(@, e)]

\* check_completed for the bundle at position i, which is no longer current: with
\* acknowledgements it waits for the last one.  c is the connection so far.
Completed(c, i) ==
    ~segment_ack_enabled_ \/ c.inflight[i].acked >= total_length(c.inflight[i].f)

check_completed(n, c, i) ==
    IF ~Completed(c, i)
    THEN conn' = [conn EXCEPT ![n] = c] /\ UNCHANGED outputq
    ELSE LET item == c.inflight[i] IN
         /\ conn' = [conn EXCEPT ![n] = [c EXCEPT !.inflight = Tail(@)]]
         /\ IF item.posted THEN UNCHANGED outputq
            ELSE Post(n, Transmitted(item.f, item.sent, item.sent, TRUE))

\* The segment of f that starts at byte from.
Segment(f, from) ==
    LET len == IF segment_length >= total_length(f) - from
               THEN total_length(f) - from ELSE segment_length
    IN  [kind |-> "DATA", f |-> f, start |-> from = 0,
         end |-> from + len = total_length(f), len |-> len]

Ack(len) == [kind |-> "ACK", len |-> len]
KEEPALIVE == [kind |-> "KEEPALIVE"]

\* send_pending_data begins with the acknowledgements that wait to go out.
SendAcks(n, data) ==
    wire' = [wire EXCEPT ![n] = @ \o conn[n].admin_msg_list \o data]
Sending(n) == [conn[n] EXCEPT !.admin_msg_list = <<>>]

\* start_next_bundle.  The first segment goes out with it unless the send
\* buffer has no room for a segment header.  A bundle without transmit blocks
\* stays at the head of the queue.
start_next_bundle(n, room) ==
    /\ Up(n) /\ ~conn[n].current
    /\ Len(conn[n].inflight) < max_inflight_bundles_
    /\ queue_[n] # <<>> /\ Head(queue_[n]) \in blocks[n]
    /\ LET f == Head(queue_[n])
           segment == IF room THEN <<Segment(f, 0)>> ELSE <<>>
       IN  /\ SendAcks(n, segment)
           /\ conn' = [conn EXCEPT ![n] =
                [Sending(n) EXCEPT !.current = TRUE,
                    !.inflight = Append(@, [InFlight(f) EXCEPT
                        !.sent = IF room THEN segment[1].len ELSE 0])]]
           /\ inflight_' = [inflight_ EXCEPT ![n] = @ \cup {f}]
           /\ queue_' = [queue_ EXCEPT ![n] = Tail(@)]
    /\ UNCHANGED <<options, store, fwdlog, blocks, events, counters>>

Current(n) == Len(conn[n].inflight)

\* send_next_segment, while the current bundle has bytes to send.
send_next_segment(n) ==
    /\ Up(n) /\ conn[n].current
    /\ LET i == Current(n)
           item == conn[n].inflight[i]
           segment == Segment(item.f, item.sent)
       IN  /\ item.sent < total_length(item.f)
           /\ SendAcks(n, <<segment>>)
           /\ conn' = [conn EXCEPT ![n] =
                [Sending(n) EXCEPT !.inflight[i].sent = @ + segment.len]]
    /\ UNCHANGED <<options, store, links, events, counters>>

\* finish_bundle, once all of it was sent: its blocks are deleted.
finish_bundle(n) ==
    /\ Up(n) /\ conn[n].current
    /\ LET i == Current(n)
           item == conn[n].inflight[i]
       IN  /\ item.sent = total_length(item.f)
           /\ blocks' = [blocks EXCEPT ![n] = @ \ {item.f}]
           /\ SendAcks(n, <<>>)
           /\ check_completed(n, [Sending(n) EXCEPT !.current = FALSE], i)
    /\ UNCHANGED <<options, store, fwdlog, queue_, inflight_, cancelled, counters>>

\* Nothing to send but acknowledgements.
send_pending_acks(n) ==
    /\ Up(n) /\ conn[n].admin_msg_list # <<>>
    /\ SendAcks(n, <<>>)
    /\ conn' = [conn EXCEPT ![n] = Sending(n)]
    /\ UNCHANGED <<options, store, links, events, counters>>

\* Mutant: a connection that waits for acknowledgements sends no keepalives.
send_keepalive_Idle(n) ==
    /\ Up(n) /\ wire[n] = <<>> /\ conn[n].inflight = <<>>
    /\ LET c == conn[Peer(n)] IN c.delay_reads \/ (c.recvbuf # <<>> /\ ~c.reading)
    /\ wire' = [wire EXCEPT ![n] = <<KEEPALIVE>>]
    /\ UNCHANGED <<options, store, links, conn, events, counters>>

\* A keepalive changes nothing but that the peer's socket is readable, which
\* matters to a peer that has stopped reading or left data in its buffer.
send_keepalive(n) ==
    /\ Up(n) /\ wire[n] = <<>>
    /\ LET c == conn[Peer(n)] IN c.delay_reads \/ (c.recvbuf # <<>> /\ ~c.reading)
    /\ wire' = [wire EXCEPT ![n] = <<KEEPALIVE>>]
    /\ UNCHANGED <<options, store, links, conn, events, counters>>

\* Mutant: a bundle of which a part was sent is cancelled too.
handle_cancel_bundle_Started(n) ==
    /\ Up(n)
    /\ \E f \in conn[n].cmdqueue :
         LET c == [conn[n] EXCEPT !.cmdqueue = @ \ {f}]
         IN  IF c.current /\ Last(c.inflight).f = f
             THEN /\ conn' = [conn EXCEPT ![n] =
                       [c EXCEPT !.current = FALSE, !.inflight = Front(@)]]
                  /\ cancelled' = [cancelled EXCEPT ![n] = @ \cup {f}]
             ELSE conn' = [conn EXCEPT ![n] = c] /\ UNCHANGED cancelled
    /\ UNCHANGED <<options, store, links, wire, outputq, counters>>

\* A cancellation reaches a bundle of which nothing was sent, or is too late.
handle_cancel_bundle(n) ==
    /\ Up(n)
    /\ \E f \in conn[n].cmdqueue :
         LET c == [conn[n] EXCEPT !.cmdqueue = @ \ {f}]
             unsent == {i \in DOMAIN c.inflight : c.inflight[i].f = f /\ c.inflight[i].sent = 0}
         IN  IF unsent = {}
             THEN conn' = [conn EXCEPT ![n] = c] /\ UNCHANGED cancelled
             ELSE /\ conn' = [conn EXCEPT ![n] =
                       [c EXCEPT !.current = FALSE, !.inflight = Front(@)]]
                  /\ cancelled' = [cancelled EXCEPT ![n] = @ \cup {f}]
    /\ UNCHANGED <<options, store, links, wire, outputq, counters>>

-----------------------------------------------------------------------------
(* The receiving half *)

\* recv_data, when the socket is readable and reads are not delayed.
recv_data(n) ==
    /\ Up(n) /\ ~conn[n].delay_reads /\ ~conn[n].reading
    /\ \E k \in 1 .. Len(wire[Peer(n)]) :
         /\ conn' = [conn EXCEPT ![n].reading = TRUE,
                                 ![n].recvbuf = @ \o SubSeq(wire[Peer(n)], 1, k)]
         /\ wire' = [wire EXCEPT ![Peer(n)] = SubSeq(@, k + 1, Len(@))]
    /\ UNCHANGED <<options, store, links, events, counters>>

\* query_accept_bundle_based_on_quotas.
HasRoom(n) == Cardinality(held[n]) < quota[n]

\* Acknowledgements go out only once the whole bundle has been accepted.
queue_acks_for_incoming_bundle(incoming) ==
    IF segment_ack_enabled_ THEN [i \in DOMAIN incoming.pending_acks |-> Ack(incoming.pending_acks[i])]
    ELSE <<>>

\* check_completed for a fully received bundle of connection c.
AcceptIncoming(n, c) ==
    LET incoming == c.incoming[1] IN
    IF ~HasRoom(n)
    THEN /\ conn' = [conn EXCEPT ![n] = [c EXCEPT !.delay_reads = TRUE]]
         /\ UNCHANGED store
    ELSE /\ conn' = [conn EXCEPT ![n] = [c EXCEPT !.delay_reads = FALSE, !.incoming = <<>>,
                        !.admin_msg_list = @ \o queue_acks_for_incoming_bundle(incoming)]]
         /\ held' = [held EXCEPT ![n] = @ \cup {incoming.f}]
         /\ received' = [received EXCEPT ![n] = @ \cup {incoming.f}]
         /\ copies' = IF incoming.f = Whole(incoming.f[1])
                      THEN [copies EXCEPT ![incoming.f[1]] = @ + 1] ELSE copies

\* Break the contact of n over a protocol error.
ProtocolError(n, c, e) ==
    /\ errors' = errors \cup {e}
    /\ conn' = [conn EXCEPT ![n] = [c EXCEPT !.state = "broken"]]
    /\ UNCHANGED <<store, outputq>>

\* handle_data_segment and handle_data_todo, for the segment m.
handle_data_segment(n, c, m) ==
    IF m.start /\ c.incoming # <<>>
    THEN ProtocolError(n, c, "BUNDLE_START before bundle completed")
    ELSE IF ~m.start /\ c.incoming = <<>>
    THEN ProtocolError(n, c, "first segment without BUNDLE_START")
    ELSE LET old == IF m.start THEN [f |-> m.f, bytes_received |-> 0, pending_acks |-> <<>>,
                                     total_length |-> 0]
                    ELSE c.incoming[1]
             rcvd == old.bytes_received + m.len
             incoming == [old EXCEPT !.bytes_received = rcvd,
                                     !.pending_acks = Append(@, rcvd),
                                     !.total_length = IF m.end THEN rcvd ELSE 0]
             d == [c EXCEPT !.incoming = <<incoming>>]
         IN  IF m.end /\ rcvd # total_length(m.f)
             THEN ProtocolError(n, d, "total length mismatch")
             ELSE /\ IF m.end THEN AcceptIncoming(n, d)
                     ELSE conn' = [conn EXCEPT ![n] = d] /\ UNCHANGED store
                  /\ UNCHANGED <<outputq, errors>>

\* handle_ack_segment: the acknowledgement is for the oldest bundle in flight.
handle_ack_segment(n, c, m) ==
    IF c.inflight = <<>> THEN ProtocolError(n, c, "ack with no bundle in flight")
    ELSE IF m.len < c.inflight[1].acked THEN ProtocolError(n, c, "ack for an old length")
    ELSE LET item == c.inflight[1]
             done == m.len = total_length(item.f)
             d == [c EXCEPT !.inflight[1].acked = m.len, !.inflight[1].posted = @ \/ done]
             finished == ~(c.current /\ Len(c.inflight) = 1)
         IN  /\ conn' = [conn EXCEPT ![n] =
                   IF done /\ finished THEN [d EXCEPT !.inflight = Tail(@)] ELSE d]
             /\ IF done THEN Post(n, Transmitted(item.f, item.sent, m.len, TRUE))
                ELSE UNCHANGED outputq
             /\ UNCHANGED <<store, errors>>

\* One turn of process_data's loop.  It ends with the buffer, at a data segment
\* while reads are delayed, and when the contact breaks.
process_data(n) ==
    /\ Up(n) /\ conn[n].reading
    /\ LET buf == conn[n].recvbuf IN
       IF buf = <<>> \/ (Head(buf).kind = "DATA" /\ conn[n].delay_reads)
       THEN /\ conn' = [conn EXCEPT ![n].reading = FALSE]
            /\ UNCHANGED <<store, outputq, errors>>
       ELSE LET m == Head(buf)
                c == [conn[n] EXCEPT !.recvbuf = Tail(@)]
            IN  CASE m.kind = "DATA" -> handle_data_segment(n, c, m)
                  [] m.kind = "ACK" -> handle_ack_segment(n, c, m)
                  [] m.kind = "KEEPALIVE" ->
                       conn' = [conn EXCEPT ![n] = c] /\ UNCHANGED <<store, outputq, errors>>
    /\ UNCHANGED <<options, links, wire, cancelled, breaks, cancels>>

\* While reads are delayed a readable socket makes the connection try again.
retry_to_accept_incoming_bundle(n) ==
    /\ Up(n) /\ conn[n].delay_reads /\ ~conn[n].reading
    /\ wire[Peer(n)] # <<>>
    /\ AcceptIncoming(n, conn[n])
    /\ UNCHANGED <<options, links, wire, events, counters>>

-----------------------------------------------------------------------------
(* The contact *)

contact_up ==
    /\ \A n \in Nodes : conn[n].state = "down"
    /\ conn' = [n \in Nodes |-> [Down EXCEPT !.state = "up"]]
    /\ wire' = [n \in Nodes |-> <<>>]
    /\ UNCHANGED <<options, store, links, events, counters>>

\* The connection fails at one end, or that end learns that the other is gone.
break_contact(n) ==
    /\ Up(n)
    /\ IF Up(Peer(n)) THEN breaks + cancels < MaxFaults /\ breaks' = breaks + 1
       ELSE UNCHANGED breaks
    /\ conn' = [conn EXCEPT ![n].state = "broken"]
    /\ UNCHANGED <<options, store, links, wire, events, errors, cancels>>

\* Mutant: only a bundle of which nothing was sent goes back on the queue.
Requeued_Sent(item) == item.sent = 0

\* close_contact puts a bundle back on the queue when nothing of it can count
\* as transmitted, and otherwise reports what was sent and acknowledged.
Requeued(item) ==
    \/ ~reactive_frag_enabled_
    \/ item.sent = 0
    \/ segment_ack_enabled_ /\ item.acked = 0

\* A bundle received in part becomes a fragment.
PartiallyReceived(n) ==
    IF reactive_frag_enabled_ /\ conn[n].incoming # <<>>
       /\ conn[n].incoming[1].total_length = 0
       /\ conn[n].incoming[1].bytes_received > payload_offset
    THEN LET f == conn[n].incoming[1].f
         IN  {<<f[1], f[2], f[2] + conn[n].incoming[1].bytes_received - payload_offset>>}
    ELSE {}

\* Mutant: a bundle put back on the queue gets no transmit blocks.
close_contact_NoBlocks(n) ==
    /\ conn[n].state = "broken"
    /\ LET items == conn[n].inflight
           back == SelectSeq(items, LAMBDA i : Requeued(i) /\ i.f \in inflight_[n])
           over == SelectSeq(items, LAMBDA i : ~Requeued(i) /\ ~i.posted)
           requeue == SelectSeq([i \in DOMAIN back |-> back[i].f],
                                LAMBDA f : ~Contains(queue_[n], f))
       IN  /\ inflight_' = [inflight_ EXCEPT ![n] = @ \ {back[i].f : i \in DOMAIN back}]
           /\ queue_' = [queue_ EXCEPT ![n] = @ \o requeue]
           /\ outputq' = [outputq EXCEPT ![n] = @ \o
                [i \in DOMAIN over |-> Transmitted(over[i].f, over[i].sent, over[i].acked, FALSE)]]
    /\ held' = [held EXCEPT ![n] = @ \cup PartiallyReceived(n)]
    /\ received' = [received EXCEPT ![n] = @ \cup PartiallyReceived(n)]
    /\ conn' = [conn EXCEPT ![n] = Down]
    /\ UNCHANGED <<options, copies, blocks, fwdlog, wire, cancelled, counters>>

close_contact(n) ==
    /\ conn[n].state = "broken"
    /\ LET items == conn[n].inflight
           back == SelectSeq(items, LAMBDA i : Requeued(i) /\ i.f \in inflight_[n])
           over == SelectSeq(items, LAMBDA i : ~Requeued(i) /\ ~i.posted)
           requeue == SelectSeq([i \in DOMAIN back |-> back[i].f],
                                LAMBDA f : ~Contains(queue_[n], f))
       IN  /\ inflight_' = [inflight_ EXCEPT ![n] = @ \ {back[i].f : i \in DOMAIN back}]
           /\ blocks' = [blocks EXCEPT ![n] = @ \cup {back[i].f : i \in DOMAIN back}]
           /\ queue_' = [queue_ EXCEPT ![n] = @ \o requeue]
           /\ outputq' = [outputq EXCEPT ![n] = @ \o
                [i \in DOMAIN over |-> Transmitted(over[i].f, over[i].sent, over[i].acked, FALSE)]]
    /\ held' = [held EXCEPT ![n] = @ \cup PartiallyReceived(n)]
    /\ received' = [received EXCEPT ![n] = @ \cup PartiallyReceived(n)]
    /\ conn' = [conn EXCEPT ![n] = Down]
    /\ UNCHANGED <<options, copies, fwdlog, wire, cancelled, counters>>

-----------------------------------------------------------------------------
Init ==
    /\ segment_ack_enabled_ \in Acks /\ reactive_frag_enabled_ \in Reactive
    /\ held = [n \in Nodes |-> {Whole(b) : b \in {x \in Bundles : source[x] = n}}]
    /\ fwdlog = [n \in Nodes |-> [f \in Fragments |-> "NONE"]]
    /\ queue_ = [n \in Nodes |-> <<>>] /\ inflight_ = [n \in Nodes |-> {}]
    /\ blocks = [n \in Nodes |-> {}]
    /\ conn = [n \in Nodes |-> Down] /\ wire = [n \in Nodes |-> <<>>]
    /\ outputq = [n \in Nodes |-> <<>>] /\ cancelled = [n \in Nodes |-> {}]
    /\ received = [n \in Nodes |-> {}] /\ copies = [b \in Bundles |-> 0]
    /\ errors = {} /\ breaks = 0 /\ cancels = 0

Core(n) ==
    \/ \E f \in held[n] : queue_bundle(n, f) \/ try_to_delete(n, f) \/ Deliver(n, f)
    \/ \E f \in cancelled[n] : handle_bundle_cancelled(n, f)
    \/ handle_bundle_transmitted(n)

Connection(n) ==
    \/ start_next_bundle(n, TRUE) \/ send_next_segment(n) \/ finish_bundle(n)
    \/ send_pending_acks(n) \/ handle_cancel_bundle(n)
    \/ recv_data(n) \/ process_data(n) \/ retry_to_accept_incoming_bundle(n)

Next ==
    \/ contact_up
    \/ \E n \in Nodes : \/ Core(n) \/ Connection(n) \/ send_keepalive(n)
                        \/ start_next_bundle(n, FALSE)
                        \/ break_contact(n) \/ close_contact(n)
                        \/ \E f \in held[n] : RequestCancel(n, f)

Spec == Init /\ [][Next]_vars

\* What a node does by itself: the daemon's threads handle their events;
\* CLConnection::run sends, reads, obeys commands, sends keepalives and notices
\* that its peer is gone; Main closes a broken contact and opens a closed link
\* again (LinkContact).
Node(n) ==
    \/ Core(n) \/ Connection(n) \/ send_keepalive(n)
    \/ contact_up \/ close_contact(n) \/ (break_contact(n) /\ ~Up(Peer(n)))

\* Each node goes on running: less than the code's scheduling gives, which runs
\* every thread of it.
Fairness == \A n \in Nodes : WF_vars(Node(n))

FairSpec == Spec /\ Fairness

-----------------------------------------------------------------------------
InCL(n, f) == \E i \in DOMAIN conn[n].inflight : conn[n].inflight[i].f = f
EventFor(n, f) == \E i \in DOMAIN outputq[n] : outputq[n][i].f = f
UnionOf(fs) == UNION {Bytes(f) : f \in fs}

\* Types of the state (Link.h, CLConnection.h, StreamConvergenceLayer.h).
TypeOK ==
    /\ segment_ack_enabled_ \in BOOLEAN /\ reactive_frag_enabled_ \in BOOLEAN
    /\ \A n \in Nodes :
         /\ held[n] \subseteq Fragments /\ received[n] \subseteq Fragments
         /\ inflight_[n] \subseteq Fragments /\ blocks[n] \subseteq Fragments
         /\ cancelled[n] \subseteq Fragments
         /\ conn[n].state \in {"down", "up", "broken"}
         /\ Len(conn[n].inflight) <= max_inflight_bundles_
         /\ conn[n].current => conn[n].inflight # <<>>
         /\ \A i \in DOMAIN conn[n].inflight :
              conn[n].inflight[i].acked <= conn[n].inflight[i].sent

\* With acknowledgements every byte of a bundle is either still held by its
\* source or has been accepted by the destination, wherever contacts broke,
\* whatever was requeued, reported or fragmented, and although an
\* acknowledgement does not say which bundle it is for.
NothingLost ==
    segment_ack_enabled_ =>
        \A b \in Bundles :
            Bytes(Whole(b)) \subseteq
                UnionOf(held[source[b]]) \cup UnionOf(received[Peer(source[b])])

\* Two nodes running this code never break a contact over a protocol error:
\* segments of a bundle cut off by a break are not mixed with those sent after
\* the next contact came up, and acknowledgements find their bundle.
NoProtocolErrors == errors = {}

\* A bundle is accepted more than once only because contacts broke.
CopiesFromBreaks == \A b \in Bundles : copies[b] <= 1 + breaks

\* As long as nothing is cancelled, the forwarding log says QUEUED exactly for
\* the bundles on the link's queue or its in-flight list, never on both; those
\* on the queue have the blocks start_next_bundle needs; and, without reactive
\* fragmentation, one in flight is known to the connection or its outcome is on
\* its way to Output.
ListsAgree ==
    \A n \in Nodes : \A f \in Fragments :
        /\ Contains(queue_[n], f) => f \in blocks[n] /\ f \notin inflight_[n]
        /\ cancels = 0 =>
             ( fwdlog[n][f] = "QUEUED" <=> Contains(queue_[n], f) \/ f \in inflight_[n] )
        /\ cancels = 0 /\ ~reactive_frag_enabled_ /\ f \in inflight_[n]
             => InCL(n, f) \/ EventFor(n, f)

\* Every bundle is eventually transmitted and leaves its source.
EventuallySent ==
    ~reactive_frag_enabled_ =>
        \A b \in Bundles : <>(Whole(b) \notin held[source[b]] \/ cancels > 0)

\* BundleDaemon::handle_bundle_cancelled: "The bundle should no longer be on
\* the link queue or on the inflight queue if it was cancelled."
CancelledIsReleased ==
    \A n \in Nodes : \A f \in Fragments :
        fwdlog[n][f] = "CANCELLED" => f \notin inflight_[n] /\ ~Contains(queue_[n], f)

\* StreamConvergenceLayer::check_completed delays reads to "allow some sends to
\* free up some memory", so a delay comes to an end.
DelayEnds == \A n \in Nodes : conn[n].delay_reads ~> ~conn[n].delay_reads

=============================================================================
