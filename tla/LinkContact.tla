---------------------------- MODULE LinkContact ----------------------------
(***************************************************************************)
(* One link of a connection-oriented convergence layer and the threads     *)
(* that act on it: the BundleDaemon thread (Main) with its event queue,    *)
(* the ContactManager's availability timers, the convergence layer's       *)
(* connection thread, the router, and an operator at the console           *)
(* (contacts/Link.cc, contacts/ContactManager.cc, bundling/BundleDaemon.cc,*)
(* conv_layers/CLConnection.cc and ConnectionConvergenceLayer.cc).         *)
(*                                                                         *)
(* A contact is the identity of one connection attempt.  The state change  *)
(* requests that a connection, a timer or the operator posts carry the     *)
(* contact the link had when they were made, and Main drops a request      *)
(* whose contact is no longer the link's.                                  *)
(*                                                                         *)
(* close_contact runs in two steps, StartClose and FinishClose, because    *)
(* Main waits between them, holding the link's lock, for the connection    *)
(* thread to stop.  handle_link_state_change_request for UNAVAILABLE runs  *)
(* in two steps because it tests the state and sets it without a lock.     *)
(***************************************************************************)
EXTENDS Naturals, Sequences

CONSTANTS Types,          \* the link types an initial state may have
          Contacts,       \* contact identities; reused once nothing refers to them
          min_retry_interval, max_retry_interval,
          MaxCommands     \* console commands the operator may give

ASSUME LinkAssumption ==
    /\ Types \subseteq {"ALWAYSON", "ONDEMAND", "OPPORTUNISTIC"}
    /\ Contacts \subseteq Nat \ {0}
    /\ min_retry_interval \in Nat \ {0}
    /\ max_retry_interval \in Nat \ {0}
    /\ MaxCommands \in Nat

VARIABLES type,           \* Link::type_
          state,          \* Link::state_
          contact,        \* Link::contact_, 0 for null
          deleted,        \* Link::deleted_
          listed,         \* ContactManager::links_ holds the link
          retry_interval,
          eventq,         \* the events of this link in Main's queue
          main,           \* where Main is inside a state change request
          conn,           \* the convergence layer's connection thread
          availability_timers_,  \* the link's entry in the timer map, 0 for none
          scheduled,      \* availability timers waiting in the timer system
          firing,         \* the timer whose timeout() is running, 0 for none
          routerq,        \* kinds of contact event the router has yet to handle
          commands,       \* console commands given so far
          failed,         \* the ASSERTs that failed; the process is then gone
          overwritten,    \* Main set UNAVAILABLE over a link opened meanwhile
          why             \* the reason of the last LinkUnavailable event

link == <<state, contact, deleted, listed, retry_interval>>
timers == <<availability_timers_, scheduled, firing>>
vars == <<type, link, eventq, main, conn, timers, routerq, commands, failed,
          overwritten, why>>

null == 0
Timers == 1 .. 3
Reasons == {"USER", "BROKEN", "IDLE", "CL_ERROR", "RECONNECT", "NO_INFO"}
NoConn == [contact |-> null, at |-> "none", up |-> FALSE, broken |-> FALSE,
           cmd |-> FALSE]
Idle == [at |-> "idle", reason |-> "NO_INFO"]

\* The events of the link that Main handles.
Event(t, new, reason, c) == [type |-> t, new |-> new, reason |-> reason, contact |-> c]
LinkStateChangeRequest(new, reason) ==
    Event("LINK_STATE_CHANGE_REQUEST", new, reason, contact)
ContactUpEvent(c) == Event("CONTACT_UP", "", "NO_INFO", c)
ContactDownEvent(reason) == Event("CONTACT_DOWN", "", reason, contact)
LinkUnavailableEvent(reason) == Event("LINK_UNAVAILABLE", "", reason, null)
LinkAvailableEvent(reason) == Event("LINK_AVAILABLE", "", reason, null)
Plain(t) == Event(t, "", "NO_INFO", null)

isopen == state = "OPEN"
isopening == state = "OPENING"
isavailable == state # "UNAVAILABLE"

\* An identity no queued event, connection or link refers to: a new Contact.
NewContact ==
    CHOOSE c \in Contacts :
        /\ c # contact /\ c # conn.contact
        /\ \A i \in DOMAIN eventq : eventq[i].contact # c

Alive == failed = {}
MainReady == Alive /\ main = Idle

\* Main holds the link's lock from StartClose to FinishClose.
LinkLockFree == main.at # "closing"

-----------------------------------------------------------------------------
(* The link's own operations *)

\* Link::open with the open_contact it calls, after BundleActions::open_link's
\* tests, all under the link's lock; the state the link has is s.
open_link(s) ==
    IF deleted \/ s = "OPEN" \/ contact # null \/ s # "AVAILABLE"
    THEN /\ state' = s
         /\ UNCHANGED <<contact, conn>>
    ELSE /\ state' = "OPENING"
         /\ contact' = NewContact
         /\ conn' = [NoConn EXCEPT !.contact = NewContact, !.at = "start"]

\* set_initial_state: what a new link posts once it is created.
set_initial_state(q) ==
    CASE type = "ALWAYSON" ->
           <<LinkStateChangeRequest("OPEN", "USER")>> \o q
      [] type = "ONDEMAND" -> Append(q, LinkAvailableEvent("NO_INFO"))
      [] type = "OPPORTUNISTIC" -> q

\* ConnectionConvergenceLayer::delete_link: a link that is not open or opening
\* must have no contact.
DeleteAsserts ==
    IF ~isopen /\ ~isopening /\ contact # null
    THEN {"delete_link: contact() == nullptr"} ELSE {}

-----------------------------------------------------------------------------
(* ContactManager *)

\* Forget the link's timer; one that is already firing cannot be cancelled.
CancelTimer ==
    /\ availability_timers_' = null
    /\ scheduled' = scheduled \ {availability_timers_}
    /\ UNCHANGED firing

next_interval ==
    LET interval == IF retry_interval = 0 THEN min_retry_interval ELSE retry_interval
    IN  IF interval * 2 > max_retry_interval THEN max_retry_interval ELSE interval * 2

\* ContactManager::handle_link_unavailable: arm a timer to reopen the link,
\* unless it was closed by the user or by going idle, or a timer is in the map.
schedule_reopen(reason) ==
    IF ~listed \/ deleted \/ type \notin {"ONDEMAND", "ALWAYSON"}
       \/ reason \in {"USER", "IDLE"}
    THEN UNCHANGED <<retry_interval, timers>>
    ELSE /\ retry_interval' = next_interval
         /\ IF availability_timers_ # null THEN UNCHANGED timers
            ELSE LET t == CHOOSE t \in Timers : t \notin scheduled /\ t # firing
                 IN  /\ availability_timers_' = t
                     /\ scheduled' = scheduled \cup {t}
                     /\ UNCHANGED firing

\* The timer system takes a timer off its queue to run it.
TimerExpires ==
    /\ Alive /\ firing = null
    /\ \E t \in scheduled :
         /\ firing' = t
         /\ scheduled' = scheduled \ {t}
    /\ UNCHANGED <<type, link, eventq, main, conn, availability_timers_, routerq,
                   commands, failed, overwritten, why>>

\* Mutant: the timer leaves its entry in the map.
reopen_link_KeepsEntry ==
    /\ Alive /\ firing # null
    /\ firing' = null
    /\ eventq' = IF listed /\ state = "UNAVAILABLE"
                 THEN Append(eventq, LinkStateChangeRequest("OPEN", "RECONNECT"))
                 ELSE eventq
    /\ UNCHANGED <<type, link, main, conn, availability_timers_, scheduled, routerq,
                   commands, failed, overwritten, why>>

\* LinkAvailabilityTimer::timeout and ContactManager::reopen_link: the entry of
\* the link leaves the map, whichever timer it names.
reopen_link ==
    /\ Alive /\ firing # null
    /\ firing' = null
    /\ availability_timers_' = null
    /\ eventq' = IF listed /\ state = "UNAVAILABLE"
                 THEN Append(eventq, LinkStateChangeRequest("OPEN", "RECONNECT"))
                 ELSE eventq
    /\ UNCHANGED <<type, link, main, conn, scheduled, routerq, commands, failed,
                   overwritten, why>>

-----------------------------------------------------------------------------
(* Main *)

\* Take the next event, of type t; the handlers below put back what they post.
Takes(t) == MainReady /\ eventq # <<>> /\ Head(eventq).type = t

\* LINK_CREATED, in BundleDaemon and then in ContactManager.
handle_link_created ==
    /\ Takes("LINK_CREATED")
    /\ eventq' = IF deleted \/ ~listed THEN Tail(eventq)
                 ELSE set_initial_state(Tail(eventq))
    /\ UNCHANGED <<type, link, main, conn, timers, routerq, commands, failed,
                   overwritten, why>>

\* LINK_AVAILABLE: the link must be available; its timer is cancelled.
handle_link_available ==
    /\ Takes("LINK_AVAILABLE")
    /\ eventq' = Tail(eventq)
    /\ failed' = IF isavailable THEN failed
                 ELSE failed \cup {"handle_link_available: isavailable()"}
    /\ IF isavailable /\ ~deleted /\ listed /\ availability_timers_ # null
       THEN CancelTimer
       ELSE UNCHANGED timers
    /\ UNCHANGED <<type, link, main, conn, routerq, commands, overwritten, why>>

\* LINK_UNAVAILABLE: the link must not be available; a retry is scheduled.
handle_link_unavailable ==
    /\ Takes("LINK_UNAVAILABLE")
    /\ eventq' = Tail(eventq)
    /\ failed' = IF isavailable
                 THEN failed \cup {"handle_link_unavailable: !isavailable()"}
                 ELSE failed
    /\ schedule_reopen(Head(eventq).reason)
    /\ UNCHANGED <<type, state, contact, deleted, listed, main, conn, routerq,
                   commands, overwritten, why>>

\* Mutant: a stale notification opens the link too.
handle_contact_up_Stale ==
    /\ Takes("CONTACT_UP")
    /\ eventq' = Tail(eventq)
    /\ state' = IF ~deleted THEN "OPEN" ELSE state
    /\ retry_interval' = min_retry_interval
    /\ routerq' = IF deleted THEN routerq ELSE routerq \cup {"CONTACT_UP"}
    /\ UNCHANGED <<type, contact, deleted, listed, main, conn, timers, commands,
                   failed, overwritten, why>>

\* CONTACT_UP: the link opens unless it was deleted or has another contact by
\* now; ContactManager resets the retry interval in either of the latter cases.
handle_contact_up ==
    /\ Takes("CONTACT_UP")
    /\ eventq' = Tail(eventq)
    /\ state' = IF ~deleted /\ contact = Head(eventq).contact THEN "OPEN" ELSE state
    /\ retry_interval' =
         IF ~deleted /\ listed /\ type \in {"ONDEMAND", "ALWAYSON"}
         THEN min_retry_interval ELSE retry_interval
    /\ routerq' = IF deleted THEN routerq ELSE routerq \cup {"CONTACT_UP"}
    /\ UNCHANGED <<type, contact, deleted, listed, main, conn, timers, commands,
                   failed, overwritten, why>>

\* CONTACT_DOWN: statistics only; the event goes on to the router.
handle_contact_down ==
    /\ Takes("CONTACT_DOWN")
    /\ eventq' = Tail(eventq)
    /\ routerq' = routerq \cup {"CONTACT_DOWN"}
    /\ UNCHANGED <<type, link, main, conn, timers, commands, failed,
                   overwritten, why>>

\* Mutants: the contact is not compared; a deleted link cannot be closed.
Current_AnyContact(request) == ~deleted \/ request.new = "CLOSED"
Current_Deleted(request) == ~deleted /\ contact = request.contact

\* The tests every state change request passes before it is acted on.
Current(request) ==
    /\ ~deleted \/ request.new = "CLOSED"
    /\ contact = request.contact

\* A request Main drops: made for a deleted link or under another contact, or
\* asking for a change the link's state does not allow.
DropRequest ==
    /\ Takes("LINK_STATE_CHANGE_REQUEST")
    /\ LET request == Head(eventq) IN
         \/ ~Current(request)
         \/ request.new = "UNAVAILABLE" /\ state # "AVAILABLE"
         \/ request.new = "AVAILABLE" /\ state # "UNAVAILABLE"
         \/ request.new = "CLOSED" /\ ~isopen /\ ~isopening
    /\ eventq' = Tail(eventq)
    /\ UNCHANGED <<type, link, main, conn, timers, routerq, commands, failed,
                   overwritten, why>>

\* The request's new state is n and Main acts on it.
Acts(n) ==
    /\ Takes("LINK_STATE_CHANGE_REQUEST")
    /\ Head(eventq).new = n
    /\ Current(Head(eventq))

\* OPEN: the link is made available if it was not, and opened.
OpenRequested ==
    /\ Acts("OPEN")
    /\ open_link(IF state = "UNAVAILABLE" THEN "AVAILABLE" ELSE state)
    /\ eventq' = Tail(eventq)
    /\ UNCHANGED <<type, deleted, listed, retry_interval, main, timers, routerq,
                   commands, failed, overwritten, why>>

\* AVAILABLE.
SetAvailable ==
    /\ Acts("AVAILABLE") /\ state = "UNAVAILABLE"
    /\ state' = "AVAILABLE"
    /\ eventq' = <<LinkAvailableEvent(Head(eventq).reason)>> \o Tail(eventq)
    /\ UNCHANGED <<type, contact, deleted, listed, retry_interval, main, conn, timers,
                   routerq, commands, failed, overwritten, why>>

\* UNAVAILABLE: Main has seen the link AVAILABLE ...
TestAvailable ==
    /\ Acts("UNAVAILABLE") /\ state = "AVAILABLE"
    /\ main' = [at |-> "unavailable", reason |-> Head(eventq).reason]
    /\ eventq' = Tail(eventq)
    /\ UNCHANGED <<type, link, conn, timers, routerq, commands, failed,
                   overwritten, why>>

\* ... and sets it UNAVAILABLE, whatever it has become.
SetUnavailable ==
    /\ Alive /\ main.at = "unavailable"
    /\ main' = Idle
    /\ state' = "UNAVAILABLE"
    /\ overwritten' = (overwritten \/ state # "AVAILABLE")
    /\ why' = main.reason
    /\ eventq' = <<LinkUnavailableEvent(main.reason)>> \o eventq
    /\ UNCHANGED <<type, contact, deleted, listed, retry_interval, conn, timers,
                   routerq, commands, failed>>

\* CLOSED, up to the wait in close_contact: the connection is told to break
\* unless it already has.
StartClose ==
    /\ Acts("CLOSED") /\ (isopen \/ isopening)
    /\ main' = [at |-> "closing", reason |-> Head(eventq).reason]
    /\ eventq' = (IF isopen THEN <<ContactDownEvent(Head(eventq).reason)>> ELSE <<>>)
                 \o Tail(eventq)
    /\ conn' = [conn EXCEPT !.cmd = ~conn.broken]
    /\ UNCHANGED <<type, link, timers, routerq, commands, failed, overwritten, why>>

\* After two seconds Main breaks the contact from its own thread.
force_shutdown ==
    /\ Alive /\ main.at = "closing"
    /\ conn.at # "stopped" /\ ~conn.broken
    /\ conn' = [conn EXCEPT !.broken = TRUE]
    /\ UNCHANGED <<type, link, eventq, main, timers, routerq, commands, failed,
                   overwritten, why>>

\* CLOSED, once the connection thread has stopped: the contact is gone and the
\* link's state follows from the reason.
FinishClose ==
    /\ Alive /\ main.at = "closing" /\ conn.at = "stopped"
    /\ main' = Idle
    /\ conn' = NoConn
    /\ contact' = null
    /\ IF main.reason = "IDLE"
       THEN /\ state' = "AVAILABLE"
            /\ UNCHANGED <<eventq, why>>
       ELSE /\ state' = "UNAVAILABLE"
            /\ eventq' = <<LinkUnavailableEvent(main.reason)>> \o eventq
            /\ why' = main.reason
    /\ UNCHANGED <<type, deleted, listed, retry_interval, timers, routerq, commands,
                   failed, overwritten>>

\* LINK_DELETE and ContactManager::del_link.
handle_link_delete ==
    /\ Takes("LINK_DELETE")
    /\ IF deleted \/ ~listed
       THEN /\ eventq' = Tail(eventq)
            /\ UNCHANGED <<deleted, listed, timers, failed>>
       ELSE /\ failed' = failed \cup DeleteAsserts
            /\ deleted' = TRUE
            /\ listed' = FALSE
            /\ IF availability_timers_ # null THEN CancelTimer ELSE UNCHANGED timers
            /\ eventq' = Tail(eventq)
                 \o (IF isopen \/ isopening
                     THEN <<LinkStateChangeRequest("CLOSED", "NO_INFO")>> ELSE <<>>)
                 \o <<Plain("LINK_DELETED")>>
    /\ UNCHANGED <<type, state, contact, retry_interval, main, conn, routerq, commands,
                   overwritten, why>>

\* LINK_DELETED: nothing of the link's state changes.
handle_link_deleted ==
    /\ Takes("LINK_DELETED")
    /\ eventq' = Tail(eventq)
    /\ UNCHANGED <<type, link, main, conn, timers, routerq, commands, failed,
                   overwritten, why>>

-----------------------------------------------------------------------------
(* The router *)

\* TableBasedRouter::route_bundle opens an available link for a bundle, from
\* the router's thread.
RouterOpens ==
    /\ Alive /\ LinkLockFree
    /\ ~deleted /\ isavailable /\ ~isopen /\ ~isopening
    /\ open_link(state)
    /\ UNCHANGED <<type, deleted, listed, retry_interval, eventq, main, timers,
                   routerq, commands, failed, overwritten, why>>

\* handle_contact_up and handle_contact_down: the link must not be deleted.
RouterHandles ==
    /\ Alive
    /\ \E kind \in routerq : routerq' = routerq \ {kind}
    /\ failed' = IF deleted
                 THEN failed \cup {"router: !link->isdeleted()"} ELSE failed
    /\ UNCHANGED <<type, link, eventq, main, conn, timers, commands,
                   overwritten, why>>

-----------------------------------------------------------------------------
(* The connection thread, CLConnection::run *)

ConnOnly == UNCHANGED <<type, link, eventq, main, timers, routerq, commands, failed,
                        overwritten, why>>

\* The listener accepted a connection of the link's peer.
accept ==
    /\ Alive /\ type = "OPPORTUNISTIC" /\ conn = NoConn
    /\ conn' = [NoConn EXCEPT !.at = "top"]
    /\ ConnOnly

\* An active connection starts to connect; its link must still be opening.
connect ==
    /\ Alive /\ conn.at = "start"
    /\ conn' = [conn EXCEPT !.at = "top"]
    /\ failed' = IF isopening THEN failed
                 ELSE failed \cup {"connect: contact_->link()->isopening()"}
    /\ UNCHANGED <<type, link, eventq, main, timers, routerq, commands, overwritten, why>>

\* The top of the loop: leave if the contact is broken, else obey a command,
\* else send.  Starting the next bundle takes the link's lock.
LoopTop ==
    /\ Alive /\ conn.at = "top"
    /\ \/ /\ conn.broken
          /\ conn' = [conn EXCEPT !.at = "stopped"]
       \/ /\ ~conn.broken /\ conn.cmd
          /\ conn' = [conn EXCEPT !.cmd = FALSE, !.broken = TRUE]
       \/ /\ ~conn.broken /\ ~conn.cmd
          /\ \/ conn.up /\ conn' = [conn EXCEPT !.at = "lock"]
             \/ conn' = [conn EXCEPT !.at = "poll"]
    /\ ConnOnly

start_next_bundle ==
    /\ Alive /\ conn.at = "lock" /\ LinkLockFree
    /\ conn' = [conn EXCEPT !.at = "poll"]
    /\ ConnOnly

\* poll() returned: with the contact broken by Main, or with nothing to do.
PollReturns ==
    /\ Alive /\ conn.at = "poll"
    /\ conn' = [conn EXCEPT !.at = IF conn.broken THEN "stopped" ELSE "top"]
    /\ ConnOnly

\* The peer's contact header arrived on a connection this node opened.
contact_up ==
    /\ Alive /\ conn.at = "poll" /\ ~conn.up /\ ~conn.broken
    /\ conn.contact # null
    /\ conn' = [conn EXCEPT !.up = TRUE, !.at = "top"]
    /\ eventq' = Append(eventq, ContactUpEvent(conn.contact))
    /\ UNCHANGED <<type, link, main, timers, routerq, commands, failed,
                   overwritten, why>>

\* The header arrived on an accepted connection: CLConnection::find_contact
\* attaches it to the idle link, or to another one this model leaves out.
find_contact ==
    /\ Alive /\ conn.at = "poll" /\ ~conn.up /\ ~conn.broken
    /\ conn.contact = null /\ LinkLockFree
    /\ IF listed /\ state \in {"AVAILABLE", "UNAVAILABLE"} /\ contact = null
       THEN /\ contact' = NewContact
            /\ conn' = [conn EXCEPT !.contact = NewContact, !.up = TRUE, !.at = "top"]
            /\ eventq' = Append(eventq, ContactUpEvent(NewContact))
       ELSE /\ conn' = NoConn
            /\ UNCHANGED <<contact, eventq>>
    /\ UNCHANGED <<type, state, deleted, listed, retry_interval, main, timers, routerq,
                   commands, failed, overwritten, why>>

\* The connection fails or has been idle for too long.
break_contact ==
    /\ Alive /\ conn.at = "poll" /\ ~conn.broken
    /\ \E reason \in {"BROKEN", "CL_ERROR"} \cup
                     (IF type = "ONDEMAND" THEN {"IDLE"} ELSE {}) :
         IF conn.contact = null
         THEN conn' = NoConn /\ UNCHANGED eventq
         ELSE /\ conn' = [conn EXCEPT !.broken = TRUE, !.at = "top"]
              /\ eventq' = Append(eventq, LinkStateChangeRequest("CLOSED", reason))
    /\ UNCHANGED <<type, link, main, timers, routerq, commands, failed,
                   overwritten, why>>

-----------------------------------------------------------------------------
(* The operator *)

Command(event) ==
    /\ Alive /\ listed /\ commands < MaxCommands
    /\ commands' = commands + 1
    /\ eventq' = Append(eventq, event)
    /\ UNCHANGED <<type, link, main, conn, timers, routerq, failed, overwritten, why>>

LinkOpenCommand == ~isopen /\ Command(LinkStateChangeRequest("OPEN", "USER"))
LinkCloseCommand ==
    (isopen \/ isopening) /\ Command(LinkStateChangeRequest("CLOSED", "USER"))
LinkDeleteCommand == Command(Plain("LINK_DELETE"))
LinkSetAvailableCommand ==
    \/ ~isavailable /\ Command(LinkStateChangeRequest("AVAILABLE", "USER"))
    \/ state = "AVAILABLE" /\ Command(LinkStateChangeRequest("UNAVAILABLE", "USER"))

-----------------------------------------------------------------------------
Init ==
    /\ type \in Types
    /\ state = IF type = "ONDEMAND" THEN "AVAILABLE" ELSE "UNAVAILABLE"
    /\ contact = null /\ deleted = FALSE /\ listed = TRUE /\ retry_interval = 0
    /\ eventq = <<Plain("LINK_CREATED")>>
    /\ main = Idle /\ conn = NoConn
    /\ availability_timers_ = null /\ scheduled = {} /\ firing = null
    /\ routerq = {} /\ commands = 0 /\ failed = {}
    /\ overwritten = FALSE /\ why = "NO_INFO"

MainSteps ==
    \/ handle_link_created \/ handle_link_available \/ handle_link_unavailable
    \/ handle_contact_up \/ handle_contact_down
    \/ DropRequest \/ OpenRequested \/ SetAvailable
    \/ TestAvailable \/ SetUnavailable
    \/ StartClose \/ force_shutdown \/ FinishClose
    \/ handle_link_delete \/ handle_link_deleted

ConnSteps ==
    \/ connect \/ LoopTop \/ start_next_bundle \/ PollReturns
    \/ contact_up \/ find_contact \/ break_contact

Commands ==
    \/ LinkOpenCommand \/ LinkCloseCommand
    \/ LinkDeleteCommand \/ LinkSetAvailableCommand

Next == \/ MainSteps \/ ConnSteps \/ accept
        \/ TimerExpires \/ reopen_link
        \/ RouterOpens \/ RouterHandles
        \/ Commands

Spec == Init /\ [][Next]_vars

\* Main, the timer thread and the connection thread keep running; a poll()
\* that reports nothing is bounded by its timeout.  Nothing makes the router
\* open the link or the operator type.
Fairness == /\ WF_vars(MainSteps)
            /\ WF_vars(TimerExpires) /\ WF_vars(reopen_link)
            /\ WF_vars(connect \/ LoopTop \/ start_next_bundle \/ PollReturns)

FairSpec == Spec /\ Fairness

-----------------------------------------------------------------------------
\* Types of the state (Link.h, ContactManager.h, CLConnection.h).
TypeOK ==
    /\ type \in Types
    /\ state \in {"UNAVAILABLE", "AVAILABLE", "OPENING", "OPEN"}
    /\ contact \in Contacts \cup {null}
    /\ deleted \in BOOLEAN /\ listed \in BOOLEAN
    /\ retry_interval \in 0 .. max_retry_interval
    /\ main.at \in {"idle", "unavailable", "closing"}
    /\ conn.contact \in Contacts \cup {null}
    /\ conn.at \in {"none", "start", "top", "lock", "poll", "stopped"}
    /\ availability_timers_ \in Timers \cup {null}
    /\ scheduled \subseteq Timers /\ firing \in Timers \cup {null}
    /\ commands \in 0 .. MaxCommands

\* A contact that only Main has yet to hear of.
Announced == \E i \in DOMAIN eventq : eventq[i] = ContactUpEvent(contact)

\* Link.h: "Current contact. contact_ != null iff link is open".  Between the
\* handlers of Main an open or opening link has a contact, served by the one
\* connection there is, and a contact belongs to an open or opening link, to a
\* connection that found the link and whose CONTACT_UP Main has not handled,
\* or to a link set UNAVAILABLE while the router was opening it.
ContactMatchesState ==
    Alive /\ main.at # "closing" =>
        /\ conn.contact # null => conn.contact = contact
        /\ isopen \/ isopening => contact # null /\ conn.contact = contact
        /\ contact # null => isopen \/ isopening \/ Announced \/ overwritten

\* handle_link_state_change_request drops a request made under another
\* contact, so that a connection is closed as broken or idle only when it is
\* that connection, and no earlier one of the link, that broke or went idle.
OnlyBrokenIsClosed ==
    main.at = "closing" /\ main.reason \in {"BROKEN", "CL_ERROR", "IDLE"}
        => conn.broken

\* Main waits for a connection thread that waits for the lock Main holds.
Embrace == main.at = "closing" /\ conn.at = "lock"

\* ContactManager::handle_link_unavailable and reopen_link: an always-on or
\* on-demand link that became unavailable for a reason other than the user's
\* or idleness is opened again, whatever timers were cancelled, collided in
\* the map or were firing meanwhile.
ReopensAfterFailure ==
    (/\ type \in {"ALWAYSON", "ONDEMAND"} /\ state = "UNAVAILABLE" /\ contact = null
     /\ why \in {"BROKEN", "CL_ERROR"})
      ~> (state # "UNAVAILABLE" \/ deleted \/ ~Alive)

\* CLConnection::break_contact and close_contact: a connection that broke is
\* closed and its contact released, even on a link deleted in the meantime.
BrokenIsReleased ==
    (conn.broken /\ conn.contact # null)
      ~> (conn = NoConn \/ overwritten \/ Embrace \/ ~Alive)

\* Every ASSERT on the link's state holds.
AssertsHold == failed = {}

\* Link::close: "release lock before cloes_contact".  A close that Main has
\* begun comes to an end.
CloseCompletes == (main.at = "closing") ~> (main.at # "closing")

=============================================================================
