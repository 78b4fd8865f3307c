------------------------- MODULE LinkContactProofs ---------------------------
(***************************************************************************)
(* The contact of a link, proved for every sequence of events, however      *)
(* long, and any number of contacts: a contact belongs to a link that is    *)
(* open, being opened or about to be (ContactStaysMatched), and a link is   *)
(* closed as broken or idle only when its present connection is             *)
(* (StaleBreakIsDropped).                                                   *)
(*                                                                          *)
(* Both rest on one invariant, LinkInv.  It follows the link's contact into *)
(* the event queue: a request to close the link as broken that names the    *)
(* present contact was posted by the present connection, because a new      *)
(* contact is no contact a queued event names.                              *)
(***************************************************************************)
EXTENDS LinkContact, TLAPS

\* Leaves about sequences and numbers cite SMT, the others go to Zenon.
USE Zenon

\* A Contact is an object of its own: there is always another one.
NeverExhausted == \A n \in Nat : \E c \in Contacts : c > n

-----------------------------------------------------------------------------
(* The event queue *)

Kinds == {"LINK_CREATED", "LINK_AVAILABLE", "LINK_UNAVAILABLE", "CONTACT_UP",
          "CONTACT_DOWN", "LINK_STATE_CHANGE_REQUEST", "LINK_DELETE", "LINK_DELETED"}
States == {"", "OPEN", "CLOSED", "AVAILABLE", "UNAVAILABLE"}
Events == [type : Kinds, new : States, reason : Reasons, contact : Contacts \cup {null}]

\* The events in a queue.
In(q) == {q[i] : i \in DOMAIN q}

LEMMA AtIn == ASSUME NEW q, NEW i \in DOMAIN q PROVE q[i] \in In(q)
BY DEF In

(* Main takes the head of its queue; the rest stays. *)
LEMMA TailIn ==
    ASSUME NEW q \in Seq(Events), q # <<>>
    PROVE  /\ Tail(q) \in Seq(Events) /\ Head(q) \in Events
           /\ In(q) = In(Tail(q)) \cup {Head(q)}
<1>1. Tail(q) \in Seq(Events) /\ Head(q) \in Events /\ Head(q) \in In(q)
  BY SMT DEF In
<1>2. \A e \in In(Tail(q)) : e \in In(q)
  BY SMT DEF In
<1>3. ASSUME NEW e \in In(q) PROVE e \in In(Tail(q)) \/ e = Head(q)
  <2>1. PICK i \in DOMAIN q : e = q[i]
    BY <1>3 DEF In
  <2>2. CASE i = 1
    BY SMT, <2>1, <2>2
  <2>3. CASE i # 1
    <3>1. i - 1 \in DOMAIN Tail(q) /\ Tail(q)[i - 1] = q[i]
      BY SMT, <2>1, <2>3
    <3> QED BY <3>1, <2>1 DEF In
  <2> QED BY <2>2, <2>3
<1> QED BY <1>1, <1>2, <1>3

(* An event is posted behind the others ... *)
LEMMA AppendIn ==
    ASSUME NEW q \in Seq(Events), NEW e \in Events
    PROVE  Append(q, e) \in Seq(Events) /\ In(Append(q, e)) = In(q) \cup {e}
<1>1. Append(q, e) \in Seq(Events)
  BY SMT
<1>2. \A f \in In(Append(q, e)) : f \in In(q) \cup {e}
  BY SMT DEF In
<1>3. \A i \in DOMAIN q : i \in DOMAIN Append(q, e) /\ Append(q, e)[i] = q[i]
  BY SMT
<1>4. Len(q) + 1 \in DOMAIN Append(q, e) /\ Append(q, e)[Len(q) + 1] = e
  BY SMT
<1> QED BY <1>1, <1>2, <1>3, <1>4 DEF In

(* ... or before them. *)
LEMMA PrependIn ==
    ASSUME NEW q \in Seq(Events), NEW e \in Events
    PROVE  <<e>> \o q \in Seq(Events) /\ In(<<e>> \o q) = In(q) \cup {e}
<1>1. <<e>> \o q \in Seq(Events)
  BY SMT
<1>2. \A f \in In(<<e>> \o q) : f \in In(q) \cup {e}
  BY SMT DEF In
<1>3. \A i \in DOMAIN q : i + 1 \in DOMAIN (<<e>> \o q) /\ (<<e>> \o q)[i + 1] = q[i]
  BY SMT
<1>4. 1 \in DOMAIN (<<e>> \o q) /\ (<<e>> \o q)[1] = e
  BY SMT
<1>5. ASSUME NEW i \in DOMAIN q PROVE q[i] \in In(<<e>> \o q)
  BY <1>3, AtIn
<1>6. \A f \in In(q) : f \in In(<<e>> \o q)
  BY <1>5 DEF In
<1>7. e \in In(<<e>> \o q)
  BY <1>4, AtIn
<1> QED BY <1>1, <1>2, <1>6, <1>7

-----------------------------------------------------------------------------
(* The invariant *)

Failure == {"BROKEN", "CL_ERROR", "IDLE"}

\* A connection's request to close the link because it broke or went idle.
ClosesBroken(e) ==
    e.type = "LINK_STATE_CHANGE_REQUEST" /\ e.new = "CLOSED" /\ e.reason \in Failure

MainStates == [at : {"idle", "unavailable", "closing"}, reason : Reasons]
ConnPlaces == {"none", "start", "top", "lock", "poll", "stopped"}
Connections == [contact : Contacts \cup {null}, at : ConnPlaces, up : BOOLEAN,
                broken : BOOLEAN, cmd : BOOLEAN]

LinkTypes ==
    /\ type \in Types
    /\ state \in {"UNAVAILABLE", "AVAILABLE", "OPENING", "OPEN"}
    /\ contact \in Contacts \cup {null}
    /\ deleted \in BOOLEAN
    /\ eventq \in Seq(Events)
    /\ main \in MainStates
    /\ conn \in Connections

\* The contacts in use have an upper bound, so that a new one exists.
Bounded == \E n \in Nat : contact <= n /\ \A e \in In(eventq) : e.contact <= n

\* A contact is accounted for by the link's state or by a CONTACT_UP in the
\* queue; the latter opens the link only while it is not deleted.
Explained ==
    Alive /\ contact # null =>
        isopen \/ isopening \/ overwritten
               \/ (~deleted /\ ContactUpEvent(contact) \in In(eventq))

LinkInv ==
    /\ LinkTypes
    /\ Bounded
    /\ conn.contact = contact
    /\ listed = ~deleted
    /\ isopen \/ isopening => contact # null
    /\ main.at = "closing" => isopen \/ isopening
    /\ main.at = "closing" /\ main.reason \in Failure => conn.broken
    /\ Explained
    /\ \A e \in In(eventq) : e.type = "CONTACT_UP" => e.contact # null
    /\ \A e \in In(eventq) :
         ClosesBroken(e) /\ e.contact = contact /\ contact # null => conn.broken

(* A new Contact is one that neither the link, nor its connection, nor any   *)
(* queued event refers to.                                                  *)
LEMMA NewContactIsNew ==
    ASSUME NeverExhausted, LinkInv
    PROVE  /\ NewContact \in Contacts /\ NewContact # null
           /\ \A e \in In(eventq) : e.contact # NewContact
<1>1. PICK n \in Nat : contact <= n /\ \A e \in In(eventq) : e.contact <= n
  BY DEF LinkInv, Bounded
<1>2. PICK c \in Contacts : c > n
  BY <1>1 DEF NeverExhausted
<1>3. c \in Nat /\ conn.contact = contact
  BY <1>2, LinkAssumption DEF LinkInv
<1>4. c # contact
  BY SMT, <1>1, <1>2, <1>3, LinkAssumption DEF LinkInv, LinkTypes, null
<1>5. \A i \in DOMAIN eventq : eventq[i].contact # c
  <2>1. \A i \in DOMAIN eventq : eventq[i].contact <= n
    BY <1>1 DEF In
  <2> QED BY SMT, <2>1, <1>1, <1>2, <1>3
<1>6. \E x \in Contacts : /\ x # contact /\ x # conn.contact
                          /\ \A i \in DOMAIN eventq : eventq[i].contact # x
  BY <1>2, <1>3, <1>4, <1>5
<1>7. /\ NewContact \in Contacts
      /\ \A i \in DOMAIN eventq : eventq[i].contact # NewContact
  BY <1>6 DEF NewContact
<1> QED BY <1>7, LinkAssumption DEF null, In
-----------------------------------------------------------------------------
(* Steps *)

(* A step that leaves the link's state and contact alone keeps LinkInv, if   *)
(* what it posts is about the present contact, a connection that posts that  *)
(* it broke is broken, and no CONTACT_UP is taken from the queue.           *)
LEMMA LinkUnchanged ==
    ASSUME LinkInv, LinkTypes',
           state' = state, contact' = contact, deleted' = deleted, listed' = listed,
           overwritten' = overwritten, Alive' => Alive,
           main' = main \/ main'.at # "closing",
           conn'.contact = conn.contact, conn.broken => conn'.broken,
           \A e \in In(eventq') : e \in In(eventq) \/
               /\ e.contact \in {null, contact}
               /\ e.type = "CONTACT_UP" => e.contact # null
               /\ ClosesBroken(e) => conn'.broken,
           \A e \in In(eventq) : e \in In(eventq') \/ e.type # "CONTACT_UP"
    PROVE  LinkInv'
<1>1. Bounded'
  <2>1. PICK n \in Nat : contact <= n /\ \A e \in In(eventq) : e.contact <= n
    BY DEF LinkInv, Bounded
  <2>2. null <= n
    BY SMT DEF null
  <2>3. \A e \in In(eventq') : e.contact <= n
    BY <2>1, <2>2
  <2> QED BY <2>1, <2>3 DEF Bounded
<1>2. Explained'
  <2>1. ContactUpEvent(contact).type = "CONTACT_UP"
    BY DEF ContactUpEvent, Event
  <2>2. ContactUpEvent(contact) \in In(eventq) => ContactUpEvent(contact) \in In(eventq')
    BY <2>1
  <2> QED BY <2>2 DEF LinkInv, Explained, isopen, isopening, ContactUpEvent, Event
<1>3. \A e \in In(eventq') : e.type = "CONTACT_UP" => e.contact # null
  BY DEF LinkInv
<1>4. \A e \in In(eventq') :
        ClosesBroken(e) /\ e.contact = contact' /\ contact' # null => conn'.broken
  BY DEF LinkInv
<1>5. /\ main'.at = "closing" => isopen' \/ isopening'
      /\ main'.at = "closing" /\ main'.reason \in Failure => conn'.broken
  BY DEF LinkInv, isopen, isopening
<1>6. /\ conn'.contact = contact' /\ listed' = ~deleted'
      /\ isopen' \/ isopening' => contact' # null
  BY DEF LinkInv, isopen, isopening
<1> QED BY <1>1, <1>2, <1>3, <1>4, <1>5, <1>6 DEF LinkInv, ClosesBroken, null, Failure

(* The events the handlers post. *)
LEMMA EventTypes ==
    ASSUME LinkTypes
    PROVE  /\ \A t \in {"LINK_CREATED", "LINK_DELETE", "LINK_DELETED"} : Plain(t) \in Events
           /\ \A n \in {"OPEN", "CLOSED", "AVAILABLE", "UNAVAILABLE"}, r \in Reasons :
                LinkStateChangeRequest(n, r) \in Events
           /\ \A c \in Contacts \cup {null} : ContactUpEvent(c) \in Events
           /\ \A r \in Reasons : /\ ContactDownEvent(r) \in Events
                                 /\ LinkUnavailableEvent(r) \in Events
                                 /\ LinkAvailableEvent(r) \in Events
<1>1. ASSUME NEW c \in Contacts \cup {null}, NEW r \in Reasons,
             NEW n \in States, NEW t \in Kinds
      PROVE  Event(t, n, r, c) \in Events
  BY SMT DEF Events, Event
<1>2. contact \in Contacts \cup {null} /\ null \in Contacts \cup {null}
      /\ "NO_INFO" \in Reasons
  BY DEF LinkTypes, Reasons
<1>3. /\ \A t \in {"LINK_CREATED", "LINK_DELETE", "LINK_DELETED"} : Plain(t) \in Events
      /\ \A c \in Contacts \cup {null} : ContactUpEvent(c) \in Events
  BY <1>1, <1>2 DEF Plain, ContactUpEvent, Kinds, States
<1>4. \A n \in {"OPEN", "CLOSED", "AVAILABLE", "UNAVAILABLE"}, r \in Reasons :
        LinkStateChangeRequest(n, r) \in Events
  BY <1>1, <1>2 DEF LinkStateChangeRequest, Kinds, States
<1>5. \A r \in Reasons : /\ ContactDownEvent(r) \in Events
                         /\ LinkUnavailableEvent(r) \in Events
                         /\ LinkAvailableEvent(r) \in Events
  BY <1>1, <1>2 DEF ContactDownEvent, LinkUnavailableEvent, LinkAvailableEvent,
                         Kinds, States
<1> QED BY <1>3, <1>4, <1>5

(* What is left in the queue when Main has taken an event of type t. *)
LEMMA Taken ==
    ASSUME LinkInv, NEW t, Takes(t)
    PROVE  /\ Tail(eventq) \in Seq(Events) /\ Head(eventq) \in Events
           /\ Head(eventq) \in In(eventq) /\ Head(eventq).type = t
           /\ Head(eventq).reason \in Reasons
           /\ \A e \in In(Tail(eventq)) : e \in In(eventq)
           /\ \A e \in In(eventq) : e \in In(Tail(eventq)) \/ e = Head(eventq)
           /\ main = Idle /\ Alive
<1>1. eventq \in Seq(Events) /\ eventq # <<>>
  BY DEF LinkInv, LinkTypes, Takes
<1>2. /\ Tail(eventq) \in Seq(Events) /\ Head(eventq) \in Events
      /\ In(eventq) = In(Tail(eventq)) \cup {Head(eventq)}
  BY <1>1, TailIn
<1>3. Head(eventq).reason \in Reasons
  BY SMT, <1>2 DEF Events
<1> QED BY <1>2, <1>3 DEF Takes, MainReady

(* A handler of Main that only takes its event, one other than CONTACT_UP. *)
LEMMA OnlyTakes ==
    ASSUME LinkInv, NEW t, Takes(t), t # "CONTACT_UP", eventq' = Tail(eventq),
           UNCHANGED <<type, state, contact, deleted, listed, conn, overwritten>>,
           main' \in MainStates, main'.at # "closing", Alive' => Alive
    PROVE  LinkInv'
<1>1. /\ eventq' \in Seq(Events)
      /\ \A e \in In(eventq') : e \in In(eventq)
      /\ \A e \in In(eventq) : e \in In(eventq') \/ e.type # "CONTACT_UP"
  BY Taken
<1>2. LinkTypes'
  BY <1>1 DEF LinkInv, LinkTypes
<1> QED BY <1>1, <1>2, LinkUnchanged

(* A step that posts one event about the present contact and leaves the      *)
(* link and Main alone.                                                     *)
LEMMA OnlyPosts ==
    ASSUME LinkInv, NEW e \in Events, eventq' = Append(eventq, e),
           UNCHANGED <<type, state, contact, deleted, listed, main, overwritten, failed>>,
           conn' \in Connections, conn'.contact = conn.contact,
           conn.broken => conn'.broken,
           e.contact \in {null, contact},
           e.type = "CONTACT_UP" => e.contact # null,
           ClosesBroken(e) => conn'.broken
    PROVE  LinkInv'
<1>1. eventq' \in Seq(Events) /\ In(eventq') = In(eventq) \cup {e}
  BY AppendIn DEF LinkInv, LinkTypes
<1>2. LinkTypes'
  BY <1>1 DEF LinkInv, LinkTypes
<1>3. Alive' => Alive
  BY DEF Alive
<1> QED BY <1>1, <1>2, <1>3, LinkUnchanged

(* A step that leaves the queue, the link and Main alone. *)
LEMMA NoEvent ==
    ASSUME LinkInv, Alive,
           UNCHANGED <<type, state, contact, deleted, listed, eventq, main, overwritten>>,
           conn' \in Connections, conn'.contact = conn.contact,
           conn.broken => conn'.broken
    PROVE  LinkInv'
<1>1. LinkTypes'
  BY DEF LinkInv, LinkTypes
<1>2. In(eventq') = In(eventq)
  BY DEF In
<1> QED BY <1>1, <1>2, LinkUnchanged

LEMMA NoConnType == NoConn \in Connections /\ NoConn.contact = null /\ ~NoConn.broken
BY DEF NoConn, Connections, ConnPlaces, null

LEMMA IdleType == Idle \in MainStates /\ Idle.at = "idle"
BY DEF Idle, MainStates, Reasons

(* The connection thread's own steps: the contact stays, and what broke      *)
(* stays broken.                                                            *)
LEMMA ConnectionSteps ==
    ASSUME LinkInv, accept \/ connect \/ LoopTop \/ start_next_bundle \/ PollReturns
                    \/ force_shutdown
    PROVE  LinkInv'
<1>1. conn \in Connections
  BY DEF LinkInv, LinkTypes
<1>2. /\ UNCHANGED <<type, state, contact, deleted, listed, eventq, main, overwritten>>
      /\ Alive
  BY DEF accept, connect, LoopTop, start_next_bundle, PollReturns, force_shutdown,
         ConnOnly, link
<1>3. CASE accept
  <2>1. conn' = [NoConn EXCEPT !.at = "top"] /\ conn = NoConn
    BY <1>3 DEF accept
  <2>2. conn' \in Connections /\ conn'.contact = conn.contact /\ conn'.broken = conn.broken
    BY <2>1 DEF NoConn, Connections, ConnPlaces, null
  <2> QED BY <1>2, <2>2, NoEvent
<1>4. CASE connect
  <2>1. conn' = [conn EXCEPT !.at = "top"]
    BY <1>4 DEF connect
  <2>2. conn' \in Connections /\ conn'.contact = conn.contact /\ conn'.broken = conn.broken
    BY SMT, <1>1, <2>1 DEF Connections, ConnPlaces
  <2> QED BY <1>2, <2>2, NoEvent
<1>5. CASE LoopTop
  <2>1. \/ conn' = [conn EXCEPT !.at = "stopped"]
        \/ conn' = [conn EXCEPT !.cmd = FALSE, !.broken = TRUE]
        \/ conn' = [conn EXCEPT !.at = "lock"]
        \/ conn' = [conn EXCEPT !.at = "poll"]
    BY <1>5 DEF LoopTop
  <2>2. /\ conn' \in Connections /\ conn'.contact = conn.contact
        /\ conn.broken => conn'.broken
    BY <1>1, <2>1 DEF Connections, ConnPlaces
  <2> QED BY <1>2, <2>2, NoEvent
<1>6. CASE start_next_bundle
  <2>1. conn' = [conn EXCEPT !.at = "poll"]
    BY <1>6 DEF start_next_bundle
  <2>2. conn' \in Connections /\ conn'.contact = conn.contact /\ conn'.broken = conn.broken
    BY SMT, <1>1, <2>1 DEF Connections, ConnPlaces
  <2> QED BY <1>2, <2>2, NoEvent
<1>7. CASE PollReturns
  <2>1. conn' = [conn EXCEPT !.at = "stopped"] \/ conn' = [conn EXCEPT !.at = "top"]
    BY <1>7 DEF PollReturns
  <2>2. conn' \in Connections /\ conn'.contact = conn.contact /\ conn'.broken = conn.broken
    BY SMT, <1>1, <2>1 DEF Connections, ConnPlaces
  <2> QED BY <1>2, <2>2, NoEvent
<1>8. CASE force_shutdown
  <2>1. conn' = [conn EXCEPT !.broken = TRUE]
    BY <1>8 DEF force_shutdown
  <2>2. conn' \in Connections /\ conn'.contact = conn.contact /\ conn'.broken = TRUE
    BY <1>1, <2>1 DEF Connections
  <2> QED BY <1>2, <2>2, NoEvent
<1> QED BY <1>3, <1>4, <1>5, <1>6, <1>7, <1>8

(* The header of an opened connection arrives, or a connection breaks: the   *)
(* event that says so carries the link's present contact.                   *)
LEMMA ConnectionPosts ==
    ASSUME LinkInv, contact_up \/ break_contact
    PROVE  LinkInv'
<1>1. conn \in Connections /\ conn.contact = contact
  BY DEF LinkInv, LinkTypes
<1>2. UNCHANGED <<type, state, contact, deleted, listed, main, overwritten, failed>> /\ Alive
  BY DEF contact_up, break_contact, link
<1>3. CASE contact_up
  <2> DEFINE e == ContactUpEvent(contact)
  <2>1. /\ conn' = [conn EXCEPT !.up = TRUE, !.at = "top"]
        /\ eventq' = Append(eventq, e) /\ contact # null
    BY <1>1, <1>3 DEF contact_up
  <2>2. conn' \in Connections /\ conn'.contact = conn.contact /\ conn'.broken = conn.broken
    BY <1>1, <2>1 DEF Connections, ConnPlaces
  <2>3. e \in Events
    BY EventTypes DEF LinkInv, LinkTypes
  <2>4. e.contact = contact /\ ~ClosesBroken(e)
    BY DEF ContactUpEvent, Event, ClosesBroken
  <2> HIDE DEF e
  <2> QED BY <1>2, <2>1, <2>2, <2>3, <2>4, OnlyPosts
<1>4. CASE break_contact
  <2>1. PICK reason \in {"BROKEN", "CL_ERROR", "IDLE"} :
          IF conn.contact = null
          THEN conn' = NoConn /\ UNCHANGED eventq
          ELSE /\ conn' = [conn EXCEPT !.broken = TRUE, !.at = "top"]
               /\ eventq' = Append(eventq, LinkStateChangeRequest("CLOSED", reason))
    BY <1>4 DEF break_contact
  <2>2. CASE conn.contact = null
    <3>1. conn' = NoConn /\ UNCHANGED eventq /\ ~conn.broken
      BY <1>4, <2>1, <2>2 DEF break_contact
    <3>2. conn' \in Connections /\ conn'.contact = conn.contact
      BY <2>2, <3>1, NoConnType
    <3> QED BY <1>2, <3>1, <3>2, NoEvent
  <2>3. CASE conn.contact # null
    <3> DEFINE e == LinkStateChangeRequest("CLOSED", reason)
    <3>1. /\ conn' = [conn EXCEPT !.broken = TRUE, !.at = "top"]
          /\ eventq' = Append(eventq, e)
      BY <2>1, <2>3
    <3>2. conn' \in Connections /\ conn'.contact = conn.contact /\ conn'.broken = TRUE
      BY <1>1, <3>1 DEF Connections, ConnPlaces
    <3>3. e \in Events
      BY EventTypes DEF LinkInv, Reasons
    <3>4. e.contact = contact /\ e.type # "CONTACT_UP"
      BY DEF LinkStateChangeRequest, Event
    <3> HIDE DEF e
    <3> QED BY <1>2, <3>1, <3>2, <3>3, <3>4, OnlyPosts
  <2> QED BY <2>2, <2>3
<1> QED BY <1>3, <1>4

(* What the timer, the router and the operator post names the present       *)
(* contact or none, and never says that a connection broke.                 *)
LEMMA OthersPost ==
    ASSUME LinkInv, TimerExpires \/ reopen_link \/ RouterHandles \/ Commands
    PROVE  LinkInv'
<1>1. conn \in Connections /\ LinkTypes
  BY DEF LinkInv, LinkTypes
<1>2. ASSUME NEW n \in {"OPEN", "CLOSED", "AVAILABLE", "UNAVAILABLE"},
             NEW r \in {"USER", "RECONNECT"},
             UNCHANGED <<type, state, contact, deleted, listed, main, conn, overwritten, failed>>,
             eventq' = Append(eventq, LinkStateChangeRequest(n, r))
      PROVE  LinkInv'
  <2> DEFINE e == LinkStateChangeRequest(n, r)
  <2>1. e \in Events
    BY <1>1, EventTypes DEF Reasons
  <2>2. e.contact = contact /\ e.type # "CONTACT_UP" /\ ~ClosesBroken(e)
    BY DEF LinkStateChangeRequest, Event, ClosesBroken, Failure
  <2> HIDE DEF e
  <2> QED BY <1>1, <1>2, <2>1, <2>2, OnlyPosts DEF e
<1>3. ASSUME TimerExpires \/ RouterHandles \/ (reopen_link /\ eventq' = eventq)
      PROVE  LinkInv'
  <2>1. UNCHANGED <<type, state, contact, deleted, listed, eventq, main, conn, overwritten>>
        /\ Alive
    BY <1>3 DEF TimerExpires, RouterHandles, reopen_link, link
  <2> QED BY <1>1, <2>1, NoEvent
<1>4. CASE reopen_link
  <2>1. UNCHANGED <<type, state, contact, deleted, listed, main, conn, overwritten, failed>>
    BY <1>4 DEF reopen_link, link
  <2>2. eventq' = eventq
        \/ eventq' = Append(eventq, LinkStateChangeRequest("OPEN", "RECONNECT"))
    BY <1>4 DEF reopen_link
  <2> QED BY <1>2, <1>3, <1>4, <2>1, <2>2
<1>5. CASE Commands
  <2>1. UNCHANGED <<type, state, contact, deleted, listed, main, conn, overwritten, failed>>
    BY <1>5 DEF Commands, LinkOpenCommand, LinkCloseCommand, LinkDeleteCommand,
                LinkSetAvailableCommand, Command, link
  <2>2. (\E n \in {"OPEN", "CLOSED", "AVAILABLE", "UNAVAILABLE"} :
           eventq' = Append(eventq, LinkStateChangeRequest(n, "USER")))
        \/ eventq' = Append(eventq, Plain("LINK_DELETE"))
    BY <1>5 DEF Commands, LinkOpenCommand, LinkCloseCommand, LinkDeleteCommand,
                LinkSetAvailableCommand, Command
  <2>3. CASE eventq' = Append(eventq, Plain("LINK_DELETE"))
    <3> DEFINE e == Plain("LINK_DELETE")
    <3>1. e \in Events
      BY <1>1, EventTypes
    <3>2. e.contact = null /\ e.type # "CONTACT_UP" /\ ~ClosesBroken(e)
      BY DEF Plain, Event, ClosesBroken
    <3> HIDE DEF e
    <3> QED BY <1>1, <2>1, <2>3, <3>1, <3>2, OnlyPosts DEF e
  <2> QED BY <1>2, <2>1, <2>2, <2>3
<1> QED BY <1>3, <1>4, <1>5

(* The handlers of Main that change nothing of the link. *)
LEMMA MainOnlyTakes ==
    ASSUME LinkInv, handle_link_available \/ handle_link_unavailable
                    \/ handle_contact_down \/ DropRequest \/ TestAvailable
                    \/ handle_link_deleted
    PROVE  LinkInv'
<1>1. /\ UNCHANGED <<type, state, contact, deleted, listed, conn, overwritten>>
      /\ eventq' = Tail(eventq)
  BY DEF handle_link_available, handle_link_unavailable, handle_contact_down,
         DropRequest, TestAvailable, handle_link_deleted, link
<1>2. PICK t \in {"LINK_AVAILABLE", "LINK_UNAVAILABLE", "CONTACT_DOWN",
                  "LINK_STATE_CHANGE_REQUEST", "LINK_DELETED"} : Takes(t)
  BY DEF handle_link_available, handle_link_unavailable, handle_contact_down,
         DropRequest, TestAvailable, handle_link_deleted, Acts
<1>3. t # "CONTACT_UP"
  OBVIOUS
<1>4. Alive /\ main = Idle /\ Head(eventq).reason \in Reasons
  BY <1>2, Taken
<1>5. main' = main \/ main' = [at |-> "unavailable", reason |-> Head(eventq).reason]
  BY DEF handle_link_available, handle_link_unavailable, handle_contact_down,
         DropRequest, TestAvailable, handle_link_deleted
<1>6. main' \in MainStates /\ main'.at # "closing"
  <2>1. CASE main' = main
    BY <2>1, <1>4, IdleType
  <2>2. CASE main' = [at |-> "unavailable", reason |-> Head(eventq).reason]
    BY <2>2, <1>4 DEF MainStates
  <2> QED BY <1>5, <2>1, <2>2
<1> QED BY <1>1, <1>2, <1>3, <1>4, <1>6, OnlyTakes

(* LINK_CREATED: a new link asks to be opened, or says it is available. *)
LEMMA CreatedPosts == ASSUME LinkInv, handle_link_created PROVE LinkInv'
<1>1. /\ UNCHANGED <<type, state, contact, deleted, listed, main, conn, overwritten, failed>>
      /\ Takes("LINK_CREATED")
  BY DEF handle_link_created, link
<1>2. Tail(eventq) \in Seq(Events) /\ LinkTypes /\ Alive /\ main = Idle
  BY <1>1, Taken DEF LinkInv
<1>3. CASE eventq' = Tail(eventq)
  BY <1>1, <1>2, <1>3, IdleType, OnlyTakes DEF Alive
<1>4. CASE eventq' # Tail(eventq)
  <2>1. PICK e \in {LinkStateChangeRequest("OPEN", "USER"), LinkAvailableEvent("NO_INFO")} :
          eventq' = <<e>> \o Tail(eventq) \/ eventq' = Append(Tail(eventq), e)
    <3>1. eventq' = set_initial_state(Tail(eventq)) /\ eventq' # Tail(eventq)
      BY <1>4 DEF handle_link_created
    <3>2. type \in {"ALWAYSON", "ONDEMAND", "OPPORTUNISTIC"}
      BY LinkAssumption DEF LinkInv, LinkTypes
    <3>3. CASE type = "ALWAYSON"
      BY <3>1, <3>3 DEF set_initial_state
    <3>4. CASE type = "ONDEMAND"
      BY <3>1, <3>4 DEF set_initial_state
    <3>5. CASE type = "OPPORTUNISTIC"
      BY <3>1, <3>5 DEF set_initial_state
    <3> QED BY <3>2, <3>3, <3>4, <3>5
  <2>2. e \in Events
    <3>1. "USER" \in Reasons /\ "NO_INFO" \in Reasons
      BY DEF Reasons
    <3> QED BY <1>2, <2>1, <3>1, EventTypes
  <2>3. e.contact \in {null, contact} /\ e.type # "CONTACT_UP" /\ ~ClosesBroken(e)
    <3>1. CASE e = LinkStateChangeRequest("OPEN", "USER")
      BY <3>1 DEF LinkStateChangeRequest, Event, ClosesBroken
    <3>2. CASE e = LinkAvailableEvent("NO_INFO")
      BY <3>2 DEF LinkAvailableEvent, Event, ClosesBroken
    <3> QED BY <2>1, <3>1, <3>2
  <2>4. eventq' \in Seq(Events) /\ In(eventq') = In(Tail(eventq)) \cup {e}
    BY <1>2, <2>1, <2>2, AppendIn, PrependIn
  <2>5. LinkTypes'
    BY <1>1, <2>4 DEF LinkInv, LinkTypes
  <2>6. /\ \A f \in In(eventq') : f \in In(eventq) \/ f = e
        /\ \A f \in In(eventq) : f \in In(eventq') \/ f.type # "CONTACT_UP"
    <3>1. /\ \A f \in In(Tail(eventq)) : f \in In(eventq)
          /\ \A f \in In(eventq) : f \in In(Tail(eventq)) \/ f.type = "LINK_CREATED"
      BY <1>1, Taken
    <3> QED BY <2>4, <3>1
  <2> QED BY <1>1, <1>2, <2>3, <2>5, <2>6, LinkUnchanged DEF Alive
<1> QED BY <1>3, <1>4

(* The contacts in use stay bounded when a step takes one new contact. *)
LEMMA StaysBounded ==
    ASSUME LinkInv, NEW c \in Contacts \cup {null}, contact' \in {null, contact, c},
           \A e \in In(eventq') : e \in In(eventq) \/ e.contact \in {null, contact, c}
    PROVE  Bounded'
<1>1. PICK n \in Nat : contact <= n /\ \A e \in In(eventq) : e.contact <= n
  BY DEF LinkInv, Bounded
<1>2. c \in Nat /\ contact \in Nat /\ \A e \in In(eventq) : e.contact \in Nat
  <2>1. \A e \in Events : e.contact \in Contacts \cup {null}
    BY DEF Events
  <2>2. \A e \in In(eventq) : e \in Events
    <3>1. \A i \in DOMAIN eventq : eventq[i] \in Events
      BY SMT DEF LinkInv, LinkTypes
    <3> QED BY <3>1 DEF In
  <2>3. Contacts \cup {null} \subseteq Nat
    BY SMT, LinkAssumption DEF null
  <2> QED BY <2>1, <2>2, <2>3 DEF LinkInv, LinkTypes
<1>3. n + c \in Nat /\ null <= n + c /\ contact <= n + c /\ c <= n + c
  BY SMT, <1>1, <1>2 DEF null
<1>4. \A e \in In(eventq) : e.contact <= n + c
  BY SMT, <1>1, <1>2
<1>5. contact' <= n + c /\ \A e \in In(eventq') : e.contact <= n + c
  BY <1>3, <1>4
<1> QED BY <1>3, <1>5 DEF Bounded

(* Opening the link takes a new contact, or nothing happens to the contact.  *)
LEMMA Opens ==
    ASSUME NeverExhausted, LinkInv,
           NEW s \in {"UNAVAILABLE", "AVAILABLE", "OPENING", "OPEN"}, open_link(s),
           s = state \/ (s = "AVAILABLE" /\ state = "UNAVAILABLE"),
           main.at # "closing",
           UNCHANGED <<type, deleted, listed, main, failed, overwritten>>,
           eventq' \in Seq(Events),
           \A e \in In(eventq') : e \in In(eventq),
           \A e \in In(eventq) : e \in In(eventq') \/ e.type # "CONTACT_UP"
    PROVE  LinkInv'
<1>1. CASE state' = s /\ UNCHANGED <<contact, conn>>
  <2>1. LinkTypes'
    BY <1>1 DEF LinkInv, LinkTypes
  <2>2. Bounded'
    BY <1>1, StaysBounded DEF LinkInv, LinkTypes
  <2>3. Explained'
    <3>1. ContactUpEvent(contact).type = "CONTACT_UP"
      BY DEF ContactUpEvent, Event
    <3>2. ContactUpEvent(contact) \in In(eventq) => ContactUpEvent(contact) \in In(eventq')
      BY <3>1
    <3>3. (isopen \/ isopening) => (isopen' \/ isopening')
      BY <1>1 DEF isopen, isopening
    <3> QED BY <1>1, <3>2, <3>3 DEF LinkInv, Explained, Alive, ContactUpEvent, Event
  <2>4. (isopen' \/ isopening') => (isopen \/ isopening)
    BY <1>1 DEF isopen, isopening
  <2> QED BY <1>1, <2>1, <2>2, <2>3, <2>4 DEF LinkInv, ClosesBroken, null, Failure
<1>2. CASE /\ state' = "OPENING" /\ contact' = NewContact
           /\ conn' = [NoConn EXCEPT !.contact = NewContact, !.at = "start"]
  <2>1. /\ NewContact \in Contacts /\ NewContact # null
        /\ \A e \in In(eventq) : e.contact # NewContact
    BY NewContactIsNew
  <2>2. conn' \in Connections /\ conn'.contact = NewContact
    <3>1. ASSUME NEW c \in Contacts
          PROVE  /\ [NoConn EXCEPT !.contact = c, !.at = "start"] \in Connections
                 /\ [NoConn EXCEPT !.contact = c, !.at = "start"].contact = c
      BY DEF NoConn, Connections, ConnPlaces
    <3> QED BY <1>2, <2>1, <3>1
  <2>3. LinkTypes'
    BY <1>2, <2>1, <2>2 DEF LinkInv, LinkTypes
  <2>4. Bounded'
    BY <1>2, <2>1, StaysBounded
  <2>5. Explained'
    BY <1>2 DEF Explained, isopening
  <2>6. \A e \in In(eventq') : e.contact # contact'
    BY <1>2, <2>1
  <2>7. contact' # null' /\ main' = main
    BY <1>2, <2>1 DEF null
  <2> QED BY <1>2, <2>2, <2>3, <2>4, <2>5, <2>6, <2>7
          DEF LinkInv, null, isopen, isopening
<1> QED BY <1>1, <1>2 DEF open_link

(* OPEN requested, and the router opening the link for a bundle. *)
LEMMA OpenSteps ==
    ASSUME NeverExhausted, LinkInv, OpenRequested \/ RouterOpens
    PROVE  LinkInv'
<1>1. state \in {"UNAVAILABLE", "AVAILABLE", "OPENING", "OPEN"} /\ eventq \in Seq(Events)
  BY DEF LinkInv, LinkTypes
<1>2. UNCHANGED <<type, deleted, listed, main, failed, overwritten>>
  BY DEF OpenRequested, RouterOpens
<1>3. CASE OpenRequested
  <2> DEFINE s == IF state = "UNAVAILABLE" THEN "AVAILABLE" ELSE state
  <2>1. /\ s \in {"UNAVAILABLE", "AVAILABLE", "OPENING", "OPEN"}
        /\ s = state \/ (s = "AVAILABLE" /\ state = "UNAVAILABLE")
    BY <1>1
  <2>2. open_link(s) /\ eventq' = Tail(eventq) /\ Takes("LINK_STATE_CHANGE_REQUEST")
    BY <1>3 DEF OpenRequested, Acts
  <2>3. /\ eventq' \in Seq(Events) /\ main = Idle
        /\ \A e \in In(eventq') : e \in In(eventq)
        /\ \A e \in In(eventq) : e \in In(eventq') \/ e.type # "CONTACT_UP"
    <3>1. /\ Tail(eventq) \in Seq(Events) /\ main = Idle
          /\ Head(eventq).type = "LINK_STATE_CHANGE_REQUEST"
          /\ \A e \in In(Tail(eventq)) : e \in In(eventq)
          /\ \A e \in In(eventq) : e \in In(Tail(eventq)) \/ e = Head(eventq)
      BY <2>2, Taken
    <3>2. eventq' = Tail(eventq)
      BY <2>2
    <3> QED BY <3>1, <3>2
  <2>4. main.at # "closing"
    BY <2>3, IdleType
  <2> HIDE DEF s
  <2> QED BY <1>2, <2>1, <2>2, <2>3, <2>4, Opens
<1>4. CASE RouterOpens
  <2>1. open_link(state) /\ eventq' = eventq /\ main.at # "closing"
    BY <1>4 DEF RouterOpens, LinkLockFree
  <2> QED BY <1>1, <1>2, <2>1, Opens
<1> QED BY <1>3, <1>4

(* An accepted connection attaches to the idle link under a new contact. *)
LEMMA Attaches == ASSUME NeverExhausted, LinkInv, find_contact PROVE LinkInv'
<1>1. /\ UNCHANGED <<type, state, deleted, listed, main, failed, overwritten>>
      /\ conn \in Connections /\ eventq \in Seq(Events)
      /\ Alive /\ ~conn.broken /\ conn.contact = null /\ contact = null
      /\ main.at # "closing"
  BY DEF find_contact, LinkInv, LinkTypes, LinkLockFree
<1>2. CASE conn' = NoConn /\ UNCHANGED <<contact, eventq>>
  BY <1>1, <1>2, NoConnType, NoEvent
<1>3. CASE /\ contact' = NewContact
           /\ conn' = [conn EXCEPT !.contact = NewContact, !.up = TRUE, !.at = "top"]
           /\ eventq' = Append(eventq, ContactUpEvent(NewContact)) /\ listed
  <2>1. /\ NewContact \in Contacts /\ NewContact # null
        /\ \A e \in In(eventq) : e.contact # NewContact
    BY NewContactIsNew
  <2>2. conn' \in Connections /\ conn'.contact = NewContact
    <3>1. ASSUME NEW c \in Contacts
          PROVE  LET k == [conn EXCEPT !.contact = c, !.up = TRUE, !.at = "top"]
                 IN  k \in Connections /\ k.contact = c
      BY <1>1 DEF Connections, ConnPlaces
    <3> QED BY <1>3, <2>1, <3>1
  <2> DEFINE e == ContactUpEvent(NewContact)
  <2>3. e \in Events /\ e.contact = NewContact /\ ~ClosesBroken(e)
    <3>1. e \in Events
      BY <2>1, EventTypes DEF LinkInv
    <3> QED BY <3>1 DEF ContactUpEvent, Event, ClosesBroken
  <2>4. eventq' \in Seq(Events) /\ In(eventq') = In(eventq) \cup {e}
    BY <1>1, <1>3, <2>3, AppendIn
  <2>5. LinkTypes'
    BY <1>1, <1>3, <2>1, <2>2, <2>4 DEF LinkInv, LinkTypes
  <2>6. Bounded'
    BY <1>3, <2>1, <2>3, <2>4, StaysBounded
  <2>7. Explained'
    <3>1. ContactUpEvent(contact') \in In(eventq')
      BY <1>3, <2>4
    <3>2. ~deleted'
      BY <1>1, <1>3 DEF LinkInv
    <3> QED BY <3>1, <3>2 DEF Explained, ContactUpEvent, Event
  <2>8. \A f \in In(eventq') : /\ f.type = "CONTACT_UP" => f.contact # null
                               /\ ClosesBroken(f) => f.contact # contact'
    BY <1>3, <2>1, <2>3, <2>4 DEF LinkInv
  <2> HIDE DEF e
  <2> QED BY <1>1, <1>3, <2>1, <2>2, <2>5, <2>6, <2>7, <2>8
          DEF LinkInv, null, isopen, isopening, ClosesBroken, Failure
<1> QED BY <1>1, <1>2, <1>3 DEF find_contact

(* CONTACT_UP: the event taken from the queue opens the link if it names its  *)
(* contact and the link is not deleted.                                     *)
LEMMA ContactUpHandled == ASSUME LinkInv, handle_contact_up PROVE LinkInv'
<1>1. /\ UNCHANGED <<type, contact, deleted, listed, main, conn, failed, overwritten>>
      /\ eventq' = Tail(eventq) /\ Takes("CONTACT_UP")
      /\ state' = IF ~deleted /\ contact = Head(eventq).contact THEN "OPEN" ELSE state
  BY DEF handle_contact_up
<1>2. /\ Tail(eventq) \in Seq(Events) /\ Head(eventq) \in In(eventq)
      /\ Head(eventq).type = "CONTACT_UP" /\ main = Idle
      /\ \A e \in In(Tail(eventq)) : e \in In(eventq)
      /\ \A e \in In(eventq) : e \in In(Tail(eventq)) \/ e = Head(eventq)
  BY <1>1, Taken
<1>3. \A e \in In(eventq') : e \in In(eventq)
  BY <1>1, <1>2
<1>4. LinkTypes'
  BY <1>1, <1>2 DEF LinkInv, LinkTypes
<1>5. Bounded'
  BY <1>1, <1>3, StaysBounded DEF LinkInv, LinkTypes
<1>6. Head(eventq).contact # null
  BY <1>2 DEF LinkInv
<1>7. isopen' \/ isopening' => contact' # null
  BY <1>1, <1>6 DEF LinkInv, isopen, isopening
<1>8. Explained'
  <2>1. CASE ~deleted /\ contact = Head(eventq).contact
    BY <1>1, <2>1 DEF Explained, isopen
  <2>2. CASE ~(~deleted /\ contact = Head(eventq).contact)
    <3>1. state' = state
      BY <1>1, <2>2
    <3>2. ContactUpEvent(contact).contact = contact
      BY DEF ContactUpEvent, Event
    <3>3. ~deleted /\ ContactUpEvent(contact) \in In(eventq)
          => ContactUpEvent(contact) \in In(eventq')
      BY <1>1, <1>2, <2>2, <3>2
    <3> QED BY <1>1, <3>1, <3>3
            DEF LinkInv, Explained, Alive, isopen, isopening, ContactUpEvent, Event
  <2> QED BY <2>1, <2>2
<1>9. main'.at # "closing"
  BY <1>1, <1>2, IdleType
<1> QED BY <1>1, <1>3, <1>4, <1>5, <1>7, <1>8, <1>9
        DEF LinkInv, ClosesBroken, null, Failure

(* AVAILABLE and UNAVAILABLE: the link's state changes under a contact it    *)
(* may have, which is then announced, or recorded as overwritten.           *)
LEMMA AvailabilitySteps ==
    ASSUME LinkInv, SetAvailable \/ SetUnavailable
    PROVE  LinkInv'
<1>1. /\ UNCHANGED <<type, contact, deleted, listed, conn, failed>>
      /\ overwritten => overwritten'
  <2>1. CASE SetAvailable
    BY <2>1 DEF SetAvailable
  <2>2. CASE SetUnavailable
    <3>1. UNCHANGED <<type, contact, deleted, listed, conn, failed>>
      BY <2>2 DEF SetUnavailable
    <3>2. overwritten => overwritten'
      BY <2>2 DEF SetUnavailable
    <3> QED BY <3>1, <3>2
  <2> QED BY <2>1, <2>2
<1>2. PICK e \in Events :
        /\ eventq' \in Seq(Events)
        /\ \A f \in In(eventq') : f \in In(eventq) \/ f = e
        /\ \A f \in In(eventq) : f \in In(eventq') \/ f.type # "CONTACT_UP"
        /\ e.contact = null /\ e.type # "CONTACT_UP" /\ ~ClosesBroken(e)
  <2>1. CASE SetAvailable
    <3> DEFINE e == LinkAvailableEvent(Head(eventq).reason)
    <3>1. /\ Takes("LINK_STATE_CHANGE_REQUEST")
          /\ eventq' = <<e>> \o Tail(eventq)
      BY <2>1 DEF SetAvailable, Acts
    <3>2. /\ Tail(eventq) \in Seq(Events) /\ Head(eventq).reason \in Reasons
          /\ Head(eventq).type = "LINK_STATE_CHANGE_REQUEST"
          /\ \A f \in In(Tail(eventq)) : f \in In(eventq)
          /\ \A f \in In(eventq) : f \in In(Tail(eventq)) \/ f = Head(eventq)
      BY <3>1, Taken
    <3>3. e \in Events
      BY <3>2, EventTypes DEF LinkInv
    <3>4. e.contact = null /\ e.type # "CONTACT_UP" /\ ~ClosesBroken(e)
      BY DEF LinkAvailableEvent, Event, ClosesBroken
    <3> HIDE DEF e
    <3>5. eventq' \in Seq(Events) /\ In(eventq') = In(Tail(eventq)) \cup {e}
      BY <3>1, <3>2, <3>3, PrependIn
    <3> QED BY <3>2, <3>3, <3>4, <3>5
  <2>2. CASE SetUnavailable
    <3> DEFINE e == LinkUnavailableEvent(main.reason)
    <3>1. eventq' = <<e>> \o eventq /\ main.reason \in Reasons
      BY <2>2 DEF SetUnavailable, LinkInv, LinkTypes, MainStates
    <3>2. e \in Events
      BY <3>1, EventTypes DEF LinkInv
    <3>3. e.contact = null /\ e.type # "CONTACT_UP" /\ ~ClosesBroken(e)
      BY DEF LinkUnavailableEvent, Event, ClosesBroken
    <3> HIDE DEF e
    <3>4. eventq' \in Seq(Events) /\ In(eventq') = In(eventq) \cup {e}
      BY <3>1, <3>2, PrependIn DEF LinkInv, LinkTypes
    <3> QED BY <3>2, <3>3, <3>4
  <2> QED BY <2>1, <2>2
<1>3. main' = Idle /\ ~isopen' /\ ~isopening'
  <2>1. main' = Idle
    BY DEF SetAvailable, SetUnavailable, Acts, Takes, MainReady
  <2>2. state' = "AVAILABLE" \/ state' = "UNAVAILABLE"
    BY DEF SetAvailable, SetUnavailable
  <2> QED BY <2>1, <2>2 DEF isopen, isopening
<1>4. LinkTypes'
  BY <1>1, <1>2, <1>3, IdleType
     DEF LinkInv, LinkTypes, SetAvailable, SetUnavailable
<1>5. Bounded'
  BY <1>1, <1>2, StaysBounded DEF LinkInv, LinkTypes
<1>6. Explained'
  <2>1. ContactUpEvent(contact).type = "CONTACT_UP"
    BY DEF ContactUpEvent, Event
  <2>2. ContactUpEvent(contact) \in In(eventq) => ContactUpEvent(contact) \in In(eventq')
    BY <1>2, <2>1
  <2>3. isopen \/ isopening => overwritten'
    BY DEF SetAvailable, SetUnavailable, isopen, isopening
  <2> QED BY <1>1, <2>2, <2>3 DEF LinkInv, Explained, Alive, ContactUpEvent, Event
<1>7. main'.at # "closing"
  BY <1>3, IdleType
<1>8. \A f \in In(eventq') :
        /\ f.type = "CONTACT_UP" => f.contact # null
        /\ ClosesBroken(f) /\ f.contact = contact /\ contact # null => conn.broken
  BY <1>2 DEF LinkInv
<1> QED BY <1>1, <1>3, <1>4, <1>5, <1>6, <1>7, <1>8
        DEF LinkInv, ClosesBroken, null, Failure

(* CLOSED: the request names the link's present contact, so one that says    *)
(* the connection broke was posted by the present connection.               *)
LEMMA CloseStarts == ASSUME LinkInv, StartClose PROVE LinkInv'
<1>1. /\ UNCHANGED <<type, state, contact, deleted, listed, failed, overwritten>>
      /\ Takes("LINK_STATE_CHANGE_REQUEST") /\ Head(eventq).new = "CLOSED"
      /\ contact = Head(eventq).contact /\ (isopen \/ isopening)
      /\ main' = [at |-> "closing", reason |-> Head(eventq).reason]
      /\ conn' = [conn EXCEPT !.cmd = ~conn.broken]
  BY DEF StartClose, Acts, Current, link
<1>2. /\ Tail(eventq) \in Seq(Events) /\ Head(eventq) \in In(eventq)
      /\ Head(eventq).type = "LINK_STATE_CHANGE_REQUEST"
      /\ Head(eventq).reason \in Reasons
      /\ \A e \in In(Tail(eventq)) : e \in In(eventq)
      /\ \A e \in In(eventq) : e \in In(Tail(eventq)) \/ e = Head(eventq)
  BY <1>1, Taken
<1> DEFINE down == ContactDownEvent(Head(eventq).reason)
<1>3. down \in Events
  BY <1>2, EventTypes DEF LinkInv
<1>4. down.contact = contact /\ down.type = "CONTACT_DOWN" /\ ~ClosesBroken(down)
  BY DEF ContactDownEvent, Event, ClosesBroken
<1>5. eventq' = <<down>> \o Tail(eventq) \/ eventq' = Tail(eventq)
  <2>1. <<>> \o Tail(eventq) = Tail(eventq)
    BY SMT, <1>2
  <2> QED BY <2>1 DEF StartClose
<1> HIDE DEF down
<1>6. /\ eventq' \in Seq(Events)
      /\ \A e \in In(eventq') : e \in In(eventq) \/ e = down
      /\ \A e \in In(eventq) : e \in In(eventq') \/ e.type # "CONTACT_UP"
  <2>1. In(<<down>> \o Tail(eventq)) = In(Tail(eventq)) \cup {down}
        /\ <<down>> \o Tail(eventq) \in Seq(Events)
    BY <1>2, <1>3, PrependIn
  <2> QED BY <1>2, <1>5, <2>1
<1>7. conn' \in Connections /\ conn'.contact = contact /\ conn'.broken = conn.broken
  <2>1. conn \in Connections /\ conn.contact = contact
    BY DEF LinkInv, LinkTypes
  <2> QED BY <1>1, <2>1 DEF Connections
<1>8. main' \in MainStates /\ main'.reason = Head(eventq).reason
  BY <1>1, <1>2 DEF MainStates
<1>9. contact # null
  BY <1>1 DEF LinkInv
<1>10. main'.reason \in Failure => conn'.broken
  <2>1. Head(eventq).reason \in Failure => ClosesBroken(Head(eventq))
    BY <1>1, <1>2 DEF ClosesBroken
  <2> QED BY <1>1, <1>2, <1>7, <1>8, <1>9, <2>1 DEF LinkInv
<1>11. LinkTypes'
  BY <1>1, <1>6, <1>7, <1>8 DEF LinkInv, LinkTypes
<1>12. Bounded'
  BY <1>1, <1>4, <1>6, StaysBounded DEF LinkInv, LinkTypes
<1>13. (isopen' \/ isopening') /\ Explained'
  BY <1>1 DEF Explained, isopen, isopening
<1>14. \A e \in In(eventq') :
         /\ e.type = "CONTACT_UP" => e.contact # null
         /\ ClosesBroken(e) /\ e.contact = contact /\ contact # null => conn.broken
  BY <1>4, <1>6 DEF LinkInv
<1> QED BY <1>1, <1>7, <1>9, <1>10, <1>11, <1>12, <1>13, <1>14
        DEF LinkInv, ClosesBroken, null, Failure

(* The connection thread has stopped: the contact is gone. *)
LEMMA CloseFinishes == ASSUME LinkInv, FinishClose PROVE LinkInv'
<1>1. /\ UNCHANGED <<type, deleted, listed, failed, overwritten>>
      /\ main' = Idle /\ conn' = NoConn /\ contact' = null
      /\ state' = "AVAILABLE" \/ state' = "UNAVAILABLE"
      /\ eventq' = eventq \/ eventq' = <<LinkUnavailableEvent(main.reason)>> \o eventq
  BY DEF FinishClose
<1> DEFINE e == LinkUnavailableEvent(main.reason)
<1>2. e \in Events
  <2>1. main.reason \in Reasons
    BY DEF LinkInv, LinkTypes, MainStates
  <2> QED BY <2>1, EventTypes DEF LinkInv
<1>3. e.contact = null /\ e.type # "CONTACT_UP"
  BY DEF LinkUnavailableEvent, Event
<1> HIDE DEF e
<1>4. eventq' \in Seq(Events) /\ \A f \in In(eventq') : f \in In(eventq) \/ f = e
  <2>1. <<e>> \o eventq \in Seq(Events) /\ In(<<e>> \o eventq) = In(eventq) \cup {e}
    BY <1>2, PrependIn DEF LinkInv, LinkTypes
  <2>2. eventq' = eventq \/ eventq' = <<e>> \o eventq
    BY <1>1 DEF e
  <2> QED BY <2>1, <2>2 DEF LinkInv, LinkTypes
<1>5. LinkTypes'
  BY <1>1, <1>4, IdleType, NoConnType DEF LinkInv, LinkTypes
<1>6. Bounded'
  BY <1>1, <1>3, <1>4, StaysBounded DEF LinkInv, LinkTypes
<1>7. ~isopen' /\ ~isopening' /\ Explained' /\ main'.at # "closing"
  BY <1>1, IdleType DEF isopen, isopening, Explained, null
<1>8. conn'.contact = contact' /\ contact' = null'
  BY <1>1, NoConnType DEF null
<1>9. \A f \in In(eventq') : f.type = "CONTACT_UP" => f.contact # null
  BY <1>3, <1>4 DEF LinkInv
<1> QED BY <1>1, <1>5, <1>6, <1>7, <1>8, <1>9 DEF LinkInv, null

(* LINK_DELETE: an open or opening link keeps its contact until the close    *)
(* it posts; any other must have none, or the process is gone.              *)
LEMMA LinkDeleted == ASSUME LinkInv, handle_link_delete PROVE LinkInv'
<1>1. /\ UNCHANGED <<type, state, contact, main, conn, overwritten>>
      /\ Takes("LINK_DELETE")
  BY DEF handle_link_delete
<1>2. /\ Tail(eventq) \in Seq(Events) /\ Alive /\ main = Idle /\ LinkTypes
      /\ Head(eventq).type = "LINK_DELETE"
      /\ \A e \in In(Tail(eventq)) : e \in In(eventq)
      /\ \A e \in In(eventq) : e \in In(Tail(eventq)) \/ e = Head(eventq)
  BY <1>1, Taken DEF LinkInv
<1>3. CASE deleted \/ ~listed
  <2>1. UNCHANGED <<deleted, listed, failed>> /\ eventq' = Tail(eventq)
    BY <1>3 DEF handle_link_delete
  <2> QED BY <1>1, <1>2, <2>1, IdleType, OnlyTakes DEF Alive
<1>4. CASE ~(deleted \/ ~listed)
  <2> DEFINE close == LinkStateChangeRequest("CLOSED", "NO_INFO")
             gone == Plain("LINK_DELETED")
  <2>1. /\ deleted' = TRUE /\ listed' = FALSE /\ failed' = failed \cup DeleteAsserts
        /\ eventq' = Tail(eventq) \o (IF isopen \/ isopening THEN <<close>> ELSE <<>>)
                       \o <<gone>>
    BY <1>4 DEF handle_link_delete
  <2>2. close \in Events /\ gone \in Events
    BY <1>2, EventTypes DEF Reasons
  <2>3. /\ close.contact = contact /\ close.type # "CONTACT_UP" /\ ~ClosesBroken(close)
        /\ gone.contact = null /\ gone.type # "CONTACT_UP" /\ ~ClosesBroken(gone)
    BY DEF LinkStateChangeRequest, Plain, Event, ClosesBroken, Failure
  <2> HIDE DEF close, gone
  <2>4. \/ eventq' = Append(Append(Tail(eventq), close), gone)
        \/ eventq' = Append(Tail(eventq), gone)
    <3>1. Tail(eventq) \o <<close>> \o <<gone>> = Append(Append(Tail(eventq), close), gone)
      BY SMT, <1>2, <2>2
    <3>2. Tail(eventq) \o <<>> \o <<gone>> = Append(Tail(eventq), gone)
      BY SMT, <1>2, <2>2
    <3> QED BY <2>1, <3>1, <3>2
  <2>5. /\ eventq' \in Seq(Events)
        /\ \A e \in In(eventq') : e \in In(eventq) \/ e = close \/ e = gone
    <3>1. /\ Append(Tail(eventq), close) \in Seq(Events)
          /\ In(Append(Tail(eventq), close)) = In(Tail(eventq)) \cup {close}
      BY <1>2, <2>2, AppendIn
    <3>2. /\ Append(Tail(eventq), gone) \in Seq(Events)
          /\ In(Append(Tail(eventq), gone)) = In(Tail(eventq)) \cup {gone}
      BY <1>2, <2>2, AppendIn
    <3>3. /\ Append(Append(Tail(eventq), close), gone) \in Seq(Events)
          /\ In(Append(Append(Tail(eventq), close), gone))
               = In(Append(Tail(eventq), close)) \cup {gone}
      BY <2>2, <3>1, AppendIn
    <3> QED BY <1>2, <2>4, <3>1, <3>2, <3>3
  <2>6. LinkTypes'
    BY <1>1, <2>1, <2>5 DEF LinkInv, LinkTypes
  <2>7. Bounded'
    BY <1>1, <2>3, <2>5, StaysBounded DEF LinkInv, LinkTypes
  <2>8. Explained'
    <3>1. contact # null /\ ~isopen /\ ~isopening => ~Alive'
      BY <2>1 DEF DeleteAsserts, Alive
    <3> QED BY <1>1, <3>1 DEF Explained, isopen, isopening, null
  <2>9. \A e \in In(eventq') :
          /\ e.type = "CONTACT_UP" => e.contact # null
          /\ ClosesBroken(e) /\ e.contact = contact /\ contact # null => conn.broken
    BY <2>3, <2>5 DEF LinkInv
  <2> QED BY <1>1, <2>1, <2>6, <2>7, <2>8, <2>9
          DEF LinkInv, isopen, isopening, ClosesBroken, null, Failure
<1> QED BY <1>3, <1>4

LEMMA LinkInit == Init => LinkInv
<1> SUFFICES ASSUME Init PROVE LinkInv
  OBVIOUS
<1> DEFINE e == Plain("LINK_CREATED")
<1>1. e \in Events /\ e.contact = null /\ e.type = "LINK_CREATED"
  BY DEF Plain, Event, Events, Kinds, States, Reasons
<1>2. eventq = <<e>>
  BY DEF Init
<1> HIDE DEF e
<1>3. eventq \in Seq(Events) /\ In(eventq) = {e}
  <2>1. eventq = Append(<<>>, e) /\ <<>> \in Seq(Events) /\ DOMAIN <<>> = {}
    BY SMT, <1>1, <1>2
  <2>2. In(<<>>) = {}
    BY <2>1 DEF In
  <2> QED BY <1>1, <2>1, <2>2, AppendIn
<1>4. LinkTypes
  BY <1>3, IdleType, NoConnType DEF Init, LinkTypes
<1>5. Bounded
  <2>1. null \in Nat /\ null <= null
    BY SMT DEF null
  <2> QED BY <1>1, <1>3, <2>1 DEF Init, Bounded
<1>6. ~isopen /\ ~isopening
  BY DEF Init, isopen, isopening
<1> QED BY <1>1, <1>3, <1>4, <1>5, <1>6, IdleType, NoConnType
        DEF Init, LinkInv, Explained, ClosesBroken

LEMMA LinkStutters == ASSUME LinkInv, UNCHANGED vars PROVE LinkInv'
<1>1. /\ UNCHANGED <<type, state, contact, deleted, listed, eventq, main, conn,
                     overwritten, failed>>
      /\ conn \in Connections
  BY DEF vars, link, LinkInv, LinkTypes
<1>2. LinkTypes' /\ In(eventq') = In(eventq)
  BY <1>1 DEF LinkInv, LinkTypes, In
<1> QED BY <1>1, <1>2, LinkUnchanged DEF Alive

(* LinkInv is an invariant of the link, its connection and the queue. *)
LEMMA LinkInvariant == ASSUME NeverExhausted PROVE Spec => []LinkInv
<1>1. ASSUME LinkInv, [Next]_vars PROVE LinkInv'
  <2>1. CASE MainSteps
    BY <1>1, <2>1, CreatedPosts, MainOnlyTakes, ContactUpHandled, OpenSteps,
       AvailabilitySteps, CloseStarts, ConnectionSteps, CloseFinishes, LinkDeleted
       DEF MainSteps
  <2>2. CASE ConnSteps \/ accept
    BY <1>1, <2>2, ConnectionSteps, ConnectionPosts, Attaches DEF ConnSteps
  <2>3. CASE RouterOpens
    BY <1>1, <2>3, OpenSteps
  <2>4. CASE TimerExpires \/ reopen_link \/ RouterHandles \/ Commands
    BY <1>1, <2>4, OthersPost
  <2>5. CASE UNCHANGED vars
    BY <1>1, <2>5, LinkStutters
  <2> QED BY <1>1, <2>1, <2>2, <2>3, <2>4, <2>5 DEF Next
<1> QED BY <1>1, LinkInit, PTL DEF Spec

(* Link.h's "contact_ != null iff link is open", as far as the code keeps it: *)
(* an open or opening link has a contact and its connection has the same     *)
(* one, and a contact belongs to a link that is open, opening or about to be *)
(* opened by a CONTACT_UP in Main's queue, or that was set UNAVAILABLE while *)
(* it was being opened.                                                     *)
THEOREM ContactStaysMatched ==
    ASSUME NeverExhausted PROVE Spec => []ContactMatchesState
<1>1. LinkInv => ContactMatchesState
  <2>1. ContactUpEvent(contact) \in In(eventq) => Announced
    BY DEF In, Announced
  <2> QED BY <2>1 DEF LinkInv, Explained, ContactMatchesState
<1> QED BY <1>1, LinkInvariant, PTL

(* handle_link_state_change_request compares the request's contact with the  *)
(* link's: a link is being closed as broken or idle only if its present      *)
(* connection is, whatever an earlier connection left in the queue.         *)
THEOREM StaleBreakIsDropped ==
    ASSUME NeverExhausted PROVE Spec => []OnlyBrokenIsClosed
<1>1. LinkInv => OnlyBrokenIsClosed
  BY DEF LinkInv, OnlyBrokenIsClosed, Failure
<1> QED BY <1>1, LinkInvariant, PTL
=============================================================================
