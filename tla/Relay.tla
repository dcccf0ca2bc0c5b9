------------------------------- MODULE Relay --------------------------------
(***************************************************************************)
(* The connections of a relay, their subscriptions, and the broadcast      *)
(* channel that joins them (nostr-relay/src/ws/server.rs, global.rs,       *)
(* local/).                                                                *)
(*                                                                         *)
(* A connection runs a loop of its own: it reads frames, receives from the *)
(* broadcast channel, and writes what is queued for its peer.  Every       *)
(* accepted event goes to the channel, which keeps the CAPACITY newest; a  *)
(* connection that is further behind skips what it has missed.             *)
(*                                                                         *)
(* A frame is chosen when it is read: what the peer sent before that and   *)
(* when does not matter here.  Frames that change nothing (AUTH, COUNT, a  *)
(* text that does not parse, a binary query, which is answered from the    *)
(* number of subscriptions) are no steps.  Timers are in module Keepalive. *)
(* Accepted events are numbered in the order they were broadcast.          *)
(***************************************************************************)
EXTENDS EventMatching, FiniteSets

CONSTANTS
    Conns,            \* connections; one that ended does not come back
    SubIds,           \* subscription ids
    LongIds,          \* those longer than MAX_SUBSCRIPTION_ID_LEN
    WireEvents,       \* what an EVENT frame may hold
    FilterLists,      \* what a REQ frame may hold: sets of wire filters
    Instants,         \* what the clock may show
    MAX_SUBS,         \* subscriptions of a connection (32)
    CAPACITY,         \* of the broadcast channel (1_000_000, rounded up by tokio to 2^20)
    MaxFrames         \* bound: frames that are read

ASSUME RelayAssumption ==
    /\ IsFiniteSet(SubIds) /\ LongIds \subseteq SubIds
    /\ MAX_SUBS \in 1 .. 255      \* a u8
    /\ CAPACITY \in Nat \ {0}
    /\ MaxFrames \in Nat

VARIABLES
    status,           \* "new", "open" or "closed"
    subscriptions,    \* LocalState::subscriptions: the filters for each id held
    log,              \* events broadcast, oldest first
    cursor,           \* global_events_pub_receiver: number of the event it is at
    outgoing,         \* outgoing_sender/outgoing_receiver: notices, in order
    joined,           \* history: events broadcast before the connection was made
    handed,           \* history: numbers of the events queued for the peer, in order
    since,            \* history: events broadcast when an id got its filters
    wanted,           \* history: the REQ frames not followed by a CLOSE
    overrun,          \* history: more than MAX_SUBS ids were wanted at once
    frames            \* history: frames read

vars == <<status, subscriptions, log, cursor, outgoing, joined, handed,
          since, wanted, overrun, frames>>

Empty == [id \in {} |-> {}]
With(f, id, x) == [i \in DOMAIN f \cup {id} |-> IF i = id THEN x ELSE f[i]]
Without(f, id) == [i \in DOMAIN f \ {id} |-> f[i]]

Auth == [type |-> "AUTH"]
Saved(n) == [type |-> "OK", accepted |-> TRUE, event |-> n]
Refused == [type |-> "OK", accepted |-> FALSE, event |-> 0]
Delivery(id, n) == [type |-> "EVENT", sub |-> id, event |-> n]

Notices == {Auth} \cup [type : {"OK"}, accepted : BOOLEAN, event : Nat]
           \cup [type : {"EVENT"}, sub : SubIds, event : Nat]

PartialOn(S, T) == UNION {[D -> T] : D \in SUBSET S}

TypeOK ==
    /\ status \in [Conns -> {"new", "open", "closed"}]
    /\ subscriptions \in [Conns -> PartialOn(SubIds \ LongIds, FilterLists)]
    /\ \A c \in Conns : Cardinality(DOMAIN subscriptions[c]) <= MAX_SUBS
    /\ log \in Seq([event : {Parsed(ev) : ev \in WireEvents}, from : Conns])
    /\ cursor \in [Conns -> 1 .. Len(log) + 1]
    /\ outgoing \in [Conns -> Seq(Notices)]
    /\ joined \in [Conns -> -1 .. Len(log)]
    /\ handed \in [Conns -> Seq(1 .. Len(log))]
    /\ since \in [Conns -> PartialOn(SubIds, 0 .. Len(log))]
    /\ wanted \in [Conns -> PartialOn(SubIds, FilterLists)]
    /\ overrun \in [Conns -> BOOLEAN]
    /\ frames \in 0 .. MaxFrames

Init ==
    /\ status = [c \in Conns |-> "new"]
    /\ subscriptions = [c \in Conns |-> Empty]
    /\ log = <<>>
    /\ cursor = [c \in Conns |-> 1]
    /\ outgoing = [c \in Conns |-> <<>>]
    /\ joined = [c \in Conns |-> -1] /\ handed = [c \in Conns |-> <<>>]
    /\ since = [c \in Conns |-> Empty] /\ wanted = [c \in Conns |-> Empty]
    /\ overrun = [c \in Conns |-> FALSE]
    /\ frames = 0

-----------------------------------------------------------------------------
(* The beginning and the end of a connection.                              *)

\* The receiver is subscribed now: it sees only what is broadcast from here on.
Connect(c) ==
    /\ status[c] = "new"
    /\ status' = [status EXCEPT ![c] = "open"]
    /\ cursor' = [cursor EXCEPT ![c] = Len(log) + 1]
    /\ outgoing' = [outgoing EXCEPT ![c] = <<Auth>>]
    /\ joined' = [joined EXCEPT ![c] = Len(log)]
    /\ UNCHANGED <<subscriptions, log, handed, since, wanted, overrun, frames>>

\* A Close frame, the end of the stream, or the timers.  Nothing queued is written.
Leave(c) ==
    /\ status[c] = "open"
    /\ status' = [status EXCEPT ![c] = "closed"]
    /\ subscriptions' = [subscriptions EXCEPT ![c] = Empty]
    /\ since' = [since EXCEPT ![c] = Empty]
    /\ wanted' = [wanted EXCEPT ![c] = Empty]
    /\ UNCHANGED <<log, cursor, outgoing, joined, handed, overrun, frames>>

-----------------------------------------------------------------------------
(* ws_receiver.next(): handle_incoming_message, handle_binary_message.     *)

Reads(c) ==
    /\ status[c] = "open"
    /\ frames < MaxFrames /\ frames' = frames + 1
    /\ UNCHANGED <<status, cursor, joined, handed>>

Queue(c, notice) == outgoing' = [outgoing EXCEPT ![c] = Append(@, notice)]

\* Faulty: the sender's own subscriptions are served at once, before the answer.
AnnounceWithEcho(c, ev) ==
    LET echo == {id \in DOMAIN subscriptions[c] : IsInterested(subscriptions[c][id], Parsed(ev))}
    IN  /\ log' = Append(log, [event |-> Parsed(ev), from |-> c])
        /\ outgoing' = [outgoing EXCEPT ![c] =
               @ \o [i \in 1 .. (IF echo = {} THEN 0 ELSE 1) |->
                        Delivery(CHOOSE id \in echo : TRUE, Len(log'))]
                 \o <<Saved(Len(log'))>>]

\* The broadcast has a receiver at least, the one of this connection.
Announce(c, ev) ==
    /\ log' = Append(log, [event |-> Parsed(ev), from |-> c])
    /\ Queue(c, Saved(Len(log')))

ReadEvent(c, ev) ==
    /\ Reads(c)
    /\ \E now \in Instants :
        \/ Acceptable(ev, now) /\ Announce(c, ev)
        \/ ~Acceptable(ev, now) /\ Queue(c, Refused) /\ UNCHANGED log
    /\ UNCHANGED <<subscriptions, since, wanted, overrun>>

Hold(c, id, filters) ==
    /\ subscriptions' = [subscriptions EXCEPT ![c] = With(@, id, filters)]
    /\ since' = [since EXCEPT ![c] = With(@, id, Len(log))]

Want(c, id, filters) ==
    /\ wanted' = [wanted EXCEPT ![c] = With(@, id, filters)]
    /\ overrun' = [overrun EXCEPT ![c] = @ \/ Cardinality(DOMAIN wanted'[c]) > MAX_SUBS]

\* Faulty: there must be room even for an id that is there.
SubscribeIfRoom(c, id, filters) ==
    IF Cardinality(DOMAIN subscriptions[c]) < MAX_SUBS
    THEN Hold(c, id, filters)
    ELSE UNCHANGED <<subscriptions, since>>

\* LocalState::subscribe.  A refusal is only logged: the peer is not told.
Subscribe(c, id, filters) ==
    IF id \in DOMAIN subscriptions[c] \/ Cardinality(DOMAIN subscriptions[c]) < MAX_SUBS
    THEN Hold(c, id, filters)
    ELSE UNCHANGED <<subscriptions, since>>

ReadReq(c, id, filters) ==
    /\ Reads(c)
    /\ IF id \in LongIds
       THEN UNCHANGED <<subscriptions, since, wanted, overrun>>
       ELSE Subscribe(c, id, filters) /\ Want(c, id, filters)
    /\ UNCHANGED <<log, outgoing>>

ReadClose(c, id) ==
    /\ Reads(c)
    /\ subscriptions' = [subscriptions EXCEPT ![c] = Without(@, id)]
    /\ since' = [since EXCEPT ![c] = Without(@, id)]
    /\ wanted' = [wanted EXCEPT ![c] = Without(@, id)]
    /\ UNCHANGED <<log, outgoing, overrun>>

-----------------------------------------------------------------------------
(* global_events_pub_receiver.recv() and outgoing_receiver.recv().         *)

Behind(c) == Len(log) + 1 - cursor[c]

Interested(c, e) == {id \in DOMAIN subscriptions[c] : IsInterested(subscriptions[c][id], e)}

Receives(c) ==
    /\ status[c] = "open" /\ Behind(c) > 0
    /\ UNCHANGED <<status, subscriptions, log, joined, since, wanted, overrun, frames>>

HandOver(c, id, n) ==
    /\ Queue(c, Delivery(id, n))
    /\ handed' = [handed EXCEPT ![c] = Append(@, n)]

\* Faulty: only one subscription of the map is asked.
DeliverIfFirst(c, n) ==
    IF subscriptions[c] = Empty
    THEN UNCHANGED <<outgoing, handed>>
    ELSE \E id \in DOMAIN subscriptions[c] :
            IF IsInterested(subscriptions[c][id], log[n].event)
            THEN HandOver(c, id, n)
            ELSE UNCHANGED <<outgoing, handed>>

\* handle_global_incoming_events: the first one in the order of a HashMap.
Deliver(c, n) ==
    IF Interested(c, log[n].event) = {}
    THEN UNCHANGED <<outgoing, handed>>
    ELSE \E id \in Interested(c, log[n].event) : HandOver(c, id, n)

\* Faulty: the receiver stays where it is while some subscription is interested.
ReceiveAgain(c) ==
    /\ Receives(c) /\ Behind(c) <= CAPACITY
    /\ Deliver(c, cursor[c])
    /\ cursor' \in {cursor, [cursor EXCEPT ![c] = @ + 1]}

Receive(c) ==
    /\ Receives(c) /\ Behind(c) <= CAPACITY
    /\ Deliver(c, cursor[c])
    /\ cursor' = [cursor EXCEPT ![c] = @ + 1]

\* Faulty: everything that waits is skipped.
SkipAll(c) ==
    /\ Receives(c) /\ Behind(c) > CAPACITY
    /\ cursor' = [cursor EXCEPT ![c] = Len(log) + 1]
    /\ UNCHANGED <<outgoing, handed>>

\* RecvError::Lagged, only logged: the receiver is moved to the oldest event kept.
SkipLost(c) ==
    /\ Receives(c) /\ Behind(c) > CAPACITY
    /\ cursor' = [cursor EXCEPT ![c] = Len(log) + 1 - CAPACITY]
    /\ UNCHANGED <<outgoing, handed>>

Write(c) ==
    /\ status[c] = "open" /\ outgoing[c] # <<>>
    /\ outgoing' = [outgoing EXCEPT ![c] = Tail(@)]
    /\ UNCHANGED <<status, subscriptions, log, cursor, joined, handed, since, wanted, overrun,
                   frames>>

-----------------------------------------------------------------------------
Read(c) ==
    \/ \E ev \in WireEvents : ReadEvent(c, ev)
    \/ \E id \in SubIds, filters \in FilterLists : ReadReq(c, id, filters)
    \/ \E id \in SubIds : ReadClose(c, id)

Next ==
    \E c \in Conns :
        \/ Connect(c) \/ Leave(c)
        \/ Read(c)
        \/ Receive(c) \/ SkipLost(c)
        \/ Write(c)

Spec == Init /\ [][Next]_vars

-----------------------------------------------------------------------------
(* Properties.                                                             *)

\* Events are handed to each connection in the one order of the broadcast, each at
\* most once however many of its subscriptions match, and none from before it came.
F == INSTANCE Fanout WITH Peers <- Conns, accepted <- Len(log)
ImplementsFanout == F!FanoutSpec

Is(notice, type, n) == notice.type = type /\ notice.event = n

\* What waits for a peer keeps that order, and the sender of an event that hears its
\* own event gets the OK for it first.
OkBeforeEcho ==
    \A c \in Conns : \A i, j \in DOMAIN outgoing[c] :
        i < j /\ outgoing[c][i].type = "EVENT" =>
            /\ outgoing[c][j].type = "EVENT" => outgoing[c][i].event < outgoing[c][j].event
            /\ ~Is(outgoing[c][j], "OK", outgoing[c][i].event)

\* An event broadcast after a matching REQ was handled does not get past the
\* connection, unless it is older than the CAPACITY newest.
NothingMissed ==
    \A c \in Conns : \A id \in DOMAIN subscriptions[c] :
        \A n \in since[c][id] + 1 .. cursor[c] - 1 :
            IsInterested(subscriptions[c][id], log[n].event) /\ n > Len(log) - CAPACITY
                => \E i \in DOMAIN handed[c] : handed[c][i] = n

\* What a connection holds is what its peer asked for last, and everything of it as
\* long as the peer never wanted more than MAX_SUBS at once.
SubscriptionsAsAsked ==
    \A c \in Conns :
        /\ \A id \in DOMAIN subscriptions[c] :
               id \in DOMAIN wanted[c] /\ wanted[c][id] = subscriptions[c][id]
        /\ ~overrun[c] => DOMAIN wanted[c] \subseteq DOMAIN subscriptions[c]
=============================================================================
