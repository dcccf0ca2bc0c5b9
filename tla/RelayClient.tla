---------------------------- MODULE RelayClient ----------------------------
(***************************************************************************)
(* The client library (nostr-client-plus/src/client.rs) and the relay's    *)
(* side of its connections (nostr-relay/src/local), as far as commands and *)
(* subscriptions go.                                                       *)
(*                                                                         *)
(* The methods of Client only put commands into an unbounded channel.  One *)
(* task takes them out, sends them over the web socket and keeps a map of  *)
(* the subscriptions.  When the socket fails it does nothing but try to    *)
(* reconnect; after that it puts the whole map back into the channel, as   *)
(* new Req commands behind whatever the user put there in the meantime.    *)
(*                                                                         *)
(* Connections are numbered in the order they were made.  A connection     *)
(* that broke carries nothing more, but what it carried before may still   *)
(* reach the relay, even after the client has made another one.  Whether   *)
(* the client's socket ever reports that it broke is up to the network:    *)
(* the client sends no pings and sets no timeout.                          *)
(*                                                                         *)
(* A request is named by the call of subscribe that made it: ver is the    *)
(* number of that call, so two requests for one id are told apart.  Binary *)
(* commands take the path of Event commands and are not told apart.        *)
(***************************************************************************)
EXTENDS Integers, Sequences, FiniteSets, FiniteSetsExt, SequencesExt

CONSTANTS
    Subs,             \* subscription ids; fewer than the relay's limit of 32
    RETRIES,          \* reconnection attempts in an outage (60 in the code)
    MaxCalls,         \* bound: calls of subscribe and close_subscription
    MaxEvents,        \* bound: events published
    MaxCommands,      \* bound: calls of the three together
    MaxConns          \* bound: connections made; the last one does not break

ASSUME RelayClientAssumption ==
    /\ IsFiniteSet(Subs)
    /\ RETRIES \in Nat \ {0}
    /\ MaxCalls \in Nat /\ MaxEvents \in Nat /\ MaxCommands \in Nat
    /\ MaxConns \in Nat \ {0}

VARIABLES
    cmds,             \* int_tx/int_rx: commands for the task, in order
    subscriptions,    \* the task's map: the request held for each id, or None
    task,             \* "serving", "reconnecting" or "ended"
    counter,          \* attempts made in this outage
    conn,             \* number of the connection the task uses
    up,               \* up[c]: connection c still carries what is sent
    told,             \* the socket in use has reported the end of its connection
    wires,            \* wires[c]: sent over c and not yet read by the relay
    relaySubs,        \* relaySubs[c]: LocalState::subscriptions of c at the relay
    dropped,          \* history: events whose send failed
    sent,             \* history: the connection an event was sent over, 0 before
    read,             \* history: read[c]: events the relay has read from connection c
    published,        \* history: events publish has accepted
    calls,            \* history: calls of subscribe and close_subscription
    called            \* history: for each id the last call: a request, or None

vars == <<cmds, subscriptions, task, counter, conn, up, told, wires, relaySubs,
          dropped, sent, read, published, calls, called>>
history == <<dropped, sent, read, published, calls, called>>

None == 0
Vers == 1 .. MaxCalls
Conns == 1 .. MaxConns
Events == 1 .. MaxEvents

Req(s, v) == [op |-> "Req", sub |-> s, ver |-> v]
Close(s) == [op |-> "Close", sub |-> s, ver |-> None]
Event(e) == [op |-> "Event", event |-> e]

Command == [op : {"Req"}, sub : Subs, ver : Vers]
           \cup [op : {"Close"}, sub : Subs, ver : {None}]
           \cup [op : {"Event"}, event : Events]

Requests == [Subs -> Vers \cup {None}]
Nothing == [s \in Subs |-> None]

TypeOK ==
    /\ cmds \in Seq(Command)
    /\ subscriptions \in Requests
    /\ task \in {"serving", "reconnecting", "ended"}
    /\ counter \in 0 .. RETRIES
    /\ conn \in Conns
    /\ up \in [Conns -> BOOLEAN]
    /\ told \in BOOLEAN
    /\ wires \in [Conns -> Seq(Command)]
    /\ relaySubs \in [Conns -> Requests]
    /\ dropped \in SUBSET Events
    /\ sent \in [Events -> 0 .. MaxConns]
    /\ read \in [Conns -> SUBSET Events]
    /\ published \in 0 .. MaxEvents
    /\ calls \in 0 .. MaxCalls
    /\ called \in Requests

Init ==
    /\ cmds = <<>>
    /\ subscriptions = Nothing
    /\ task = "serving" /\ counter = 0
    /\ conn = 1
    /\ up = [c \in Conns |-> TRUE]
    /\ told = FALSE
    /\ wires = [c \in Conns |-> <<>>]
    /\ relaySubs = [c \in Conns |-> Nothing]
    /\ dropped = {} /\ sent = [e \in Events |-> 0] /\ read = [c \in Conns |-> {}]
    /\ published = 0 /\ calls = 0
    /\ called = Nothing

-----------------------------------------------------------------------------
(* The methods of Client.  They fail once the task has ended, and then     *)
(* change nothing.                                                         *)

MayCall == task # "ended" /\ calls + published < MaxCommands

Subscribe(s) ==
    /\ MayCall /\ calls < MaxCalls
    /\ calls' = calls + 1
    /\ called' = [called EXCEPT ![s] = calls']
    /\ cmds' = Append(cmds, Req(s, calls'))
    /\ UNCHANGED <<subscriptions, task, counter, conn, up, told, wires, relaySubs,
                   dropped, sent, read, published>>

CloseSubscription(s) ==
    /\ MayCall /\ calls < MaxCalls
    /\ calls' = calls + 1
    /\ called' = [called EXCEPT ![s] = None]
    /\ cmds' = Append(cmds, Close(s))
    /\ UNCHANGED <<subscriptions, task, counter, conn, up, told, wires, relaySubs,
                   dropped, sent, read, published>>

Publish ==
    /\ MayCall /\ published < MaxEvents
    /\ published' = published + 1
    /\ cmds' = Append(cmds, Event(published'))
    /\ UNCHANGED <<subscriptions, task, counter, conn, up, told, wires, relaySubs,
                   dropped, sent, read, calls, called>>

-----------------------------------------------------------------------------
(* The task, serving: the int_rx branch and the read_msg branch.           *)

\* Sending over a broken connection may still look like a success.  An error sets
\* need_reconnect, and the task starts to reconnect before it returns to select!.
Transmit(c, ok) ==
    /\ up[conn] => ok
    /\ wires' = IF up[conn] THEN [wires EXCEPT ![conn] = Append(@, c)] ELSE wires
    /\ IF ok THEN UNCHANGED <<task, counter>>
             ELSE task' = "reconnecting" /\ counter' = 0

Take(c) ==
    /\ task = "serving" /\ cmds # <<>> /\ Head(cmds) = c
    /\ cmds' = Tail(cmds)

\* Faulty: the request is kept only once it has been sent.
TakeReqKeepSent(s, v, ok) ==
    /\ Take(Req(s, v))
    /\ subscriptions' = IF ok THEN [subscriptions EXCEPT ![s] = v] ELSE subscriptions
    /\ Transmit(Req(s, v), ok)
    /\ UNCHANGED <<conn, up, told, relaySubs, history>>

TakeReq(s, v, ok) ==
    /\ Take(Req(s, v))
    /\ subscriptions' = [subscriptions EXCEPT ![s] = v]
    /\ Transmit(Req(s, v), ok)
    /\ UNCHANGED <<conn, up, told, relaySubs, history>>

\* Faulty: the closed subscription stays in the map.
TakeCloseKeep(s, ok) ==
    /\ Take(Close(s))
    /\ Transmit(Close(s), ok)
    /\ UNCHANGED <<subscriptions, conn, up, told, relaySubs, history>>

TakeClose(s, ok) ==
    /\ Take(Close(s))
    /\ subscriptions' = IF ok THEN [subscriptions EXCEPT ![s] = None] ELSE subscriptions
    /\ Transmit(Close(s), ok)
    /\ UNCHANGED <<conn, up, told, relaySubs, history>>

\* Nothing keeps an event whose send failed.
TakeEvent(e, ok) ==
    /\ Take(Event(e))
    /\ dropped' = IF ok THEN dropped ELSE dropped \cup {e}
    /\ sent' = [sent EXCEPT ![e] = conn]
    /\ Transmit(Event(e), ok)
    /\ UNCHANGED <<subscriptions, conn, up, told, relaySubs, read, published, calls, called>>

Serve ==
    \E ok \in BOOLEAN :
        \/ \E s \in Subs, v \in Vers : TakeReq(s, v, ok)
        \/ \E s \in Subs : TakeClose(s, ok)
        \/ \E e \in Events : TakeEvent(e, ok)

\* Faulty: None from the socket is only logged.
NoticeClosedIgnored ==
    /\ task = "serving" /\ told
    /\ UNCHANGED vars

\* read_msg returns None.  (A Close frame or an error before it is only logged.)
NoticeClosed ==
    /\ task = "serving" /\ told
    /\ task' = "reconnecting" /\ counter' = 0
    /\ UNCHANGED <<cmds, subscriptions, conn, up, told, wires, relaySubs, history>>

-----------------------------------------------------------------------------
(* The task, reconnecting.                                                 *)

\* Faulty: the new connection starts with no subscriptions.
ResubscribeToNone == {<<>>}

Kept == {s \in Subs : subscriptions[s] # None}

\* The Req commands put back after a reconnection, in the order of a HashMap.
Resubscriptions ==
    {[i \in DOMAIN order |-> Req(order[i], subscriptions[order[i]])] :
        order \in Bijection(1 .. Cardinality(Kept), Kept)}

\* Faulty: events that the relay may not have read are sent again.
ReconnectAndRepeat ==
    /\ task = "reconnecting" /\ conn < MaxConns
    /\ task' = "serving"
    /\ conn' = conn + 1 /\ told' = FALSE
    /\ \E reqs \in Resubscriptions :
          cmds' = cmds \o reqs \o SelectSeq(wires[conn], LAMBDA c : c.op = "Event")
    /\ UNCHANGED <<subscriptions, counter, up, wires, relaySubs, history>>

\* Faulty: the channel is emptied first.
ReconnectAndDrain ==
    /\ task = "reconnecting" /\ conn < MaxConns
    /\ task' = "serving"
    /\ conn' = conn + 1 /\ told' = FALSE
    /\ cmds' \in Resubscriptions
    /\ UNCHANGED <<subscriptions, counter, up, wires, relaySubs, history>>

Reconnect ==
    /\ task = "reconnecting" /\ conn < MaxConns
    /\ task' = "serving"
    /\ conn' = conn + 1 /\ told' = FALSE
    /\ \E reqs \in Resubscriptions : cmds' = cmds \o reqs
    /\ UNCHANGED <<subscriptions, counter, up, wires, relaySubs, history>>

\* Faulty: the attempts are not limited.
ReconnectFailsForEver ==
    /\ task = "reconnecting"
    /\ counter' = counter + 1
    /\ UNCHANGED <<cmds, subscriptions, task, conn, up, told, wires, relaySubs, history>>

\* After RETRIES failures the task sends Disconnected to its user and ends.
ReconnectFails ==
    /\ task = "reconnecting"
    /\ counter' = counter + 1
    /\ task' = IF counter' < RETRIES THEN "reconnecting" ELSE "ended"
    /\ UNCHANGED <<cmds, subscriptions, conn, up, told, wires, relaySubs, history>>

-----------------------------------------------------------------------------
(* The relay: handle_incoming_message, subscribe and unsubscribe, in the   *)
(* task of connection c.                                                   *)

RelayReads(c) ==
    /\ wires[c] # <<>>
    /\ wires' = [wires EXCEPT ![c] = Tail(@)]
    /\ LET m == Head(wires[c])
       IN  \/ /\ m.op = "Event"
              /\ read' = [read EXCEPT ![c] = @ \cup {m.event}]
              /\ UNCHANGED relaySubs
           \/ /\ m.op # "Event"
              /\ relaySubs' = [relaySubs EXCEPT ![c][m.sub] = m.ver]
              /\ UNCHANGED read
    /\ UNCHANGED <<cmds, subscriptions, task, counter, conn, up, told, dropped, sent,
                   published, calls, called>>

\* The relay's task of connection c ends: its state and what it has not read are lost.
RelayCloses(c) ==
    /\ c <= conn /\ c < MaxConns
    /\ up[c] \/ wires[c] # <<>> \/ relaySubs[c] # Nothing
    /\ up' = [up EXCEPT ![c] = FALSE]
    /\ wires' = [wires EXCEPT ![c] = <<>>]
    /\ relaySubs' = [relaySubs EXCEPT ![c] = Nothing]
    /\ UNCHANGED <<cmds, subscriptions, task, counter, conn, told, history>>

\* The network fails: the relay may still read what has already arrived.
Break ==
    /\ up[conn] /\ conn < MaxConns
    /\ up' = [up EXCEPT ![conn] = FALSE]
    /\ UNCHANGED <<cmds, subscriptions, task, counter, conn, told, wires, relaySubs, history>>

\* The client's socket learns of it: by a Close frame, the end of the stream or an error
\* of the network.  When nothing of the kind arrives it never does.
SocketReports ==
    /\ task = "serving" /\ ~up[conn] /\ ~told
    /\ told' = TRUE
    /\ UNCHANGED <<cmds, subscriptions, task, counter, conn, up, wires, relaySubs, history>>

Next ==
    \/ \E s \in Subs : Subscribe(s) \/ CloseSubscription(s)
    \/ Publish
    \/ Serve
    \/ NoticeClosed
    \/ Reconnect \/ ReconnectFails
    \/ \E c \in Conns : RelayReads(c) \/ RelayCloses(c)
    \/ Break \/ SocketReports

Spec == Init /\ [][Next]_vars

\* select! polls both branches, the reconnection loop goes on by itself, and the
\* relay's task for a connection reads what arrives.  Nothing makes the network
\* fail, report that it did, or an attempt succeed.
Fairness ==
    /\ WF_vars(Serve)
    /\ WF_vars(NoticeClosed)
    /\ WF_vars(Reconnect \/ ReconnectFails)
    /\ \A c \in Conns : WF_vars(RelayReads(c))

LiveSpec == Spec /\ Fairness

-----------------------------------------------------------------------------
(* Properties.                                                             *)

\* The request a holder of held has for s after the commands of q.
Names(c, s) == c.op # "Event" /\ c.sub = s
About(q, s) == {i \in DOMAIN q : Names(q[i], s)}
After(held, q, s) == IF About(q, s) = {} THEN held[s] ELSE q[Max(About(q, s))].ver

PendingReq(q, s) == \E i \in About(q, s) : q[i].op = "Req"

\* On a connection that works, the relay holds (or will hold, when it has read what
\* was sent) exactly what the task's map holds, except for ids whose request waits
\* in the channel: failed sends, closes and reconnections never part the two.
InSync ==
    task = "serving" /\ up[conn] =>
        \A s \in Subs :
            \/ After(relaySubs[conn], wires[conn], s) = subscriptions[s]
            \/ PendingReq(cmds, s)

\* An id the user has subscribed to and not closed is never forgotten, whatever
\* fails while its request is on its way.
NothingForgotten ==
    \A s \in Subs : called[s] # None => subscriptions[s] # None \/ PendingReq(cmds, s)

\* Until the first outage the last call for an id wins: the channel and then the map
\* agree with it.
LastCallWinsAtFirst ==
    conn = 1 /\ task = "serving" =>
        \A s \in Subs : After(subscriptions, cmds, s) = called[s]

EventsIn(q) == {q[i].event : i \in {k \in DOMAIN q : q[k].op = "Event"}}
Carried(c) == read[c] \cup EventsIn(wires[c])

\* Events are lost with a connection and in no other way.  An accepted event waits in
\* the channel until it is sent over some connection: the outages before that do not
\* touch it.  As long as that connection works, the relay has the event or will read it;
\* when it breaks, any number of the last events sent over it are lost, unreported, but
\* never one from the middle.
LostWithItsConnection ==
    \A e \in 1 .. published :
        IF sent[e] = 0 THEN e \in EventsIn(cmds)
        ELSE /\ up[sent[e]] => e \in Carried(sent[e])
             /\ \A later \in Carried(sent[e]) : e < later => e \in Carried(sent[e])

\* No event goes out a second time, and each connection carries events in the order of
\* the calls, later ones than the connections before: no failed send, resubscription or
\* outage reorders what goes out.  (What an old connection still carries the relay may
\* read after what came over a newer one: the order holds per connection.)
Before(D, E) == \A d \in D, e \in E : d < e
InOrder(q) ==
    \A i, j \in DOMAIN q :
        i < j /\ q[i].op = "Event" /\ q[j].op = "Event" => q[i].event < q[j].event

EventsOnceInOrder ==
    /\ InOrder(cmds) /\ Before(dropped, EventsIn(cmds))
    /\ \A c \in Conns :
        /\ InOrder(wires[c]) /\ Before(read[c], EventsIn(wires[c]))
        /\ Before(Carried(c), EventsIn(cmds))
        /\ \A d \in Conns : c < d => Before(Carried(c), Carried(d))
        /\ Carried(c) \cap dropped = {}

\* A subscription becomes active at the relay after every outage, unless it is closed or
\* the client gives up, or the outage is one that the socket never reports.
Active(s) == up[conn] /\ task = "serving" /\ relaySubs[conn][s] # None
HalfOpen == task = "serving" /\ ~up[conn] /\ ~told
BecomesActive ==
    \A s \in Subs :
        \/ <>[]HalfOpen
        \/ (called[s] # None /\ ~Active(s)) ~> (Active(s) \/ called[s] = None \/ task = "ended")

\* What the callers of close_subscription and subscribe say of them ("Cancel
\* subscription"): when all commands are served the relay holds for each id what the
\* last call for it asked.
Quiet == task = "serving" /\ up[conn] /\ cmds = <<>> /\ wires[conn] = <<>>
LastCallWins == Quiet => relaySubs[conn] = called

\* What the assigner says of publish ("retry a few times in case [...] client
\* reconnecting"): an event that cannot be sent because the connection is down is
\* reported to the caller, who can publish it again, and not just dropped.
NoEventDropped == dropped = {}

=============================================================================
