----------------------------- MODULE Keepalive ------------------------------
(***************************************************************************)
(* How the relay finds out that a peer is gone: activity, ping tick and    *)
(* pong timeout of one connection (nostr-relay/src/ws/server.rs).          *)
(*                                                                         *)
(* Time is an integer clock.  The loop handles what is ready before the    *)
(* clock moves: a frame that has arrived, a tick or a timeout that is due. *)
(* Text, Binary and Ping frames are one kind, "Text": all they do here is  *)
(* reset the activity.  Handling a frame sends nothing that blocks.        *)
(***************************************************************************)
EXTENDS Integers, Sequences

CONSTANTS
    PING_INTERVAL,    \* 300 s
    PONG_TIMEOUT,     \* 20 s
    MaxTime,          \* bound: the clock
    MaxInbox          \* bound: frames that have arrived and wait

\* Were the timeout as long as the interval, each tick could start it again.
ASSUME KeepaliveAssumption ==
    /\ PING_INTERVAL \in Nat /\ PONG_TIMEOUT \in Nat
    /\ 0 < PONG_TIMEOUT /\ PONG_TIMEOUT < PING_INTERVAL
    /\ MaxTime \in Nat /\ MaxInbox \in Nat \ {0}

VARIABLES
    now,              \* the clock
    nextTick,         \* when ping_interval_timer is due
    pongDue,          \* when pong_timeout_timer is due
    last_activity,
    waiting_for_pong,
    open,             \* the loop runs
    inbox,            \* frames the loop has not handled yet
    peer,             \* "healthy": sends, and answers each ping in time; or "gone"
    asked,            \* when the ping arrived that the peer has yet to answer, or Never
    heard             \* history: when the loop last handled a frame

vars == <<now, nextTick, pongDue, last_activity, waiting_for_pong, open, inbox, peer,
          asked, heard>>

Never == -1
Frames == {"Text", "Pong", "Close"}

TypeOK ==
    /\ now \in 0 .. MaxTime
    /\ nextTick \in 0 .. MaxTime + PING_INTERVAL
    /\ pongDue \in 0 .. MaxTime + PONG_TIMEOUT
    /\ last_activity \in 0 .. now
    /\ waiting_for_pong \in BOOLEAN /\ open \in BOOLEAN
    /\ inbox \in Seq(Frames)
    /\ peer \in {"healthy", "gone"}
    /\ asked \in {Never} \cup 0 .. now
    /\ heard \in 0 .. now

\* The first tick of an interval is due at once; the pong timeout is not watched yet.
Init ==
    /\ now = 0
    /\ nextTick = 0
    /\ pongDue = PONG_TIMEOUT
    /\ last_activity = 0
    /\ waiting_for_pong = FALSE
    /\ open = TRUE
    /\ inbox = <<>>
    /\ peer = "healthy" /\ asked = Never
    /\ heard = 0

-----------------------------------------------------------------------------
(* The peer.                                                               *)

PeerSends ==
    /\ open /\ peer = "healthy" /\ Len(inbox) < MaxInbox
    /\ inbox' = Append(inbox, "Text")
    /\ UNCHANGED <<now, nextTick, pongDue, last_activity, waiting_for_pong, open, peer,
                   asked, heard>>

PeerAnswers ==
    /\ open /\ peer = "healthy" /\ asked # Never
    /\ asked' = Never
    /\ inbox' = Append(inbox, "Pong")
    /\ UNCHANGED <<now, nextTick, pongDue, last_activity, waiting_for_pong, open, peer,
                   heard>>

\* The peer closes the connection or ends the stream, or nothing more comes from it.
PeerLeaves ==
    /\ open /\ peer = "healthy"
    /\ peer' = "gone" /\ asked' = Never
    /\ inbox' \in {inbox, Append(inbox, "Close")}
    /\ UNCHANGED <<now, nextTick, pongDue, last_activity, waiting_for_pong, open, heard>>

-----------------------------------------------------------------------------
(* The branches of select!.                                                *)

Handle(frame) ==
    /\ open /\ inbox # <<>> /\ Head(inbox) = frame
    /\ inbox' = Tail(inbox)
    /\ heard' = now
    /\ UNCHANGED <<now, nextTick, pongDue, peer, asked>>

HandleText ==
    /\ Handle("Text")
    /\ last_activity' = now
    /\ UNCHANGED <<waiting_for_pong, open>>

\* Faulty: a pong is activity like any other.
HandlePongAsText ==
    /\ Handle("Pong")
    /\ last_activity' = now
    /\ UNCHANGED <<waiting_for_pong, open>>

HandlePong ==
    /\ Handle("Pong")
    /\ last_activity' = now
    /\ waiting_for_pong' = FALSE
    /\ UNCHANGED open

\* A Close frame, or the end of the stream.
HandleClose ==
    /\ Handle("Close")
    /\ open' = FALSE
    /\ UNCHANGED <<last_activity, waiting_for_pong>>

PongTimeout ==
    /\ open /\ waiting_for_pong /\ pongDue <= now
    /\ open' = FALSE
    /\ UNCHANGED <<now, nextTick, pongDue, last_activity, waiting_for_pong, inbox, peer,
                   asked, heard>>

\* Faulty: the interval is stretched by the timeout.
NextTickLater == nextTick' = nextTick + PING_INTERVAL + PONG_TIMEOUT

\* The interval counts on from when the tick was due.
NextTick == nextTick' = nextTick + PING_INTERVAL

\* Faulty: a peer is asked only when it has been silent for longer than the interval.
IdleLonger == now - last_activity > PING_INTERVAL

Idle == now - last_activity >= PING_INTERVAL

Tick == open /\ nextTick <= now /\ NextTick

TickActive ==
    /\ Tick /\ ~Idle
    /\ UNCHANGED <<now, pongDue, last_activity, waiting_for_pong, open, inbox, peer,
                   asked, heard>>

TickPing ==
    /\ Tick /\ Idle
    /\ waiting_for_pong' = TRUE
    /\ pongDue' = now + PONG_TIMEOUT
    /\ last_activity' = now
    /\ asked' = IF peer = "healthy" THEN now ELSE Never
    /\ UNCHANGED <<now, open, inbox, peer, heard>>

\* Sending to a peer that is gone may fail.
TickPingFails ==
    /\ Tick /\ Idle /\ peer = "gone"
    /\ open' = FALSE
    /\ UNCHANGED <<now, pongDue, last_activity, waiting_for_pong, inbox, peer, asked, heard>>

-----------------------------------------------------------------------------
(* Time.  A healthy peer answers, and is heard, before the timeout is due. *)

Ready ==
    \/ inbox # <<>>
    \/ nextTick <= now
    \/ waiting_for_pong /\ pongDue <= now

Elapse ==
    /\ open /\ ~Ready /\ now < MaxTime
    /\ asked # Never => now + 1 < asked + PONG_TIMEOUT
    /\ now' = now + 1
    /\ UNCHANGED <<nextTick, pongDue, last_activity, waiting_for_pong, open, inbox, peer,
                   asked, heard>>

Next ==
    \/ PeerSends \/ PeerAnswers \/ PeerLeaves
    \/ HandleText \/ HandlePong \/ HandleClose
    \/ PongTimeout
    \/ TickActive \/ TickPing \/ TickPingFails
    \/ Elapse

Spec == Init /\ [][Next]_vars

-----------------------------------------------------------------------------
(* Properties.                                                             *)

\* A connection does not stay open without a frame for two intervals and a timeout,
\* though ping and activity share one instant and ticks do not start with the silence.
HeardRecently == open => now - heard < 2 * PING_INTERVAL + PONG_TIMEOUT

\* A peer whose answers are handled before the timeout is due is never closed, however
\* idle it is and wherever its answer meets the tick.  (In the instant the timeout is due
\* a ready pong and the timeout are equally likely to be taken: that tie is left out.)
HealthyStays == peer = "healthy" => open

=============================================================================
