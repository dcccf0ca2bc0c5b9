------------------------------- MODULE Fanout -------------------------------
(***************************************************************************)
(* What a relay promises to the connections that listen, without           *)
(* subscriptions, queues and sockets: every accepted event gets a place in *)
(* one order, and each connection is handed some of the events accepted    *)
(* since it came, each at most once and in that order.                     *)
(***************************************************************************)
EXTENDS Integers, Sequences

CONSTANT Peers

VARIABLES
    accepted,         \* events accepted so far: they are numbered 1 .. accepted
    joined,           \* joined[p]: events accepted before p came, or Away
    handed            \* handed[p]: numbers of the events handed to p

fvars == <<accepted, joined, handed>>

Away == -1

FanoutInit ==
    /\ accepted = 0
    /\ joined = [p \in Peers |-> Away]
    /\ handed = [p \in Peers |-> <<>>]

Join(p) ==
    /\ joined[p] = Away
    /\ joined' = [joined EXCEPT ![p] = accepted]
    /\ UNCHANGED <<accepted, handed>>

Accept == accepted' = accepted + 1 /\ UNCHANGED <<joined, handed>>

HandOver(p) ==
    \E n \in 1 .. accepted :
        /\ joined[p] # Away /\ joined[p] < n
        /\ \A i \in DOMAIN handed[p] : handed[p][i] < n
        /\ handed' = [handed EXCEPT ![p] = Append(@, n)]
        /\ UNCHANGED <<accepted, joined>>

FanoutNext == Accept \/ \E p \in Peers : Join(p) \/ HandOver(p)

FanoutSpec == FanoutInit /\ [][FanoutNext]_fvars
=============================================================================
