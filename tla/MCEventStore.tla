---------------------------- MODULE MCEventStore ----------------------------
(* A few events, and all queries of one or two filters out of 28.          *)
EXTENDS EventStore

CONSTANTS alice, bob

Stored(i, s, at, k, t) == [id |-> i, sender |-> s, created_at |-> at, kind |-> k, tags |-> t]

\* Two jobs, a heartbeat, and one with the id of the first.
MCEvents ==
    {Stored(1, alice, 1, 6000, {<<"t", "pow">>}), Stored(2, alice, 2, 6000, {}),
     Stored(3, bob, 2, 6002, {<<"v", "3">>}), Stored(1, bob, 3, 6002, {})}

Tagged == {[n \in {} |-> {}], [t |-> {"pow", "classification"}]}

Filters ==
    [ids : {{}}, authors : {{}, {alice}}, kinds : {{}, {6000}, {6002}},
     since : {Unbounded, 1}, until : {Unbounded}, tags : Tagged]
    \cup [ids : {{1}}, authors : {{}}, kinds : {{}}, since : {Unbounded, 0}, until : {3},
          tags : Tagged]

MCQueries == {{f, g} : f, g \in Filters}
=============================================================================
