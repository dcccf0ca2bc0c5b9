------------------------------ MODULE MCRelay -------------------------------
(* A relay with few connections, ids, events and filters.                  *)
EXTENDS Relay, TLC

CONSTANTS c1, c2, s1, s2, s3, alice, bob

RawEvent(i, s, at, k, t, ok) ==
    [id |-> i, sender |-> s, created_at |-> at, kind |-> k, tags |-> t, sound |-> ok]

\* A job with its type, and a heartbeat that comes from the future.
MCWireEvents ==
    {RawEvent("job", alice, 1, 6000, <<<<"t", "pow">>, <<"subject", "x">>>>, TRUE),
     RawEvent("alive", bob, 2, 6002, <<<<"v", "3">>>>, TRUE)}

AnyFilter ==
    [ids |-> {}, authors |-> {}, kinds |-> {}, since |-> Unbounded, until |-> Unbounded,
     tags |-> [n \in {} |-> {}]]

\* One that matches the job, and one with a filter that does not parse.
MCFilterLists ==
    {{[AnyFilter EXCEPT !.kinds = {6000}]},
     {[AnyFilter EXCEPT !.authors = {bob}], [AnyFilter EXCEPT !.tags = [e |-> {"not hex"}]]}}

Symmetry == Permutations(Conns) \cup Permutations(SubIds)
=============================================================================
