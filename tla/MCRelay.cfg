SPECIFICATION Spec
CONSTANTS
    c1 = c1
    c2 = c2
    s1 = s1
    s2 = s2
    s3 = s3
    alice = alice
    bob = bob
    Letters = {"e", "p", "t", "v"}
    Hex = {"ab"}
    Numerals = {"3"}
    NotAList = NotAList
    Unbounded = Unbounded
    Conns = {c1, c2}
    SubIds = {s1, s2, s3}
    LongIds = {}
    WireEvents <- MCWireEvents
    FilterLists <- MCFilterLists
    Instants = {1}
    MAX_SUBS = 2
    CAPACITY = 1
    MaxFrames = 4
SYMMETRY Symmetry
INVARIANTS OkBeforeEcho NothingMissed SubscriptionsAsAsked
PROPERTIES ImplementsFanout
CHECK_DEADLOCK FALSE
