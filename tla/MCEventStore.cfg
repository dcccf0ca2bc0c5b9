SPECIFICATION Spec
CONSTANTS
    alice = alice
    bob = bob
    Letters = {"e", "p", "t", "v"}
    Hex = {}
    Numerals = {}
    NotAList = NotAList
    Unbounded = Unbounded
    Events <- MCEvents
    Queries <- MCQueries
INVARIANTS AskedIsAnswered
CHECK_DEADLOCK FALSE
