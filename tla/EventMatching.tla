--------------------------- MODULE EventMatching ----------------------------
(***************************************************************************)
(* Events, filters and what matches what: the wire forms                   *)
(* (nostr-plus-common/src/wire.rs) and the parsed ones                     *)
(* (nostr-surreal-db/src/message).                                         *)
(*                                                                         *)
(* A tag on the wire is a sequence of strings, its name first.  Of names   *)
(* and values the code looks at three things: whether a name is a single   *)
(* letter, whether a value is hexadecimal, whether it is a number.  The    *)
(* sets Letters, Hex and Numerals say so.  Lists the code sorts and        *)
(* dedups are sets.  Id hash and signature are right or they are not.      *)
(***************************************************************************)
EXTENDS Integers, Sequences

CONSTANTS
    Letters,          \* tag names of one letter, "e" and "p" among them
    Hex,              \* tag values that hex::decode accepts
    Numerals,         \* tag values that u64::from_str_radix accepts
    NotAList,         \* a filter's tag whose value is no list of strings
    Unbounded         \* a filter's since or until that is missing

-----------------------------------------------------------------------------
(* Events.                                                                 *)

HexOnly == {"e", "p"}

\* TryFrom<EventOnWire>: a tag of one element is ignored.
TagParses(tag) ==
    Len(tag) > 1 =>
        /\ tag[1] = "expiration" => tag[2] \in Numerals
        /\ tag[1] \in HexOnly => tag[2] \in Hex

\* EventOnWire::verify and TryFrom<EventOnWire>.
Acceptable(raw, now) ==
    /\ raw.sound
    /\ raw.created_at <= now
    /\ \A i \in DOMAIN raw.tags : TagParses(raw.tags[i])

\* Only single letter names are kept; the expiration is not one of them.
KeptTags(tags) ==
    {<<tags[i][1], tags[i][2]>> :
        i \in {k \in DOMAIN tags : Len(tags[k]) > 1 /\ tags[k][1] \in Letters}}

Parsed(raw) ==
    [id |-> raw.id, sender |-> raw.sender, created_at |-> raw.created_at,
     kind |-> raw.kind, tags |-> KeptTags(raw.tags)]

-----------------------------------------------------------------------------
(* Filters.  On the wire tags is a function from names to sets of values.  *)

\* parse_filter_tags: names of several letters are ignored, whatever their value.
TagsParse(tags) ==
    \A name \in DOMAIN tags \cap Letters :
        /\ tags[name] # NotAList
        /\ name \in HexOnly => tags[name] \subseteq Hex

FilterTags(tags) ==
    [name \in {n \in DOMAIN tags \cap Letters : tags[n] # {}} |-> tags[name]]

ParsedFilter(wire) == [wire EXCEPT !.tags = FilterTags(wire.tags)]

\* Subscription::parse_filters: one bad filter fails them all.
FiltersParse(filters) == \A f \in filters : TagsParse(f.tags)

-----------------------------------------------------------------------------
(* Matching a parsed event with a parsed filter.                           *)

MatchId(f, e) == f.ids = {} \/ e.id \in f.ids
MatchAuthor(f, e) == f.authors = {} \/ e.sender \in f.authors
MatchKind(f, e) == f.kinds = {} \/ e.kind \in f.kinds

\* A filter without tags takes any event; otherwise each of its tags must be met.
MatchTag(f, e) ==
    \A name \in DOMAIN f.tags : \E value \in f.tags[name] : <<name, value>> \in e.tags

\* Nothing calls this one.
MatchTime(f, e) ==
    /\ f.since # Unbounded => e.created_at >= f.since
    /\ f.until # Unbounded => e.created_at <= f.until

MatchFilter(f, e) ==
    MatchId(f, e) /\ MatchAuthor(f, e) /\ MatchKind(f, e) /\ MatchTag(f, e)

MatchFilters(filters, e) == \E f \in filters : MatchFilter(f, e)

\* Subscription::is_interested: the filters are parsed now, for the first time, so that
\* a subscription with a bad filter is accepted and never interested.
IsInterested(filters, e) ==
    /\ FiltersParse(filters)
    /\ MatchFilters({ParsedFilter(f) : f \in filters}, e)
=============================================================================
